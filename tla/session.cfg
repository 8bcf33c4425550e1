SPECIFICATION Spec
CONSTANTS
  t1 = t1
  t2 = t2
  c1 = c1
  c2 = c2
  c3 = c3
  None = None
  Tabs <- MCTabs
  Calls <- MCCalls
  TabOf <- MCTabOf
  Ops = {"read", "password"}
  Doors <- MCDoors
  MaxPairs = 3
INVARIANTS TypeOK EndedIsDead StoredIsLive CarriedOutOnce
PROPERTIES LiveSessionKept Settles
CHECK_DEADLOCK FALSE
