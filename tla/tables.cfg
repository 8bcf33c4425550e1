SPECIFICATION Spec
CONSTANTS
  None = None
  Screens = {"users", "audit", "usage"}
  Rows <- MCRows
  Me = 1
  PageSize = 1
  MaxChanges = 2
INVARIANTS TypeOK SettledIsFresh InRange
CHECK_DEADLOCK FALSE
