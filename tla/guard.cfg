\* Three requests, two instances on Postgres, two accounts whose ids truncate
\* to one advisory key.
SPECIFICATION FairSpec
CONSTANTS
  r3 = r3
  i1 = i1
  i2 = i2
  k1 = k1
  None = None
  Requests = {r1, r2, r3}
  Instances = {i1, i2}
  InstanceOf <- MCInstanceOf
  Accounts = {a1, a2}
  KeyOf <- MCSameKey
  Keys = {k1}
  Entries = {e1, e2, e3}
  Postgres = TRUE
INVARIANTS TypeOK ExclusionUnlessTxEnds RefsExact
PROPERTIES ImplementsAccountLock WaitersLeave
