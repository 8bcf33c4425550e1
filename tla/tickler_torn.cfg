\* The same instance, asking whether a failure between two statements matters.
SPECIFICATION Spec
CONSTANTS
  None = None
  Gone = Gone
  Keep = Keep
  Requests = {r1, r2}
  TodoIds = {t1, t2, t3}
  PatternIds = {p1}
  TodoLimit = 2
  RecurringLimit = 1
  ShowFromDays = 0
  PerDay = 2
  Dates = {2, 3}
  Everys = {1}
  Leads = {0}
  Days = {0}
  MaxClock = 2
  MaxRequests = 4
SYMMETRY Alike
PROPERTIES NeverRepeats
CHECK_DEADLOCK FALSE
