\* Any two requests that overlap, on every account of this size.
SPECIFICATION Spec
CONSTANTS
  None = None
  Gone = Gone
  Requests = {r1, r2}
  ContextIds = {c1, c2, c3}
  ProjectIds = {p1, p2}
  ItemIds = {i1, i2}
  Names = {n1, n2}
  ContextLimit = 2
  ProjectLimit = 1
  NoteLimit = 1
  MaxRequests = 2
SYMMETRY Alike
INVARIANTS TypeOK AllowancesHeld NamesResolveOnce ReferencesLead
CHECK_DEADLOCK FALSE
