\* Two actions, two uploads and two tags; one file of size two fills the account.
SPECIFICATION Spec
CONSTANTS
  None = None
  Requests = {r1, r2, r3}
  TodoIds = {t1, t2}
  Files = {f1, f2}
  TagNames = {g1, g2}
  Sizes = {1, 2}
  StorageLimit = 2
  TagLimit = 1
  Postgres = TRUE
  MaxRequests = 4
SYMMETRY Alike
INVARIANTS TypeOK WithinAllowance RowsHaveObjects ObjectsAccounted NothingOutlivesItsAction
CHECK_DEADLOCK FALSE
