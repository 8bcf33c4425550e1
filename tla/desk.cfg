SPECIFICATION Spec
CONSTANTS
  None = None
  Followed = {"open", "contexts", "notes", "attachments"}
  Visited = {"home", "contexts", "projects", "notes", "recurring", "attachments", "signin"}
  MaxChanges = 2
INVARIANTS TypeOK SettledIsCurrent
PROPERTIES UndoneStays ScheduledLeaves
CHECK_DEADLOCK FALSE
