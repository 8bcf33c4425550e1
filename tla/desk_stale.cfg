SPECIFICATION Spec
CONSTANTS
  None = None
  Followed = {"attachments"}
  Visited = {"home", "attachments"}
  MaxChanges = 1
PROPERTIES DeletionShown
CHECK_DEADLOCK FALSE
