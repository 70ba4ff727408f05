\* A desktop and the server, an edit of a task or a title each, and one deletion.
CONSTANTS
  Replica = {a, b}
  Server = srv
  None = None
  MaxEdits = 2
  MaxActs = 1
  MaxUpsets = 0
SPECIFICATION MetaSpec
INVARIANT EditsSurvive
CHECK_DEADLOCK FALSE
