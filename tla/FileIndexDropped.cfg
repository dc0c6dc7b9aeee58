SPECIFICATION Spec
CONSTANTS
  Folders = {f1}
  Files = {p1}
  Hidden = {}
  None = None
  MaxTracked = 2
  MaxEdits = 2
  MaxChanges = 1
CHECK_DEADLOCK FALSE
INVARIANT OnlyListedFolders
