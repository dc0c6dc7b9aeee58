SPECIFICATION FairSpec
CONSTANTS
  Folders = {f1}
  Files = {p1, p2}
  Hidden = {p2}
  None = None
  MaxTracked = 2
  MaxEdits = 2
  MaxChanges = 2
CHECK_DEADLOCK FALSE
INVARIANT TypeOK
INVARIANT IndexConsistent
PROPERTY StatusSettles
PROPERTY EditIsFollowed
