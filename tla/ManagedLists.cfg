SPECIFICATION Spec
CONSTANTS
  Folders = {f1}
  Default = {f1}
  Windows = {w1, w2}
  MaxStarts = 2
CHECK_DEADLOCK FALSE
INVARIANT TypeOK
INVARIANT OnlyOverlapLoses
INVARIANT WholeUnlessInterrupted
INVARIANT QuitEndsWindows
INVARIANT AgentIsTold
PROPERTY SaveIsApplied
