SPECIFICATION Spec
CONSTANTS
  Sessions = {s1, s2}
  NoFile = NoFile
  MaxTurns = 2
  TTL = 1
  MaxCalls = 2
  Texts <- MCTexts
  Outputs <- MCOutputs
  Limit = 14
  Marker = 4
  Flag = 3
  Base = 5
  Figures = 3
CHECK_DEADLOCK FALSE
INVARIANT TypeOK
INVARIANT UsageIsBetween
INVARIANT CutToFit
PROPERTY AnswerArrives
