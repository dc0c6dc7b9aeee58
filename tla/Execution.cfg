SPECIFICATION Spec
CONSTANTS
    MaxTurns = 2
    MaxTicks = 2
    MaxEdits = 2
INVARIANTS
    TypeOK
    UsesListedTarget
    SuccessIsComplete
    NoSurvivor
    AtMostOneLate
PROPERTIES
    ExecutionEnds
CHECK_DEADLOCK FALSE
