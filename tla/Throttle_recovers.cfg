SPECIFICATION FairSpec
CONSTANTS
    Ceiling = 10
    Floor = 100
    Start = 0
    Fracs <- AllFracs
    High = 5
    Low = 1
    Operator <- NoOperator
    MaxPending = 2
PROPERTY RecoversToCeiling
CHECK_DEADLOCK FALSE
