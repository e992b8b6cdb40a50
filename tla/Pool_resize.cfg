SPECIFICATION Spec
CONSTANTS
    Operators = {o1, o2}
    Governor = gov
    Concurrency = 3
    Opening = 2
    Targets <- TargetValues
    None = none
    MaxFibers = 5
SYMMETRY OperatorSymmetry
INVARIANTS TypeOK PoolFollowsWrites OldestStays
CHECK_DEADLOCK FALSE
