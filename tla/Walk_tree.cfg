SPECIFICATION Spec
CONSTANTS
    Nodes <- TreeNodes
    Root = "root"
    Kind <- TreeKind
    Kids <- TreeKids
    Limit <- TreeLimit
    Daemons = {"d"}
    Gated = {"s"}
    GatedWorkload = {}
    Repeated = {"y"}
    Skippable = {"x1"}
    Conditioned = {"x2"}
    StopScope = "workload"
    StopAfter = 3
    StopEffect = "stop"
    MaxRuns = 2
INVARIANTS TypeOK FailureSurfaces SerialCascade FailureHalts NothingStranded TasksAreNested
PROPERTY Terminates
