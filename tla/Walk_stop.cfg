SPECIFICATION Spec
CONSTANTS
    Nodes <- TreeNodes
    Root = "root"
    Kind <- TreeKind
    Kids <- TreeKids
    Limit <- TreeLimit
    Daemons = {}
    Gated = {}
    GatedWorkload = {}
    Repeated = {}
    Skippable = {}
    Conditioned = {"d"}
    StopScope = "scenario"
    StopAfter = 9
    StopEffect = "stop"
    MaxRuns = 1
INVARIANT StoppedIsClean
