SPECIFICATION Spec
CONSTANTS
    load = load
    query = query
    v1 = v1
    v2 = v2
    Workloads <- EditedLoad
    Phases = {load, query}
    Swept = {query}
    Repeating = {}
    Versions = {v1, v2}
    NoHash = nohash
    MaxBoots = 3
    MaxFaults = 0
INVARIANTS SkippedPhasesCompleted
CHECK_DEADLOCK FALSE
