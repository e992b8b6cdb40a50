SPECIFICATION CancelSpec
CONSTANTS
  f1 = f1
  d1 = d1
  d2 = d2
  Fibers = {f1}
  InitialFibers = {f1}
  Extent = 4
  Positions = 2
  RowOffset <- PlainRows
  DaemonPositions = {1}
  Daemons = {d1, d2}
  DaemonCap = 1
  MinCycles = 1
  StopScope = "workload"
  StopAborts = TRUE
  ExternalStops = {"session", "walk"}
INVARIANTS CleanResultIsClean OpsAccountedFor
PROPERTIES CancelDrains Terminates
CHECK_DEADLOCK FALSE
