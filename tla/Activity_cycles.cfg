SPECIFICATION Spec
CONSTANTS
  f1 = f1
  f2 = f2
  f3 = f3
  Fibers = {f1, f2, f3}
  InitialFibers = {f1, f2}
  Extent = 4
  Positions = 2
  RowOffset <- BatchRows
  DaemonPositions = {}
  Daemons = {}
  DaemonCap = 0
  MinCycles = 1
  StopScope = "phase"
  StopAborts = FALSE
  ExternalStops = {"daemon"}
INVARIANTS CoverOnce CoverAll ErrorRateAtMostOne InitialFibersDrained
SYMMETRY FiberSymmetry
CHECK_DEADLOCK FALSE
