SPECIFICATION Spec
SYMMETRY Symmetry
CONSTANTS
  p1 = p1
  p2 = p2
  m1 = m1
  m2 = m2
  r1 = r1
  r2 = r2
  None = None
  Procs <- TwoProcs
  Measurements <- TwoMeasurements
  Dests <- TwoDests
  MaxBodies = 1
  MaxQueue = 2
  MaxBuilt = 3
  MaxDeaths = 1
INVARIANT
  ReceiptsAreOnce
CHECK_DEADLOCK FALSE
