SPECIFICATION Spec
SYMMETRY Symmetry
CONSTANTS
  p1 = p1
  p2 = p2
  s1 = s1
  s2 = s2
  d1 = d1
  None = None
  Procs <- TwoProcs
  Snaps <- TwoSnaps
  Dests <- OneDest
  Older <- OlderSnap
  MaxQueue = 1
  MaxTimes = 2
  MaxHeld = 1
  MaxClock = 2
  Reconfigure = TRUE
  MayStop = TRUE
INVARIANT
  DeliveryIsTrue
PROPERTY
  ImplementsAtLeastOnce
CHECK_DEADLOCK FALSE
