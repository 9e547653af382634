SPECIFICATION Spec
CONSTANTS
  c1 = c1
  c2 = c2
  w1 = w1
  w2 = w2
  None = None
  Changes <- TwoChanges
  Workers <- TwoWorkers
  MaxTaken = 2
  MaxSpawned = 1
INVARIANT
  RunningWorkerTakesQueued
