SPECIFICATION Spec
CONSTANTS
  c1 = c1
  c2 = c2
  w1 = w1
  w2 = w2
  h1 = h1
  h2 = h2
  None = None
  Changes <- TwoChanges
  Workers <- OneWorker
  Hooks <- TwoHooks
  MaxJobs = 1
  MaxFailed = 1
  MaxAttempts = 1
SYMMETRY Symmetry
INVARIANTS
  TypeOK
  OneJobPerChange
  NothingLost
  NoStaleRecord
PROPERTIES
  QueuedOnlyWhileEnabled
  ImplementsLedger
