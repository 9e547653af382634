SPECIFICATION Spec
CONSTANTS
  p1 = p1
  p2 = p2
  p3 = p3
  None = None
  Procs <- ThreeProcs
  MaxDeaths = 2
  MaxTokens = 3
  AlwaysProved = TRUE
INVARIANTS
  TypeOK
  InsideOwnsLock
  EvictsOnlyTheDead
PROPERTIES
  ImplementsMutex
  OrphanRecovered
