SPECIFICATION Spec
SYMMETRY Symmetry
CONSTRAINT FewRequests
CONSTANTS
  p1 = p1
  p2 = p2
  e1 = e1
  a = a
  b = b
  None = None
  Procs <- TwoProcs
  Enrollments <- OneEnrollment
  Journals <- TwoEvents
  MaxPage = 2
  MaxEpoch = 2
  MaxChanges = 2
  Happens <- Failures
INVARIANT
  PendingContinues
PROPERTIES
  ImplementsAckedHistory
  SyncIsTrue
CHECK_DEADLOCK FALSE
