SPECIFICATION Spec
SYMMETRY Symmetry
CONSTANTS
  None = None  Missing = Missing  Unavailable = Unavailable  Torn = Torn  Old = Old  Other = Other
  p1 = p1  p2 = p2  e1 = e1  e2 = e2  e3 = e3
  x1 = x1  x2 = x2  t1 = t1  t2 = t2  t3 = t3  i1 = i1
  c1 = c1  c2 = c2  o1 = o1  o2 = o2
  v1 = v1  v2 = v2  q1 = q1  q2 = q2  r1 = r1  r2 = r2
  auth = auth  testing = testing
  h1 = h1  h2 = h2  u1 = u1  u2 = u2  w1 = w1  d1 = d1  d2 = d2  d3 = d3
  s1 = s1  s2 = s2  n1 = n1  n2 = n2  j1 = j1  j2 = j2  j3 = j3  k1 = k1  k2 = k2
INVARIANTS TypeOK EvidenceIsTrue CallsArePaid SentIsTrue EnrollmentIsOwn
PROPERTIES StateKept TurnsAttributed StopsAreJudged CommandsAreWhole AnswersCount
CHECK_DEADLOCK FALSE
