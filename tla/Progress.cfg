SPECIFICATION Spec
CONSTANTS
  None = None  Missing = Missing
  p1 = p1  p2 = p2  p3 = p3
  s1 = s1  s2 = s2  d1 = d1  e1 = e1  a = a  b = b  n1 = n1  n2 = n2
  c1 = c1  c2 = c2  o1 = o1  auth = auth  testing = testing
PROPERTIES EventuallyDelivered NothingStuck
CHECK_DEADLOCK FALSE
