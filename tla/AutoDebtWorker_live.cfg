SPECIFICATION Spec
CONSTANTS
  c1 = c1
  c2 = c2
  w1 = w1
  w2 = w2
  None = None
  Changes <- OneChange
  Workers <- TwoWorkers
  MaxTaken = 1
  MaxSpawned = 1
PROPERTIES
  EventuallyTaken
  RunsEnd
