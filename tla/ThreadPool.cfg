SPECIFICATION FairSpec
CONSTANTS
  main = main
  j1 = j1
  j2 = j2
  j3 = j3
  w1 = w1
  w2 = w2
  w3 = w3
  none = none
  Main = main
  Jobs = {j1, j2, j3}
  Workers = {w1, w2, w3}
  None = none
INVARIANTS JobsNeitherLostNorDoubled NoSelfInflictedDeadlock
PROPERTIES AcceptedJobEnds
CHECK_DEADLOCK FALSE
