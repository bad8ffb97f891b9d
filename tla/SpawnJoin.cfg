SPECIFICATION Spec
CONSTANTS
  t1 = t1
  t2 = t2
  Main = main
  main = main
  words = words
  threads = threads
  word = word
  none = none
  lost = lost
  Threads = {t1, t2}
  Chans = {words, threads}
  HandleChans = {threads}
  Ceilings = {1, 2}
  MaxOps = 6
  Word = word
  None = none
  Lost = lost
INVARIANTS CountersExact ResultBoxSafe HandleResolves StallIsDetected CleanExit
PROPERTIES DetectorExactForJoins
CHECK_DEADLOCK FALSE
