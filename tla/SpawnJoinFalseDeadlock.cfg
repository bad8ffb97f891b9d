SPECIFICATION Spec
CONSTANTS
  t1 = t1
  t2 = t2
  Main = main
  main = main
  words = words
  threads = threads
  word = word
  none = none
  lost = lost
  Threads = {t1, t2}
  Chans = {words, threads}
  HandleChans = {threads}
  Ceilings = {2}
  MaxOps = 3
  Word = word
  None = none
  Lost = lost
INVARIANTS ReportedStallIsPermanent
CHECK_DEADLOCK FALSE
