SPECIFICATION FairSpec
CONSTANTS
  x = x
  y = y
  a = a
  b = b
  full = full
  bare = bare
  Txns = {x}
  Procs = {a, b}
  Sites = {full, bare}
  Compensable = {full}
  Builds = {{full, bare}, {bare}}
  MaxAttempts = 3
INVARIANTS OneOutcome TerminalRowIsTrue DecisionSurvives
PROPERTIES FinishedStaysFinished PendingIsFinished
