\* Accepted programs neither touch freed memory nor leak it.
SPECIFICATION Spec
CONSTANTS
  xp = p
  xq = q
  Sigs <- MCSigs
  Programs <- MCPrograms
  Build <- Compile
  MaxRounds = 3
INVARIANTS
  MemorySafe
  NothingLeaks
CHECK_DEADLOCK FALSE
