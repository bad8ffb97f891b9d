\* No guard left out is ever needed, as smt.rs says of every one.
SPECIFICATION Spec
CONSTANTS
  xa = a
  xd = d
  Word <- MCWord
  Narrow <- MCNarrow
  Unknown <- MCUnknown
  Dim = 2
  Limit = 1000
  Programs <- MCPrograms
  Build <- Check
  Result <- Run
  MaxRounds = 4
INVARIANT ElidedGuardIsNeverNeeded
CHECK_DEADLOCK FALSE
