\* Guards left out are never needed, verdicts on contracts are true.
SPECIFICATION Spec
CONSTANTS
  xa = a
  xd = d
  Word <- MCWord
  Narrow <- MCNarrow
  Unknown <- MCUnknown
  Dim = 2
  Limit = 1000
  Programs <- MCPrograms
  Build <- Check
  Result <- Run
  MaxRounds = 4
INVARIANTS
  ElidedGuardsHold
  IntervalsHold
  ContractVerdictIsTrue
CHECK_DEADLOCK FALSE
