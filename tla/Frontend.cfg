SPECIFICATION Spec
CONSTANTS
  Levels = 3
  Programs <- MCPrograms
  Wants <- MCWants
  Bigger <- MCBigger
  Typed <- TypedBy
  Supports <- SupportedBy
  Emitted <- EmittedBy
INVARIANTS FiniteLayout ShapesAgree PayloadsFit
CHECK_DEADLOCK FALSE
