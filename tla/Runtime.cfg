SPECIFICATION Spec
CONSTANTS
  t1 = t1  t2 = t2  none = none
  Threads = {t1, t2}
  Nil = none
  NoAnswer = none
  Word <- MCWord
  Env <- MCEnv
  Mixes <- MCMixes
  Ceiling <- MCCeiling
  PgColumns <- MCPgColumns
  Statements <- MCStatements
  Binds <- MCBinds
  Timeouts = {1}
  Docs <- MCDocs
  Keys <- MCKeys
  Strings <- MCStrings
  Answers <- MCAnswers
  Programs <- MCPrograms
  Extracted <- MCExtracted
  Fds = {3, 4}
  PluginStart = 50
  MaxCalls = 3
  MaxClock = 1
INVARIANT HandleIsOwn
INVARIANT SlotsExact
INVARIANT ResultIsTrue
PROPERTY MovesAreDeclared
PROPERTY CallsReturn
CHECK_DEADLOCK FALSE
