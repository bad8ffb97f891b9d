SPECIFICATION Spec
CONSTANTS
  p1 = p1
  p2 = p2
  c1 = c1
  c2 = c2
  c3 = c3
  sqlite = sqlite
  plugindb = plugindb
  pluginrpc = pluginrpc
  none = none
  direct = direct
  Direct = direct
  Callers = {p1, p2}
  Conns = {c1, c2, c3}
  CoreKeys = {sqlite}
  ConnKeys = {plugindb}
  CallKeys = {pluginrpc}
  Domains = {"db", "conn", "call"}
  Ceiling <- MCCeiling
  MaxSize = 2
  MaxKeys = 1
  None = none
INVARIANTS HeldExact SlotCoversSession OnePoolPerKey SessionIsExclusive NoConnectionLeaks
PROPERTIES AcquireIsAtomic
SYMMETRY Interchangeable
