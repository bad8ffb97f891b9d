SPECIFICATION Spec
CONSTANTS
  None = None
  Calls = {c1, c2, c3}
  Secure = {c2, c3}
  Conns = {k1, k2}
  Framings = {"length", "chunked", "close", "eof", "empty"}
  Ceiling = 2
INVARIANTS
  AtMostOnce
  OwnResponse
PROPERTY
  EveryCallReturns
CHECK_DEADLOCK FALSE
