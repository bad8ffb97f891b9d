SPECIFICATION Spec
CONSTANTS
  c1 = c1
  c2 = c2
  c3 = c3
  home = home
  proxy = proxy
  None = None
  Word <- MCWord
  Jwks <- MCJwks
  Issuer = "idp"
  Audience = "app"
  Ttl = 1
  Lifetime = 1
  Conns = {c1, c2, c3}
  Pipelined = {c2}
  Ips = {home, proxy}
  Peer <- MCPeer
  TrustedProxies = {proxy}
  Requests <- MCRequests
  Traffic <- MCTraffic
  IdpTokens <- Issued
  Routes <- MCRoutes
  Encode <- MCEncode
  Decode <- MCDecode
  Values <- MCValues
  RateLimited <- MCRateLimited
  RateMax = 1
  Window = 1
  MaxTracked = 1
  MaxRequests = 2
  HttpLimit = 2
  DemoMode = TRUE
  HasUi = TRUE
  MetricsToken = None
  MaxClock = 1
  MaxSends = 3
INVARIANTS
  GateHolds
  LimitHolds
  HandleRedeemedOnce
  AnswerIsTheReturn
CHECK_DEADLOCK FALSE
