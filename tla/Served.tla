------------------------------- MODULE Served -------------------------------
(***************************************************************************)
(* A program served over HTTP: the accept loop and its admission, one      *)
(* thread per connection reading requests, dispatch with its rate limit    *)
(* and token check, the route wrapper that code generation emits for an    *)
(* exposed function, and the function, which may use the identity kernels. *)
(***************************************************************************)
EXTENDS Identity

CONSTANTS
  Conns,            \* connections that clients open, one thread each
  Pipelined,        \* those whose clients do not wait for an answer
  Ips, Peer,        \* addresses, and each connection's
  TrustedProxies,
  Requests, Traffic,    \* what clients send, the token included, and which each
  IdpTokens,        \* the tokens the identity provider issued
  Routes,           \* path |-> [requires, params, ret, does, target, path]
  Encode(_, _),     \* a value of a type on the wire, and back:
  Decode(_, _),     \* emit_encode_value_json, emit_decode_value_json
  Values(_),        \* the values of a type
  RateLimited,      \* rate_limited_paths
  RateMax, Window,  \* rate_limit_max_per_window, rate_limit_window
  MaxTracked,       \* MAX_TRACKED_IPS
  MaxRequests,      \* max_requests_per_connection
  HttpLimit,        \* the ceiling of the serve_http domain
  DemoMode,
  HasUi,            \* ui_html is not empty
  MetricsToken,     \* the Authorization header /metrics asks for, or None
  MaxClock, MaxSends    \* bounds of the model: seconds, and requests in all

ASSUME ServedType ==
  /\ {RateMax, Window, MaxTracked, MaxRequests, HttpLimit} \subseteq Nat \ {0}
  /\ {Ttl, Lifetime, MaxClock, MaxSends} \subseteq Nat
  /\ TrustedProxies \subseteq Ips /\ Peer \in [Conns -> Ips]
  /\ Traffic \in [Conns -> SUBSET Requests]
  /\ RateLimited \subseteq {r.path : r \in Requests}
  /\ \A r \in Requests :
       /\ r.xff \in Ips \cup {None}
       /\ r = [method |-> r.method, path |-> r.path, body |-> r.body,
               sent |-> r.sent, xff |-> r.xff, tok |-> r.tok]

\* typeck.rs: what is acquired has a requirement.
ASSUME RoutesType ==
  \A p \in DOMAIN Routes :
    /\ Routes[p].params \in Seq({Routes[p].params[i] : i \in DOMAIN Routes[p].params})
    /\ Routes[p].requires # None => Routes[p].requires.kind \in {"role", "claim"}
    /\ Routes[p].does = "acquire" => /\ Routes[p].target \in DOMAIN Routes
                                     /\ Routes[Routes[p].target].requires # None

\* Signatures are external: only what the provider issued verifies, and the
\* claims of a token are an object.
ASSUME Unforgeable ==
  /\ \A r \in Requests :
       r.tok # None /\ r.tok.kid # None /\ ValidateOidcToken(r.tok).found => r.tok \in IdpTokens
  /\ \A t \in IdpTokens : t.exp \in Int /\ t.claims.j = "obj"

\* A request without a body.
Empty == Words("")

IsIdentity(p) == p.t \in {"identity", "identity?"}

\* The index of a parameter's value in the body.
JsonIndex(params, i) == Cardinality({k \in 1 .. i - 1 : ~IsIdentity(params[k])})
Own(params) == {i \in DOMAIN params : ~IsIdentity(params[i])}

\* typeck.rs: a function returns a value of its type.
ASSUME FunctionsTyped ==
  \A p \in DOMAIN Routes :
    LET f == Routes[p]
    IN  /\ f.does = "echo" => /\ Len(f.params) \in Own(f.params)
                              /\ \A v \in Values(Last(f.params)) : Ok(v) \in Values(f.ret)
        /\ f.does # "echo" => Ok(Val(1)) \in Values(f.ret)
        /\ Err(StrVal(Words("no"))) \in Values(f.ret)

\* What is encoded is decoded again, and a client that means some values
\* encodes those.
ASSUME CodecIsExact ==
  /\ \A p \in DOMAIN Routes :
       LET f     == Routes[p]
           types == {f.params[i] : i \in Own(f.params)}
       IN  /\ \A ty \in types \cup {f.ret} : \A v \in Values(ty) : Decode(ty, Encode(ty, v)) = Ok(v)
           /\ \A r \in Requests, ty \in types : \A i \in 0 .. Len(r.body.items) - 1 :
                LET d == Decode(ty, r.body.items[i + 1]) IN d.tag # 1 => d.kids[1] \in Values(ty)
  /\ \A r \in Requests :
       r.sent # None => \A i \in Own(Routes[r.path].params) :
         LET f == Routes[r.path]
             k == JsonIndex(f.params, i) + 1
         IN  /\ r.sent[k] \in Values(f.params[i])
             /\ r.body.items[k] = Encode(f.params[i], r.sent[k])

VARIABLES
  conn,       \* what each connection's thread is doing
  sends,      \* requests sent so far
  wire,       \* what each client has sent that its thread has not read
  asked,      \* history: the request whose answer a client waits for, if any
  held,       \* admission count of serve_http
  windows,    \* the limiter: ip |-> [start, count]
  minted,     \* tokens handed out by demo login
  granted,    \* history: when limited requests were let through, per ip
  evicted,    \* history: ips whose window was dropped to make room
  redeemed    \* history: successful exchanges per refresh handle

line    == <<sends, wire, asked>>
limiter == <<windows, granted, evicted>>
vars == <<conn, line, held, windows, minted, granted, evicted, redeemed,
          clock, sessions, refresh>>

(* A connection's thread: an optional identity is a set of at most one. A  *)
(* message is a request with the token it is sent with.                    *)

NoThread(st) == [st |-> st]
Reading(idx, buf) == [st |-> "reading", idx |-> idx, buf |-> buf]
AwaitingBody(c, m) == [st |-> "reading_body", idx |-> conn[c].idx, msg |-> m]
Dispatching(c, m) ==
  [st |-> "dispatch", idx |-> conn[c].idx, req |-> m.req, tok |-> m.tok]
Running(c, st, fn, id, at, args) ==
  [st |-> st, idx |-> conn[c].idx, req |-> conn[c].req,
   fn |-> fn, by |-> id, at |-> at, args |-> args]
Response(c, req, status, body, ret) ==
  [st |-> "answer", idx |-> conn[c].idx, req |-> req,
   status |-> status, body |-> body, ret |-> ret]

Init ==
  /\ conn = [c \in Conns |-> NoThread("none")]
  /\ sends = 0 /\ wire = [c \in Conns |-> <<>>] /\ asked = [c \in Conns |-> {}]
  /\ held = 0 /\ windows = <<>> /\ minted = {}
  /\ granted = [i \in Ips |-> <<>>]
  /\ evicted = {} /\ redeemed = <<>>
  /\ clock = 0 /\ sessions = <<>> /\ refresh = <<>>

Step(c, from, to) == conn[c].st = from /\ conn' = [conn EXCEPT ![c] = to]

\* Every response the server composes itself has a body of its own.
Answer(c, status, body) == Response(c, conn[c].req, status, body, None)

-----------------------------------------------------------------------------
(* Listener::run: a slot is taken before the thread exists; without one    *)
(* the connection is dropped.                                              *)

Accept(c) ==
  /\ held < HttpLimit
  /\ Step(c, "none", Reading(0, <<>>))
  /\ held' = held + 1
  /\ UNCHANGED <<line, limiter, minted, redeemed, clock, tables>>

Refuse(c) ==
  /\ held = HttpLimit
  /\ Step(c, "none", NoThread("refused"))
  /\ UNCHANGED <<line, held, limiter, minted, redeemed, clock, tables>>

\* The thread returns from handle_connection and drops its lease; what is still
\* on the wire is nobody's any more.
Close(c, from) ==
  /\ Step(c, from, NoThread("closed"))
  /\ held' = held - 1
  /\ wire' = [wire EXCEPT ![c] = <<>>] /\ asked' = [asked EXCEPT ![c] = {}]
  /\ UNCHANGED sends

-----------------------------------------------------------------------------
(* read_request. A request is a head, the blank line that ends it, and a   *)
(* body unless that is empty; the pieces arrive in order, as many at a     *)
(* time as the network likes.                                              *)

Piece(part, m) == [part |-> part, of |-> m]
Pieces(m) == <<Piece("head", m), Piece("end", m)>> \o
             (IF m.req.body = Empty THEN <<>> ELSE <<Piece("body", m)>>)

\* A client; it waits for its answer, unless it pipelines.
Send(c) ==
  /\ sends < MaxSends /\ sends' = sends + 1
  /\ conn[c].st \notin {"none", "refused", "closed"}
  /\ c \notin Pipelined => conn[c].st = "reading" /\ asked[c] = {}
  /\ \E r \in Traffic[c] : \E tok \in {r.tok} \cup minted :
       LET m == [req |-> r, tok |-> tok]
       IN  /\ wire' = [wire EXCEPT ![c] = @ \o Pieces(m)]
           /\ asked' = IF c \in Pipelined THEN asked ELSE [asked EXCEPT ![c] = {m}]
  /\ UNCHANGED <<conn, held, limiter, minted, redeemed, clock, tables>>

\* A head that follows a body, or whose beginning was dropped: what is read as
\* its method is none that is looked for, its path is its own or no path at all,
\* and without its beginning it may have lost its headers. Or it is malformed.
Garbled(m) ==
  LET junk == [m EXCEPT !.req.method = "?"]
      lost == [junk EXCEPT !.req.path = "?"]
  IN  {junk, lost, [lost EXCEPT !.tok = None, !.req.xff = None, !.req.body = Empty]}

\* What is parsed of the bytes up to the blank line at k.
Heads(buf, k) == IF k = 2 /\ buf[1].part = "head" THEN {buf[k].of} ELSE Garbled(buf[k].of)

WithBody(m, piece) == [m EXCEPT !.req.body = piece.of.req.body]

\* Mutant: the part of the body that has not come yet is not waited for.
ParsedAtOnce(c, m, rest) ==
  IF m.req.body # Empty /\ rest # <<>> THEN Dispatching(c, WithBody(m, rest[1]))
  ELSE Dispatching(c, [m EXCEPT !.req.body = Empty])

\* The body that came with the header is kept and what lies beyond it dropped; a
\* body that is missing is waited for.
Parsed(c, m, rest) ==
  IF m.req.body = Empty THEN Dispatching(c, m)
  ELSE IF rest = <<>> THEN AwaitingBody(c, m)
       ELSE Dispatching(c, WithBody(m, rest[1]))

\* read_headers, one read of the stream; with the blank line the header is parsed.
ReadHeaders(c) ==
  /\ conn[c].st = "reading"
  /\ \E n \in 1 .. Len(wire[c]) :
       LET buf  == conn[c].buf \o SubSeq(wire[c], 1, n)
           ends == {k \in DOMAIN buf : buf[k].part = "end"}
       IN  /\ wire' = [wire EXCEPT ![c] = SubSeq(@, n + 1, Len(@))]
           /\ \/ /\ ends = {}
                 /\ Step(c, "reading", Reading(conn[c].idx, buf))
              \/ \E k \in ends :
                   /\ \A j \in ends : k <= j
                   /\ \E m \in Heads(buf, k) :
                        Step(c, "reading", Parsed(c, m, SubSeq(buf, k + 1, Len(buf))))
  /\ UNCHANGED <<sends, asked, held, limiter, minted, redeemed, clock, tables>>

\* read_exact of what the body lacks.
ReadBody(c) ==
  /\ conn[c].st = "reading_body" /\ wire[c] # <<>>
  /\ Step(c, "reading_body", Dispatching(c, WithBody(conn[c].msg, Head(wire[c]))))
  /\ wire' = [wire EXCEPT ![c] = Tail(@)]
  /\ UNCHANGED <<sends, asked, held, limiter, minted, redeemed, clock, tables>>

\* End of stream, a timeout before or within a request, or a malformed one.
ReadEnds(c) ==
  /\ Close(c, "reading") \/ Close(c, "reading_body")
  /\ UNCHANGED <<limiter, minted, redeemed, clock, tables>>

\* Too long a header or body.
ReadTooLarge(c) ==
  /\ conn[c].st = "reading" /\ conn[c].buf \o wire[c] # <<>>
  /\ Step(c, "reading", Response(c, None, 413, JNull, None))
  /\ UNCHANGED <<line, held, limiter, minted, redeemed, clock, tables>>

-----------------------------------------------------------------------------
(* dispatch.                                                               *)

Page(r)  == r.path = "/" /\ r.method = "GET"
Probed(r) == r.method = "OPTIONS" \/ Page(r) \/ r.path \in {"/healthz", "/readyz", "/metrics"}
BuiltIn  == {"/api/_demo_login", "/api/_whoami"}

\* resolve_identity, at one reading of the clock.
ResolveIdentity(tok) ==
  IF tok = None THEN Found({})
  ELSE IF tok.kid = None THEN Failed    \* the header is no bearer token
       ELSE LET v == ValidateToken(tok, clock)
            IN  IF v.found THEN Found({v.out}) ELSE Failed

IdentityJson(id) ==
  JObj([subject     |-> JStr(Words(id.subject)),
        expires_at  |-> JNum(id.expires_at),
        claims_json |-> JStr(id.claims_json)])

\* Preflights, the page, the probes, and metrics behind their own token.
\* Readiness is set before the accept loop of a generated main begins.
Probe(c) ==
  LET r == conn[c].req
      asksToken == r.path = "/metrics" /\ MetricsToken # None /\ conn[c].tok # MetricsToken
  IN  /\ Probed(r)
      /\ Step(c, "dispatch",
              Answer(c, CASE r.method = "OPTIONS" -> 204
                          [] r.method # "OPTIONS" /\ Page(r) /\ ~HasUi -> 404
                          [] r.method # "OPTIONS" /\ asksToken -> 401
                          [] OTHER -> 200, JNull))
      /\ UNCHANGED <<line, held, limiter, minted, redeemed, clock, tables>>

\* The roles that are strings, under "roles"; then the claims that are strings.
DemoClaims(body) ==
  LET roles == IF Has(body, "roles") /\ body.flds["roles"].j = "arr"
                 THEN SelectSeq(body.flds["roles"].items, IsStr) ELSE <<>>
      given == IF Has(body, "claims") /\ body.flds["claims"].j = "obj"
                 THEN body.flds["claims"].flds ELSE <<>>
      named == {k \in DOMAIN given : IsStr(given[k])}
  IN  JObj([k \in named |-> given[k]] @@ ("roles" :> JArr(roles)))

DemoSubject(body) ==
  IF Has(body, "subject") /\ IsStr(body.flds["subject"])
    THEN Content(body.flds["subject"]).s ELSE "demo"

DemoLogin(c) ==
  LET r    == conn[c].req
      body == IF r.body = Empty THEN JObj(<<>>) ELSE r.body
      t    == IF IsJson(body) THEN MockIssueToken(DemoSubject(body), DemoClaims(body), clock)
                              ELSE Failed
  IN  /\ ~Probed(r) /\ r.path = "/api/_demo_login"
      /\ Step(c, "dispatch",
              CASE ~DemoMode -> Answer(c, 404, JNull)
                [] DemoMode /\ ~IsJson(body) -> Answer(c, 400, JNull)
                [] OTHER -> Answer(c, IF t.found THEN 200 ELSE 500, JNull))
      /\ minted' = IF DemoMode /\ t.found THEN minted \cup {t.out} ELSE minted
      /\ UNCHANGED <<line, held, limiter, redeemed, clock, tables>>

Whoami(c) ==
  LET id == ResolveIdentity(conn[c].tok)
  IN  /\ ~Probed(conn[c].req) /\ conn[c].req.path = "/api/_whoami"
      /\ Step(c, "dispatch",
              IF id.found /\ id.out # {}
                THEN Answer(c, 200, IdentityJson(CHOOSE x \in id.out : TRUE))
                ELSE Answer(c, 401, JNull))
      /\ UNCHANGED <<line, held, limiter, minted, redeemed, clock, tables>>

ClientIpForRateLimit(c) ==
  IF conn[c].req.xff # None /\ Peer[c] \in TrustedProxies THEN conn[c].req.xff
                                                          ELSE Peer[c]

\* RateLimiter::check, under its lock: the entry the call is counted in.
Tracked(w) == DOMAIN w
Oldest(w)  == CHOOSE i \in Tracked(w) : \A j \in Tracked(w) : w[i].start <= w[j].start
MakeRoom(ip) ==
  IF ip \notin Tracked(windows) /\ Cardinality(Tracked(windows)) >= MaxTracked
    THEN [i \in Tracked(windows) \ {Oldest(windows)} |-> windows[i]]
    ELSE windows

\* Mutant: the elapsed time compared the wrong way round.
EntryAfresh(ip) ==
  LET w == MakeRoom(ip)
      new == [start |-> clock, count |-> 0]
  IN  IF ip \in Tracked(w) /\ clock - w[ip].start >= Window THEN w[ip] ELSE new

Entry(ip) ==
  LET w == MakeRoom(ip)
      new == [start |-> clock, count |-> 0]
  IN  IF ip \in Tracked(w) /\ clock - w[ip].start < Window THEN w[ip] ELSE new

LimiterCheck(c) ==
  LET ip == ClientIpForRateLimit(c)
      e  == Entry(ip)
      ok == e.count < RateMax
      counted == [start |-> e.start, count |-> IF ok THEN e.count + 1 ELSE e.count]
  IN  /\ windows' = [i \in {ip} \cup Tracked(MakeRoom(ip)) |->
                       IF i = ip THEN counted ELSE MakeRoom(ip)[i]]
      /\ granted' = IF ok THEN [granted EXCEPT ![ip] = Append(@, clock)] ELSE granted
      /\ evicted' = evicted \cup (Tracked(windows) \ Tracked(MakeRoom(ip)))

-----------------------------------------------------------------------------
(* The emitted route wrapper. Its code: 0 and 1 are answered 200, 2 is 401.*)

\* nir_json_get_str's status is not looked at.
Claims(id) == GetStr(IdentityJson(id), "claims_json").out

Satisfies(claims, req) ==
  IF req.kind = "role" THEN CheckRole(claims, req.value)
  ELSE LET v == ExtractClaim(claims, req.key)
       IN  v.found /\ v.out = Words(req.value)

\* Mutant: a request without a token is not turned away.
MeetsIfPresent(id, req) ==
  req = None \/ \A x \in id : Satisfies(Claims(x), req)

\* f.requires, checked at the call boundary.
Meets(id, req) ==
  req = None \/ \E x \in id : Satisfies(Claims(x), req)

\* emit_decode_value_json, unrolled for the struct VerifiedIdentity.
DecodeIdentityJson(t) ==
  LET sub == GetStr(t, "subject")
      exp == GetI64(t, "expires_at")
      cl  == GetStr(t, "claims_json")
  IN  IF sub.found /\ exp.found /\ cl.found
        THEN Ok([subject |-> sub.out.s, expires_at |-> exp.out, claims_json |-> cl.out])
        ELSE Err(Message(Failed.err))

OptionIdentity(id) ==
  IF id = {} THEN Ok({})
  ELSE LET d == DecodeIdentityJson(IdentityJson(CHOOSE x \in id : TRUE))
       IN  IF d.tag = 1 THEN d ELSE Ok({d.kids[1]})

\* A parameter is filled from the identity, or with the next element of the body.
Argument(params, i, id, body) ==
  IF IsIdentity(params[i]) THEN OptionIdentity(id)
  ELSE LET g == ArrayGet(body, JsonIndex(params, i))
       IN  IF g.found THEN Decode(params[i], g.out) ELSE Err(Message(g.err))

\* The message is wrapped as it is, although it is no JSON: nothing is stored.
BusinessError(message) == WrapJsonField("err", message.kids[1])

Outcome(c, code, body) ==
  Answer(c, IF code = 2 THEN 401 ELSE 200, body)

\* Touches nothing that threads share, so it is one step with dispatch.
Wrapper(c, id) ==
  LET f    == Routes[conn[c].req.path]
      arg  == [i \in DOMAIN f.params |-> Argument(f.params, i, id, conn[c].req.body)]
      bad  == {i \in DOMAIN arg : arg[i].tag = 1}
      lacks == {i \in DOMAIN arg : f.params[i].t = "identity" /\ id = {}}
      first == CHOOSE i \in bad \cup lacks : \A j \in bad \cup lacks : i <= j
  IN  CASE ~Meets(id, f.requires) -> Outcome(c, 2, JNull)
        [] Meets(id, f.requires) /\ bad \cup lacks = {} ->
             Running(c, "body", conn[c].req.path, id, clock,
                     [i \in DOMAIN arg |-> arg[i].kids[1]])
        [] Meets(id, f.requires) /\ bad \cup lacks # {} ->
             IF first \in lacks THEN Outcome(c, 2, JNull)
                                ELSE Outcome(c, 1, BusinessError(arg[first].kids[1]))

\* The limiter, then the token, which if bad is refused before the route is
\* looked up, then the route.
CallRoute(c) ==
  LET r  == conn[c].req
      id == ResolveIdentity(conn[c].tok)
      limited == r.path \in RateLimited
  IN  /\ ~Probed(r) /\ r.path \notin BuiltIn
      /\ IF limited THEN LimiterCheck(c) ELSE UNCHANGED limiter
      /\ Step(c, "dispatch",
              CASE limited /\ Entry(ClientIpForRateLimit(c)).count >= RateMax ->
                     Answer(c, 429, JNull)
                [] OTHER ->
                     CASE ~id.found -> Answer(c, 401, JNull)
                       [] id.found /\ r.path \notin DOMAIN Routes -> Answer(c, 404, JNull)
                       [] OTHER -> Wrapper(c, id.out))
      /\ UNCHANGED <<line, held, minted, redeemed, clock, tables>>

\* The function's result on its way out: every encoder of the wrapper.
Returns(c, v) ==
  LET f == Routes[conn[c].req.path]
  IN  Response(c, conn[c].req, 200, IF f.ret.t = "unit" THEN JNull ELSE Encode(f.ret, v), v)

-----------------------------------------------------------------------------
(* What served functions do: one kernel call, then return.                 *)

Does(c, what) == conn[c].st = "body" /\ Routes[conn[c].fn].does = what
\* The identities the function has to offer: its parameter's, a session's,
\* one made from an API key.
IdentityArg(c) == LET given == {i \in DOMAIN conn[c].args :
                                  IsIdentity(Routes[conn[c].fn].params[i])}
                  IN  {[id |-> x, at |-> conn[c].at] : x \in UNION {conn[c].args[i] : i \in given}}
FromSession == {[id |-> VerifySession(s).out, at |-> clock] :
                  s \in {s \in DOMAIN sessions : VerifySession(s).found}}
FromApiKey  == {[id |-> ValidateApiKey("k", "k").out, at |-> clock]}
Flag(b) == IF b THEN Ok(Val(1)) ELSE Err(StrVal(Words("no")))

Echo(c) ==
  /\ Does(c, "echo")
  /\ \E v \in {Ok(Last(conn[c].args)), Err(StrVal(Words("no")))} :
       Step(c, "body", Returns(c, v))
  /\ UNCHANGED <<line, held, limiter, minted, redeemed, clock, tables>>

OpenSession(c) ==
  /\ Does(c, "open")
  /\ \E who \in IdentityArg(c) : CreateApplicationSession(who.id)
  /\ Step(c, "body", Returns(c, Ok(Val(1))))
  /\ UNCHANGED <<line, held, limiter, minted, redeemed, clock, refresh>>

IssueRefresh(c) ==
  /\ Does(c, "issue")
  /\ NewRefreshToken(clock + Ttl)
  /\ redeemed' = Append(redeemed, 0)
  /\ Step(c, "body", Returns(c, Ok(Val(1))))
  /\ UNCHANGED <<line, held, limiter, minted, clock, sessions>>

\* The time of the exchange is the program's own reading of the clock.
Exchange(c) ==
  /\ Does(c, "exchange")
  /\ \E h \in 1 .. Len(refresh) + 1 :
       /\ ExchangeRefreshToken(h, clock)
       /\ redeemed' = IF Redeemable(h, clock) THEN [redeemed EXCEPT ![h] = @ + 1]
                                              ELSE redeemed
       /\ Step(c, "body", Returns(c, Flag(Redeemable(h, clock))))
  /\ UNCHANGED <<line, held, limiter, minted, clock, sessions>>

\* check_role or extract_claim for a proof, then acquire with it.
AcquireGated(c) ==
  LET f == Routes[conn[c].fn]
      gate == Routes[f.target].requires
      Opens(id) == LET p == ProofOf(id, gate, f.path)
                   IN  p.found /\ Acquire(p.out, gate) /\ ~CheckRevocation(id.claims_json)
  IN  /\ Does(c, "acquire")
      /\ \/ \E who \in IdentityArg(c) \cup FromSession \cup FromApiKey :
              /\ Opens(who.id)
              /\ Step(c, "body", Running(c, "gated", f.target, {who.id}, who.at, <<>>))
         \/ Step(c, "body", Returns(c, Flag(FALSE)))
      /\ UNCHANGED <<line, held, limiter, minted, redeemed, clock, tables>>

\* The acquired function is called through its address: no wrapper.
CallGated(c) ==
  /\ Step(c, "gated", Returns(c, Flag(TRUE)))
  /\ UNCHANGED <<line, held, limiter, minted, redeemed, clock, tables>>

-----------------------------------------------------------------------------
(* write_response, and whether the connection is kept.                     *)

WantsKeepAlive(c) == conn[c].req # None /\ conn[c].idx + 1 < MaxRequests

Write(c) ==
  /\ conn[c].st = "answer"
  /\ \/ /\ WantsKeepAlive(c)
        /\ Step(c, "answer", Reading(conn[c].idx + 1, <<>>))
        /\ asked' = [asked EXCEPT ![c] = {}]
        /\ UNCHANGED <<sends, wire, held>>
     \/ Close(c, "answer")
  /\ UNCHANGED <<limiter, minted, redeemed, clock, tables>>

Tick ==
  /\ clock < MaxClock
  /\ clock' = clock + 1
  /\ UNCHANGED <<conn, line, held, limiter, minted, redeemed, tables>>

Read(c) == ReadHeaders(c) \/ ReadBody(c) \/ ReadEnds(c) \/ ReadTooLarge(c)
Dispatch(c) == Probe(c) \/ DemoLogin(c) \/ Whoami(c) \/ CallRoute(c)
Function(c) == \/ Echo(c) \/ OpenSession(c) \/ IssueRefresh(c)
               \/ Exchange(c) \/ AcquireGated(c) \/ CallGated(c)
Thread(c) == \/ Read(c)
             \/ (conn[c].st = "dispatch" /\ Dispatch(c))
             \/ Function(c) \/ Write(c)

Next == Tick \/ \E c \in Conns : Send(c) \/ Accept(c) \/ Refuse(c) \/ Thread(c)

Spec == Init /\ [][Next]_vars

-----------------------------------------------------------------------------
(* Properties.                                                             *)

Genuine == IdpTokens \cup minted

\* What the identity provider vouched for: the role is in the list, the claim
\* has the value; an acquired function asks for the value only.
Says(t, value) == IsStr(t) /\ Content(t) = Words(value)
Entitled(id, req, acquired, path) ==
  LET cl == id.claims_json.flds
      at == IF path = <<>> THEN Get(id.claims_json, "roles").out
                           ELSE ResolvePath(id.claims_json, path).out
  IN  CASE req.kind = "role" -> JStr(Words(req.value)) \in {at.items[i] : i \in DOMAIN at.items}
        [] req.kind = "claim" /\ ~acquired ->
             req.key \in DOMAIN cl /\ Says(cl[req.key], req.value)
        [] req.kind = "claim" /\ acquired ->
             Says(at, req.value) \/ \E k \in DOMAIN cl : Says(cl[k], req.value)

\* A function with a requirement runs, behind its route's wrapper or through
\* acquire, only for an identity that comes from a token really issued, that was
\* alive when it was checked (or from a session opened with one and still alive),
\* and that has the role or claim required.
GateHolds ==
  \A c \in Conns :
    LET k == conn[c]
    IN  k.st \in {"body", "gated"} /\ Routes[k.fn].requires # None =>
          \E id \in k.by :
            /\ k.at <= id.expires_at
            /\ \E t \in Genuine : t.sub = id.subject /\ t.claims = id.claims_json
            /\ Entitled(id, Routes[k.fn].requires, k.st = "gated",
                        IF k.st = "gated" THEN Routes[k.req.path].path ELSE <<>>)

\* However its requests are spread over connections, proxies and seconds, an
\* address that was never forgotten gets at most two windows' worth of limited
\* requests through in any stretch as long as a window.
LimitHolds ==
  \A ip \in Ips \ evicted : \A i \in 1 .. Len(granted[ip]) - 2 * RateMax :
    granted[ip][i + 2 * RateMax] - granted[ip][i] > Window

\* Whatever threads exchange it, and however often, a refresh handle is redeemed
\* once.
HandleRedeemedOnce == \A h \in DOMAIN redeemed : redeemed[h] <= 1

\* However its requests are cut into pieces, a client that waits for its answers
\* has each request served whole and as it was sent: the function receives the
\* values the client encoded. And whoever decodes an answer gets the value the
\* function returned.
AnswerIsTheReturn ==
  \A c \in Conns :
    LET k == conn[c]
        f == Routes[k.req.path]
        served == k.st \in {"dispatch", "body", "gated"} \/ (k.st = "answer" /\ k.ret # None)
        AsSent(m) ==
          /\ k.req = m.req
          /\ k.st = "dispatch" => k.tok = m.tok
          /\ k.st = "body" /\ m.req.sent # None =>
               \A i \in Own(f.params) : k.args[i] = m.req.sent[JsonIndex(f.params, i) + 1]
    IN  /\ served /\ c \notin Pipelined => \E m \in asked[c] : AsSent(m)
        /\ k.st = "answer" /\ k.ret # None =>
             /\ k.status # 401
             /\ f.ret.t # "unit" => Decode(f.ret, k.body) = Ok(k.ret)
=============================================================================
