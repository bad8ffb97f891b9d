---------------------------- MODULE ServedProofs ----------------------------
(***************************************************************************)
(* Proofs about Served, for any number of connections: a refresh handle is *)
(* redeemed once, the rate limiter bounds what it lets through, no         *)
(* function with a requirement runs for somebody who does not meet it, and *)
(* a client that waits for its answers has its requests served as it sent  *)
(* them, in however many pieces they come, and answered with what the      *)
(* function returned.                                                      *)
(***************************************************************************)
EXTENDS Served, SequenceTheorems, TLAPS

\* The steps that take pieces off the wire and go on.
Reads(c) == ReadHeaders(c) \/ ReadBody(c)

Elsewhere == UNCHANGED <<limiter, minted, redeemed, clock, tables>>

\* What a step does to the state the threads share.
LEMMA SharedCases ==
  ASSUME [Next]_vars
  PROVE  \/ \E c \in Conns : DemoLogin(c)
         \/ \E c \in Conns : CallRoute(c)
         \/ \E c \in Conns : OpenSession(c)
         \/ \E c \in Conns : IssueRefresh(c)
         \/ \E c \in Conns : Exchange(c)
         \/ Tick
         \/ Elsewhere
<1>1. CASE UNCHANGED vars
  BY <1>1 DEF vars, Elsewhere, limiter, tables
<1>2. CASE Tick
  BY <1>2
<1>3. ASSUME NEW c \in Conns, Send(c) \/ Reads(c) \/ Accept(c) \/ Refuse(c)
      PROVE  Elsewhere
  BY <1>3 DEF Send, Reads, ReadHeaders, ReadBody, Accept, Refuse, Elsewhere
<1>4. ASSUME NEW c \in Conns, ReadEnds(c) \/ ReadTooLarge(c) \/ Write(c)
      PROVE  Elsewhere
  BY <1>4 DEF ReadEnds, ReadTooLarge, Write, Elsewhere
<1>5. ASSUME NEW c \in Conns, Probe(c) \/ Whoami(c)
      PROVE  Elsewhere
  BY <1>5 DEF Probe, Whoami, Elsewhere
<1>6. ASSUME NEW c \in Conns, Echo(c) \/ AcquireGated(c) \/ CallGated(c)
      PROVE  Elsewhere
  BY <1>6, Zenon DEF Echo, AcquireGated, CallGated, Elsewhere
<1> QED BY <1>1, <1>2, <1>3, <1>4, <1>5, <1>6 DEF Next, Thread, Read, Reads, Dispatch, Function
-----------------------------------------------------------------------------
(* Refresh handles.                                                        *)

\* A handle has been redeemed if its record is marked, and then once.
RedeemInv ==
  /\ clock \in Nat
  /\ redeemed \in Seq(Nat) /\ refresh \in Seq([expires_at : Int, used : BOOLEAN])
  /\ Len(redeemed) = Len(refresh)
  /\ \A h \in 1 .. Len(refresh) : redeemed[h] = IF refresh[h].used THEN 1 ELSE 0

\* A new handle is unmarked and not yet redeemed.
LEMMA IssueKeeps ==
  ASSUME RedeemInv, NEW c \in Conns, IssueRefresh(c)
  PROVE  RedeemInv'
<1> DEFINE new == [expires_at |-> clock + Ttl, used |-> FALSE]
<1>1. /\ refresh' = Append(refresh, new) /\ redeemed' = Append(redeemed, 0) /\ clock' = clock
  BY DEF IssueRefresh, NewRefreshToken
<1>2. new \in [expires_at : Int, used : BOOLEAN] /\ new.used = FALSE
  BY ServedType DEF RedeemInv
<1> HIDE DEF new
<1>3. /\ refresh' \in Seq([expires_at : Int, used : BOOLEAN]) /\ redeemed' \in Seq(Nat)
      /\ Len(refresh') = Len(refresh) + 1 /\ Len(redeemed') = Len(redeemed) + 1
      /\ refresh'[Len(refresh) + 1] = new /\ redeemed'[Len(redeemed) + 1] = 0
      /\ \A h \in 1 .. Len(refresh) : refresh'[h] = refresh[h] /\ redeemed'[h] = redeemed[h]
  BY <1>1, <1>2, AppendProperties DEF RedeemInv
<1>4. Len(refresh) \in Nat
  BY LenProperties DEF RedeemInv
<1>5. ASSUME NEW h \in 1 .. Len(refresh')
      PROVE  redeemed'[h] = IF refresh'[h].used THEN 1 ELSE 0
  <2>1. h \in 1 .. Len(refresh) \/ h = Len(refresh) + 1
    BY <1>3, <1>4
  <2>2. CASE h = Len(refresh) + 1
    BY <2>2, <1>2, <1>3 DEF RedeemInv
  <2>3. CASE h \in 1 .. Len(refresh)
    BY <2>3, <1>3 DEF RedeemInv
  <2> QED BY <2>1, <2>2, <2>3
<1> QED BY <1>1, <1>3, <1>5 DEF RedeemInv

\* An exchange succeeds on an unmarked record only, and marks it under the lock.
LEMMA ExchangeKeeps ==
  ASSUME RedeemInv, NEW c \in Conns, Exchange(c)
  PROVE  RedeemInv'
<1>1. PICK h \in 1 .. Len(refresh) + 1 :
        /\ ExchangeRefreshToken(h, clock)
        /\ redeemed' = IF Redeemable(h, clock) THEN [redeemed EXCEPT ![h] = @ + 1] ELSE redeemed
  BY DEF Exchange
<1>2. clock' = clock
  BY DEF Exchange
<1>3. CASE ~Redeemable(h, clock)
  BY <1>1, <1>2, <1>3 DEF ExchangeRefreshToken, RedeemInv
<1>4. CASE Redeemable(h, clock)
  <2> DEFINE marked == [expires_at |-> refresh[h].expires_at, used |-> TRUE]
  <2>1. h \in DOMAIN refresh /\ refresh[h].used = FALSE
    BY <1>4 DEF Redeemable, RedeemInv
  <2>2. h \in 1 .. Len(refresh) /\ h \in 1 .. Len(redeemed) /\ redeemed[h] = 0
    BY <2>1 DEF RedeemInv
  <2>3. marked \in [expires_at : Int, used : BOOLEAN] /\ marked.used = TRUE
    <3>1. refresh[h] \in [expires_at : Int, used : BOOLEAN]
      BY <2>2, ElementOfSeq DEF RedeemInv
    <3>2. refresh[h].expires_at \in Int
      BY <3>1
    <3> QED BY <3>2
  <2>4. refresh' = [refresh EXCEPT ![h] = marked] /\ redeemed' = [redeemed EXCEPT ![h] = 1]
    BY <1>1, <1>4, <2>2 DEF ExchangeRefreshToken
  <2> HIDE DEF marked
  <2>5. /\ refresh' \in Seq([expires_at : Int, used : BOOLEAN]) /\ Len(refresh') = Len(refresh)
        /\ redeemed' \in Seq(Nat) /\ Len(redeemed') = Len(redeemed)
        /\ \A i \in 1 .. Len(refresh) :
             /\ refresh'[i] = IF i = h THEN marked ELSE refresh[i]
             /\ redeemed'[i] = IF i = h THEN 1 ELSE redeemed[i]
    BY <2>2, <2>3, <2>4, ExceptSeq DEF RedeemInv
  <2> QED BY <1>2, <2>3, <2>5 DEF RedeemInv
<1> QED BY <1>3, <1>4

\* Every step keeps what the records say.
LEMMA RedeemStep == ASSUME RedeemInv, [Next]_vars PROVE RedeemInv'
<1>1. ASSUME UNCHANGED <<refresh, redeemed>>, clock' = clock \/ Tick
      PROVE  RedeemInv'
  BY <1>1 DEF RedeemInv, Tick
<1>2. ASSUME NEW c \in Conns, DemoLogin(c) \/ CallRoute(c) \/ OpenSession(c)
      PROVE  UNCHANGED <<refresh, redeemed, clock>>
  BY <1>2 DEF DemoLogin, CallRoute, OpenSession, tables
<1>3. Elsewhere \/ Tick => UNCHANGED <<refresh, redeemed>>
  BY DEF Elsewhere, Tick, tables
<1>4. Elsewhere => clock' = clock
  BY DEF Elsewhere
<1> QED BY <1>1, <1>2, <1>3, <1>4, SharedCases, IssueKeeps, ExchangeKeeps

\* Whatever threads exchange it, a refresh handle is redeemed at most once.
THEOREM RedeemedOnce == Spec => []HandleRedeemedOnce
<1>1. Init => RedeemInv
  BY DEF Init, RedeemInv
<1>2. RedeemInv /\ [Next]_vars => RedeemInv'
  BY RedeemStep
<1>3. RedeemInv => HandleRedeemedOnce
  BY SMTT(30) DEF RedeemInv, HandleRedeemedOnce
<1> QED BY <1>1, <1>2, <1>3, PTL DEF Spec

-----------------------------------------------------------------------------
(* Threads. A step moves one of them; what it is asked, and for whom it    *)
(* runs a function, is settled in three actions only.                      *)

Quiet == {"reading", "refused", "closed", "answer"}
Rests(k) == k.st \in Quiet /\ (k.st = "reading" => k.buf = <<>>)

Turn(c) == DOMAIN conn' = Conns /\ \A d \in Conns \ {c} : conn'[d] = conn[d]

\* What Step does to the threads.
LEMMA StepIs ==
  ASSUME DOMAIN conn = Conns, NEW c \in Conns, NEW from, NEW to, Step(c, from, to)
  PROVE  conn[c].st = from /\ Turn(c) /\ conn'[c] = to
BY DEF Step, Turn

\* The states a thread is in when it neither dispatches nor runs anything.
LEMMA QuietStates ==
  ASSUME NEW c \in Conns
  PROVE  /\ Rests(NoThread("closed")) /\ Rests(NoThread("refused"))
         /\ \A i : Rests(Reading(i, <<>>))
         /\ \A r, s, b, v : Rests(Response(c, r, s, b, v))
BY DEF NoThread, Reading, Response, Quiet, Rests

\* The steps that answer with what a function returned; no other answer has one.
Replies(c) == Echo(c) \/ OpenSession(c) \/ IssueRefresh(c) \/ Exchange(c) \/ CallGated(c)
ComposedByServer(k) == k.st = "answer" => k.ret = None

LEMMA ComposedStates ==
  ASSUME NEW c \in Conns
  PROVE  /\ ComposedByServer(NoThread("closed")) /\ ComposedByServer(NoThread("refused"))
         /\ \A i, b : ComposedByServer(Reading(i, b))
         /\ \A r, s, b : ComposedByServer(Response(c, r, s, b, None))
BY DEF NoThread, Reading, Response, ComposedByServer

\* A thread that reads goes on reading, or dispatches what it has read.
LEMMA ReadsIs ==
  ASSUME DOMAIN conn = Conns, NEW c \in Conns, Reads(c)
  PROVE  /\ Turn(c) /\ conn'[c].st \in {"reading", "reading_body", "dispatch"}
         /\ ComposedByServer(conn'[c])
<1>1. /\ \A i, b : Reading(i, b).st = "reading"
      /\ \A m : Dispatching(c, m).st = "dispatch" /\ AwaitingBody(c, m).st = "reading_body"
  BY DEF Reading, Dispatching, AwaitingBody
<1>2. \A m, rest : Parsed(c, m, rest).st \in {"dispatch", "reading_body"}
  BY <1>1 DEF Parsed
<1>3. PICK from, k : Step(c, from, k) /\ k.st \in {"reading", "reading_body", "dispatch"}
  <2>1. CASE ReadHeaders(c)
    <3>1. \/ \E b : Step(c, "reading", Reading(conn[c].idx, b))
          \/ \E m, rest : Step(c, "reading", Parsed(c, m, rest))
      BY <2>1, Zenon DEF ReadHeaders
    <3> QED BY <3>1, <1>1, <1>2
  <2>2. CASE ReadBody(c)
    <3>1. \E m : Step(c, "reading_body", Dispatching(c, m))
      BY <2>2, Zenon DEF ReadBody
    <3> QED BY <3>1, <1>1
  <2> QED BY <2>1, <2>2 DEF Reads
<1> QED BY <1>3, StepIs DEF ComposedByServer

\* The built-in paths are answered by the server itself.
BuiltIns(c) == Probe(c) \/ DemoLogin(c) \/ Whoami(c)

LEMMA BuiltInsAre ==
  ASSUME DOMAIN conn = Conns, NEW c \in Conns, BuiltIns(c)
  PROVE  Turn(c) /\ conn[c].st = "dispatch" /\ conn'[c].st = "answer" /\ conn'[c].ret = None
<1>1. CASE Probe(c)
  <2>1. PICK s, b : Step(c, "dispatch", Answer(c, s, b))
    BY <1>1 DEF Probe
  <2> QED BY <2>1, StepIs DEF Answer, Response
<1>2. CASE DemoLogin(c)
  <2> DEFINE r == conn[c].req
             body == IF r.body = Empty THEN JObj(<<>>) ELSE r.body
             t == IF IsJson(body) THEN MockIssueToken(DemoSubject(body), DemoClaims(body), clock)
                                  ELSE Failed
             k == CASE ~DemoMode -> Answer(c, 404, JNull)
                    [] DemoMode /\ ~IsJson(body) -> Answer(c, 400, JNull)
                    [] OTHER -> Answer(c, IF t.found THEN 200 ELSE 500, JNull)
  <2>0. Step(c, "dispatch", k)
    BY <1>2 DEF DemoLogin
  <2>1. \E s, b : k = Answer(c, s, b)
    <3> HIDE DEF t, body
    <3> QED OBVIOUS
  <2> HIDE DEF k
  <2> QED BY <2>0, <2>1, StepIs DEF Answer, Response
<1>3. CASE Whoami(c)
  <2>1. PICK k : /\ Step(c, "dispatch", k)
                 /\ \E s, b : k = Answer(c, s, b)
    BY <1>3 DEF Whoami
  <2> QED BY <2>1, StepIs DEF Answer, Response
<1> QED BY <1>1, <1>2, <1>3 DEF BuiltIns

\* A function's return becomes the answer of the request it runs for.
LEMMA RepliesAre ==
  ASSUME DOMAIN conn = Conns, NEW c \in Conns, Replies(c)
  PROVE  /\ Turn(c) /\ conn[c].st \in {"body", "gated"}
         /\ conn'[c].st = "answer" /\ conn'[c].req = conn[c].req
<1>1. PICK from, v : from \in {"body", "gated"} /\ Step(c, from, Returns(c, v))
  <2>1. CASE Echo(c) \/ Exchange(c)
    <3>1. \E v : Step(c, "body", Returns(c, v))
      BY <2>1, Zenon DEF Echo, Exchange
    <3> QED BY <3>1
  <2>2. CASE OpenSession(c) \/ IssueRefresh(c)
    <3>1. Step(c, "body", Returns(c, Ok(Val(1))))
      BY <2>2, Zenon DEF OpenSession, IssueRefresh
    <3> QED BY <3>1
  <2>3. CASE CallGated(c)
    <3> DEFINE done == Flag(TRUE)
    <3>1. Step(c, "gated", Returns(c, done))
      BY <2>3 DEF CallGated
    <3> HIDE DEF done
    <3> QED BY <3>1
  <2> QED BY <2>1, <2>2, <2>3 DEF Replies
<1>2. Returns(c, v).st = "answer" /\ Returns(c, v).req = conn[c].req
  BY DEF Returns, Response
<1>3. conn[c].st = from /\ Turn(c) /\ conn'[c] = Returns(c, v)
  BY <1>1, StepIs
<1> QED BY <1>1, <1>2, <1>3

\* What one connection's client and thread do.
Acts(c) == Send(c) \/ Accept(c) \/ Refuse(c) \/ Thread(c)

LEMMA Moves ==
  ASSUME [Next]_vars
  PROVE  (\E c \in Conns : Acts(c)) \/ UNCHANGED <<conn, wire, asked>>
BY DEF Next, Acts, Tick, vars, line

LEMMA ActsAre ==
  ASSUME NEW c \in Conns, Acts(c)
  PROVE  \/ Send(c) \/ Accept(c) \/ Refuse(c) \/ Reads(c) \/ ReadEnds(c) \/ ReadTooLarge(c)
         \/ BuiltIns(c) \/ CallRoute(c) \/ Replies(c) \/ AcquireGated(c) \/ Write(c)
BY DEF Acts, Thread, Read, Reads, Dispatch, Function, Replies, BuiltIns

\* How a thread moves.
LEMMA ConnOf ==
  ASSUME DOMAIN conn = Conns, NEW c \in Conns, Acts(c)
  PROVE  \/ conn' = conn
         \/ /\ Turn(c)
            /\ \/ Rests(conn'[c]) /\ (ComposedByServer(conn'[c]) \/ Replies(c))
               \/ Reads(c)
               \/ CallRoute(c)
               \/ AcquireGated(c)
<1>1. CASE Send(c) \/ Reads(c)
  BY <1>1, ReadsIs DEF Send
<1>2. CASE Accept(c) \/ Refuse(c) \/ ReadEnds(c) \/ ReadTooLarge(c) \/ Write(c)
  <2>1. Turn(c) /\ Rests(conn'[c]) /\ ComposedByServer(conn'[c])
    BY <1>2, StepIs, QuietStates, ComposedStates DEF Accept, Refuse, ReadEnds, ReadTooLarge, Write, Close
  <2> QED BY <2>1
<1>3. CASE BuiltIns(c)
  BY <1>3, BuiltInsAre DEF Rests, Quiet, ComposedByServer
<1>4. CASE Replies(c)
  BY <1>4, RepliesAre DEF Rests, Quiet
<1>5. CASE CallRoute(c) \/ AcquireGated(c)
  <2>1. PICK from, k : Step(c, from, k)
    BY <1>5, ZenonT(60) DEF CallRoute, AcquireGated
  <2> QED BY <1>5, <2>1, StepIs
<1> QED BY <1>1, <1>2, <1>3, <1>4, <1>5, ActsAre

\* Which thread moves, and how.
LEMMA ConnCases ==
  ASSUME DOMAIN conn = Conns, [Next]_vars
  PROVE  \/ conn' = conn
         \/ \E c \in Conns : /\ Turn(c)
                             /\ \/ /\ Rests(conn'[c])
                                   /\ ComposedByServer(conn'[c]) \/ Replies(c)
                                \/ Reads(c)
                                \/ CallRoute(c)
                                \/ AcquireGated(c)
BY Moves, ConnOf

\* What is sent: requests, with a token of a client's own or one that demo login
\* handed out. What a thread makes of it has a body, an address and a token that
\* were sent, or none.
Tokens   == {r.tok : r \in Requests} \cup minted \cup {None}
Messages == [req : Requests, tok : Tokens]
Sent     == [part : {"head", "end", "body"}, of : Messages]
Bodies   == {r.body : r \in Requests} \cup {Empty}

Taken ==
  [req : [method : {r.method : r \in Requests} \cup {"?"}, path : {r.path : r \in Requests} \cup {"?"},
          body : Bodies, sent : {r.sent : r \in Requests}, xff : Ips \cup {None},
          tok : {r.tok : r \in Requests}],
   tok : Tokens]

AskedOf(k) ==
  /\ k.st = "reading" => k.buf \in Seq(Sent)
  /\ k.st = "reading_body" => k.msg \in Taken
  /\ k.st = "dispatch" => [req |-> k.req, tok |-> k.tok] \in Taken

Asked ==
  /\ DOMAIN conn = Conns /\ wire \in [Conns -> Seq(Sent)]
  /\ \A c \in Conns : AskedOf(conn[c])

\* Tokens are not taken back, and only some actions change anything else.
LEMMA MintedGrows == ASSUME [Next]_vars PROVE minted \subseteq minted'
<1>1. ASSUME NEW c \in Conns, DemoLogin(c) PROVE minted \subseteq minted'
  BY <1>1 DEF DemoLogin
<1>2. ASSUME NEW c \in Conns, CallRoute(c) \/ OpenSession(c) \/ IssueRefresh(c) \/ Exchange(c)
      PROVE  minted' = minted
  BY <1>2 DEF CallRoute, OpenSession, IssueRefresh, Exchange
<1>3. Tick \/ Elsewhere => minted' = minted
  BY DEF Tick, Elsewhere
<1> QED BY <1>1, <1>2, <1>3, SharedCases

\* The states a route leaves a thread in.
LEMMA RouteStates ==
  ASSUME DOMAIN conn = Conns, NEW c \in Conns, CallRoute(c)
  PROVE  /\ conn[c].st = "dispatch" /\ Turn(c)
         /\ \/ conn'[c].st = "answer" /\ conn'[c].ret = None
            \/ /\ ResolveIdentity(conn[c].tok).found /\ conn[c].req.path \in DOMAIN Routes
               /\ conn'[c] = Wrapper(c, ResolveIdentity(conn[c].tok).out)
<1> DEFINE r  == conn[c].req
           id == ResolveIdentity(conn[c].tok)
           over == r.path \in RateLimited /\ Entry(ClientIpForRateLimit(c)).count >= RateMax
           routed == CASE ~id.found -> Answer(c, 401, JNull)
                       [] id.found /\ r.path \notin DOMAIN Routes -> Answer(c, 404, JNull)
                       [] OTHER -> Wrapper(c, id.out)
           k == CASE over -> Answer(c, 429, JNull) [] OTHER -> routed
<1>1. Step(c, "dispatch", k)
  BY DEF CallRoute
<1>2. \A s, b : Answer(c, s, b).st = "answer" /\ Answer(c, s, b).ret = None
  BY DEF Answer, Response
<1> HIDE DEF id, r, over
<1>3. \/ \E s, b : routed = Answer(c, s, b)
      \/ id.found /\ r.path \in DOMAIN Routes /\ routed = Wrapper(c, id.out)
  OBVIOUS
<1> HIDE DEF routed
<1>4. k = routed \/ \E s, b : k = Answer(c, s, b)
  OBVIOUS
<1> HIDE DEF k
<1> QED BY <1>1, <1>2, <1>3, <1>4, StepIs DEF id, r

\* The wrapper answers, or runs the route's function.
LEMMA WrapperIs ==
  ASSUME NEW c \in Conns, NEW id
  PROVE  \/ Wrapper(c, id).st = "answer" /\ Wrapper(c, id).ret = None
         \/ LET f == Routes[conn[c].req.path]
            IN  /\ Meets(id, f.requires)
                /\ Wrapper(c, id) =
                     Running(c, "body", conn[c].req.path, id, clock,
                       [i \in DOMAIN f.params |-> Argument(f.params, i, id, conn[c].req.body).kids[1]])
                /\ \A i \in DOMAIN f.params : Argument(f.params, i, id, conn[c].req.body).tag # 1
<1> DEFINE f     == Routes[conn[c].req.path]
           arg   == [i \in DOMAIN f.params |-> Argument(f.params, i, id, conn[c].req.body)]
           bad   == {i \in DOMAIN arg : arg[i].tag = 1}
           lacks == {i \in DOMAIN arg : f.params[i].t = "identity" /\ id = {}}
           first == CHOOSE i \in bad \cup lacks : \A j \in bad \cup lacks : i <= j
           fail  == IF first \in lacks THEN Outcome(c, 2, JNull)
                    ELSE Outcome(c, 1, BusinessError(arg[first].kids[1]))
           run   == Running(c, "body", conn[c].req.path, id, clock, [i \in DOMAIN arg |-> arg[i].kids[1]])
           ok    == Meets(id, f.requires)
           none  == bad \cup lacks = {}
           k     == CASE ~ok -> Outcome(c, 2, JNull)
                      [] ok /\ none -> run
                      [] ok /\ ~none -> fail
<1>1. Wrapper(c, id) = k
  BY DEF Wrapper
<1>2. \A s, b : Outcome(c, s, b).st = "answer" /\ Outcome(c, s, b).ret = None
  BY DEF Outcome, Answer, Response
<1>3. fail.st = "answer" /\ fail.ret = None
  <2> HIDE DEF lacks, first, arg
  <2> QED BY <1>2
<1>4. run = Running(c, "body", conn[c].req.path, id, clock,
                    [i \in DOMAIN f.params |-> Argument(f.params, i, id, conn[c].req.body).kids[1]])
  BY Zenon
<1>5. none => \A i \in DOMAIN f.params : Argument(f.params, i, id, conn[c].req.body).tag # 1
  BY Zenon
<1> HIDE DEF run, fail, ok, none
<1>6. \/ k = Outcome(c, 2, JNull) \/ k = fail \/ (ok /\ none /\ k = run)
  BY Zenon
<1> HIDE DEF k
<1> QED BY <1>1, <1>2, <1>3, <1>4, <1>5, <1>6, Zenon DEF ok

\* A sequence stays one of a larger set.
LEMMA SeqGrows == ASSUME NEW S, NEW T, S \subseteq T, NEW s \in Seq(S) PROVE s \in Seq(T)
OBVIOUS

\* What was sent, or taken, before a step still counts as such after it.
LEMMA SentGrows ==
  ASSUME [Next]_vars
  PROVE  /\ Tokens \subseteq Tokens' /\ Messages \subseteq Messages' /\ Sent \subseteq Sent'
         /\ Taken \subseteq Taken'
         /\ \A k : AskedOf(k) => AskedOf(k)'
<1>1. Tokens \subseteq Tokens'
  BY MintedGrows DEF Tokens
<1>2. Messages \subseteq Messages' /\ Sent \subseteq Sent'
  BY <1>1 DEF Messages, Sent
<1>3. Taken \subseteq Taken'
  BY <1>1 DEF Taken, Bodies
<1>4. \A s : s \in Seq(Sent) => s \in Seq(Sent')
  BY <1>2, SeqGrows
<1>5. ASSUME NEW k, AskedOf(k) PROVE AskedOf(k)'
  BY <1>3, <1>4, <1>5 DEF AskedOf
<1> QED BY <1>1, <1>2, <1>3, <1>5

\* A message is taken whole or garbled, and with its own body or another's.
LEMMA MessageTaken ==
  ASSUME NEW m \in Messages
  PROVE  m \in Taken /\ Garbled(m) \subseteq Taken
<1>1. PICK r \in Requests, t \in Tokens : m = [req |-> r, tok |-> t]
  BY DEF Messages
<1>2. PICK me, pa, bo, se, xf, to :
        r = [method |-> me, path |-> pa, body |-> bo, sent |-> se, xff |-> xf, tok |-> to]
  BY ServedType
<1>3. /\ me \in {q.method : q \in Requests} /\ pa \in {q.path : q \in Requests}
      /\ bo \in {q.body : q \in Requests} /\ se \in {q.sent : q \in Requests}
      /\ xf \in Ips \cup {None} /\ to \in {q.tok : q \in Requests}
  BY <1>2, ServedType
<1>4. m \in Taken
  BY <1>1, <1>2, <1>3 DEF Taken, Bodies
<1>5. Empty \in Bodies /\ None \in Tokens
  BY DEF Bodies, Tokens
<1>6. PICK junk : junk = [m EXCEPT !.req.method = "?"]
  OBVIOUS
<1>7. junk \in Taken
  BY <1>4, <1>6 DEF Taken
<1>8. PICK lost : lost = [junk EXCEPT !.req.path = "?"]
  OBVIOUS
<1>9. lost \in Taken
  BY <1>7, <1>8 DEF Taken
<1>10. [lost EXCEPT !.tok = None, !.req.xff = None, !.req.body = Empty] \in Taken
  <2>1. [lost EXCEPT !.tok = None] \in Taken
    BY <1>5, <1>9 DEF Taken
  <2>2. [lost EXCEPT !.tok = None, !.req.xff = None] \in Taken
    BY <2>1 DEF Taken
  <2> QED BY <1>5, <2>2 DEF Taken
<1> QED BY <1>4, <1>6, <1>7, <1>8, <1>9, <1>10, Zenon DEF Garbled

LEMMA BodyTaken ==
  ASSUME NEW m \in Taken, NEW p \in Sent
  PROVE  WithBody(m, p) \in Taken
<1>1. p.of.req.body \in Bodies
  BY DEF Sent, Messages, Bodies
<1> QED BY <1>1 DEF WithBody, Taken

\* What is parsed is taken, as far as it goes.
LEMMA ParsedTaken ==
  ASSUME NEW c \in Conns, NEW m \in Taken, NEW rest \in Seq(Sent)
  PROVE  AskedOf(Parsed(c, m, rest))
<1>1. \A x : /\ Dispatching(c, x).st = "dispatch" /\ AwaitingBody(c, x).st = "reading_body"
             /\ Dispatching(c, x).req = x.req /\ Dispatching(c, x).tok = x.tok
             /\ AwaitingBody(c, x).msg = x
  BY DEF Dispatching, AwaitingBody
<1>2. \A x \in Taken : x = [req |-> x.req, tok |-> x.tok]
  BY DEF Taken
<1>3. \A x \in Taken : AskedOf(Dispatching(c, x)) /\ AskedOf(AwaitingBody(c, x))
  BY <1>1, <1>2 DEF AskedOf
<1>4. rest # <<>> => WithBody(m, rest[1]) \in Taken
  BY BodyTaken
<1> QED BY <1>3, <1>4 DEF Parsed

\* The pieces of a message.
LEMMA PiecesAre ==
  ASSUME NEW m \in Messages
  PROVE  /\ Pieces(m) \in Seq(Sent)
         /\ Pieces(m)[1] = Piece("head", m) /\ Pieces(m)[2] = Piece("end", m)
         /\ m.req.body = Empty => Len(Pieces(m)) = 2
         /\ m.req.body # Empty => Len(Pieces(m)) = 3 /\ Pieces(m)[3] = Piece("body", m)
<1>1. /\ Piece("head", m) \in Sent /\ Piece("end", m) \in Sent /\ Piece("body", m) \in Sent
  BY DEF Piece, Sent
<1> QED BY <1>1 DEF Pieces

LEMMA SendIs ==
  ASSUME NEW c \in Conns, Send(c)
  PROVE  \E m \in Messages :
           /\ wire' = [wire EXCEPT ![c] = @ \o Pieces(m)]
           /\ asked' = IF c \in Pipelined THEN asked ELSE [asked EXCEPT ![c] = {m}]
<1>1. PICK r \in Traffic[c] : \E tok \in {r.tok} \cup minted :
        LET m == [req |-> r, tok |-> tok]
        IN  /\ wire' = [wire EXCEPT ![c] = @ \o Pieces(m)]
            /\ asked' = IF c \in Pipelined THEN asked ELSE [asked EXCEPT ![c] = {m}]
  BY DEF Send
<1>2. r \in Requests
  BY ServedType
<1>3. \A tok \in {r.tok} \cup minted : [req |-> r, tok |-> tok] \in Messages
  BY <1>2 DEF Messages, Tokens
<1> QED BY <1>1, <1>3, Zenon

\* Reading keeps what threads were asked, and the rest of the wire.
LEMMA HeadersKeep ==
  ASSUME Asked, NEW c \in Conns, ReadHeaders(c)
  PROVE  Turn(c) /\ AskedOf(conn'[c]) /\ wire' \in [Conns -> Seq(Sent)]
<1>1. conn[c].st = "reading" /\ conn[c].buf \in Seq(Sent) /\ wire[c] \in Seq(Sent)
  BY DEF ReadHeaders, Asked, AskedOf
<1>2. PICK n \in 1 .. Len(wire[c]) :
        LET buf  == conn[c].buf \o SubSeq(wire[c], 1, n)
            ends == {k \in DOMAIN buf : buf[k].part = "end"}
        IN  /\ wire' = [wire EXCEPT ![c] = SubSeq(@, n + 1, Len(@))]
            /\ \/ /\ ends = {}
                  /\ Step(c, "reading", Reading(conn[c].idx, buf))
               \/ \E k \in ends :
                    /\ \A j \in ends : k <= j
                    /\ \E m \in Heads(buf, k) :
                         Step(c, "reading", Parsed(c, m, SubSeq(buf, k + 1, Len(buf))))
  BY DEF ReadHeaders
<1> DEFINE buf == conn[c].buf \o SubSeq(wire[c], 1, n)
<1>3. buf \in Seq(Sent) /\ SubSeq(wire[c], n + 1, Len(wire[c])) \in Seq(Sent)
  BY <1>1
<1>4. wire' \in [Conns -> Seq(Sent)]
  BY <1>2, <1>3 DEF Asked
<1>5. CASE Step(c, "reading", Reading(conn[c].idx, buf))
  <2> HIDE DEF buf
  <2>1. Turn(c) /\ conn'[c] = Reading(conn[c].idx, buf)
    BY <1>5, StepIs DEF Asked
  <2>2. AskedOf(conn'[c])
    BY <1>3, <2>1 DEF Reading, AskedOf
  <2> QED BY <1>4, <2>1, <2>2
<1>6. ASSUME NEW k \in DOMAIN buf, NEW m \in Heads(buf, k),
             Step(c, "reading", Parsed(c, m, SubSeq(buf, k + 1, Len(buf))))
      PROVE  Turn(c) /\ AskedOf(conn'[c])
  <2> HIDE DEF buf
  <2>1. buf[k].of \in Messages
    <3>1. buf[k] \in Sent
      BY <1>3, <1>6, ElementOfSeq
    <3> QED BY <3>1 DEF Sent
  <2>2. m \in Taken
    BY <2>1, MessageTaken DEF Heads
  <2>3. SubSeq(buf, k + 1, Len(buf)) \in Seq(Sent)
    BY <1>3
  <2>4. AskedOf(Parsed(c, m, SubSeq(buf, k + 1, Len(buf))))
    BY <2>2, <2>3, ParsedTaken
  <2>5. Turn(c) /\ conn'[c] = Parsed(c, m, SubSeq(buf, k + 1, Len(buf)))
    BY <1>6, StepIs DEF Asked
  <2> QED BY <2>4, <2>5
<1> QED BY <1>2, <1>4, <1>5, <1>6

LEMMA BodyKeeps ==
  ASSUME Asked, NEW c \in Conns, ReadBody(c)
  PROVE  Turn(c) /\ AskedOf(conn'[c]) /\ wire' \in [Conns -> Seq(Sent)]
<1>1. /\ conn[c].msg \in Taken /\ wire[c] \in Seq(Sent) /\ wire[c] # <<>>
  BY DEF ReadBody, Asked, AskedOf
<1>2. Head(wire[c]) \in Sent /\ Tail(wire[c]) \in Seq(Sent)
  BY <1>1
<1>3. conn'[c] = Dispatching(c, WithBody(conn[c].msg, Head(wire[c]))) /\ Turn(c)
  BY StepIs DEF ReadBody, Asked
<1>4. WithBody(conn[c].msg, Head(wire[c])) \in Taken
  BY <1>1, <1>2, BodyTaken
<1>5. AskedOf(conn'[c])
  <2>1. PICK m \in Taken : conn'[c] = Dispatching(c, m)
    BY <1>3, <1>4
  <2>2. m = [req |-> m.req, tok |-> m.tok]
    BY DEF Taken
  <2> QED BY <2>1, <2>2 DEF Dispatching, AskedOf
<1>6. wire' = [wire EXCEPT ![c] = Tail(@)]
  BY DEF ReadBody
<1> QED BY <1>2, <1>3, <1>5, <1>6 DEF Asked

\* The wire is written by clients, read, and cut off.
LEMMA WireOf ==
  ASSUME NEW c \in Conns, Acts(c)
  PROVE  \/ Send(c) \/ Reads(c)
         \/ \E from : Close(c, from)
         \/ Write(c) /\ WantsKeepAlive(c) /\ UNCHANGED wire /\ asked' = [asked EXCEPT ![c] = {}]
         \/ UNCHANGED <<wire, asked>>
<1>1. CASE Accept(c) \/ Refuse(c) \/ ReadTooLarge(c) \/ BuiltIns(c)
  BY <1>1 DEF Accept, Refuse, ReadTooLarge, BuiltIns, Probe, DemoLogin, Whoami, line
<1>2. CASE CallRoute(c) \/ AcquireGated(c) \/ Replies(c)
  BY <1>2, ZenonT(60) DEF CallRoute, Replies, Echo, OpenSession, IssueRefresh, Exchange,
                          AcquireGated, CallGated, line
<1>3. CASE ReadEnds(c) \/ Write(c)
  BY <1>3 DEF ReadEnds, Write
<1> QED BY <1>1, <1>2, <1>3, ActsAre

LEMMA AskedFirst == ASSUME Init PROVE Asked
<1>1. /\ conn = [c \in Conns |-> NoThread("none")] /\ NoThread("none").st = "none"
      /\ wire = [c \in Conns |-> <<>>]
  BY DEF Init, NoThread
<1> QED BY <1>1 DEF Asked, AskedOf

\* Every step keeps what threads were asked.
LEMMA AskedStep == ASSUME Asked, [Next]_vars PROVE Asked'
<1>1. \A k : AskedOf(k) => AskedOf(k)'
  BY SentGrows
<1>2. ASSUME NEW s \in [Conns -> Seq(Sent)] PROVE s \in [Conns -> Seq(Sent')]
  BY <1>2, SentGrows, SeqGrows
<1>3. wire' \in [Conns -> Seq(Sent')]
  <2>1. ASSUME NEW c \in Conns, Send(c) PROVE wire' \in [Conns -> Seq(Sent)]
    <3>1. PICK m \in Messages : wire' = [wire EXCEPT ![c] = @ \o Pieces(m)]
      BY <2>1, SendIs
    <3>2. Pieces(m) \in Seq(Sent)
      BY PiecesAre
    <3> QED BY <3>1, <3>2 DEF Asked
  <2>2. ASSUME NEW c \in Conns, Reads(c) PROVE wire' \in [Conns -> Seq(Sent)]
    BY <2>2, HeadersKeep, BodyKeeps DEF Reads
  <2>3. ASSUME NEW c \in Conns, NEW from, Close(c, from) PROVE wire' \in [Conns -> Seq(Sent)]
    <3>1. wire' = [wire EXCEPT ![c] = <<>>]
      BY <2>3 DEF Close
    <3> QED BY <3>1 DEF Asked
  <2>4. CASE wire' = wire
    BY <2>4, <1>2 DEF Asked
  <2> QED BY <1>2, <2>1, <2>2, <2>3, <2>4, Moves, WireOf
<1>4. ASSUME NEW c \in Conns, Turn(c), AskedOf(conn'[c])
      PROVE  Asked'
  <2>1. \A d \in Conns : AskedOf(conn'[d])
    BY <1>4 DEF Asked, Turn
  <2> QED BY <1>1, <1>3, <1>4, <2>1 DEF Asked, Turn, AskedOf
<1>5. CASE conn' = conn
  BY <1>1, <1>3, <1>5 DEF Asked, AskedOf
<1>6. ASSUME NEW k, k.st \notin {"reading", "reading_body", "dispatch"}
      PROVE  AskedOf(k)
  BY <1>6 DEF AskedOf
<1>7. ASSUME NEW c \in Conns, CallRoute(c)
      PROVE  conn'[c].st \in {"answer", "body"}
  <2>1. CASE conn'[c] = Wrapper(c, ResolveIdentity(conn[c].tok).out)
    BY <2>1, WrapperIs DEF Running
  <2> QED BY <1>7, <2>1, RouteStates DEF Asked
<1>8. ASSUME NEW c \in Conns, AcquireGated(c)
      PROVE  conn'[c].st \in {"answer", "gated"}
  <2>1. /\ \A fn, id, at, args : Running(c, "gated", fn, id, at, args).st = "gated"
        /\ \A v : Returns(c, v).st = "answer"
    BY DEF Running, Returns, Response
  <2>2. \/ \E fn, id, at, args : Step(c, "body", Running(c, "gated", fn, id, at, args))
        \/ \E v : Step(c, "body", Returns(c, v))
    BY <1>8, Zenon DEF AcquireGated
  <2> QED BY <2>1, <2>2, StepIs DEF Asked
<1>9. ASSUME NEW c \in Conns, Rests(conn'[c])
      PROVE  AskedOf(conn'[c])
  <2>1. \A S : <<>> \in Seq(S)
    OBVIOUS
  <2> QED BY <1>9, <2>1 DEF Rests, Quiet, AskedOf
<1>10. ASSUME NEW c \in Conns, Reads(c)
       PROVE  AskedOf(conn'[c])
  BY <1>10, HeadersKeep, BodyKeeps DEF Reads
<1>11. ASSUME NEW c \in Conns, CallRoute(c) \/ AcquireGated(c)
       PROVE  AskedOf(conn'[c])
  BY <1>6, <1>7, <1>8, <1>11
<1> QED BY <1>4, <1>5, <1>9, <1>10, <1>11, ConnCases DEF Asked

-----------------------------------------------------------------------------
(* The limiter. An address that was never forgotten is in its first window *)
(* or in one that began when the one before it was over. Windows let       *)
(* RateMax requests through each, so what is RateMax requests older than   *)
(* the last window is older than it by more than a window.                 *)

InWindow(g, w) ==
  /\ w.count <= Len(g)
  /\ \A i \in 1 .. Len(g) : g[i] < w.start + Window
  /\ \A i \in 1 .. Len(g) - w.count : g[i] < w.start
  /\ \A i \in 1 .. Len(g) - w.count - RateMax : g[i] + Window < w.start

LimitInv ==
  /\ clock \in Nat
  /\ granted \in [Ips -> Seq(Nat)]
  /\ DOMAIN windows \subseteq Ips
  /\ \A ip \in DOMAIN windows : /\ windows[ip].start \in Nat /\ windows[ip].start <= clock
                                /\ windows[ip].count \in 1 .. RateMax
  /\ \A ip \in Ips \ evicted : ip \notin DOMAIN windows => granted[ip] = <<>>
  /\ \A ip \in DOMAIN windows \ evicted : InWindow(granted[ip], windows[ip])
  /\ LimitHolds

\* The address a request is counted under.
LEMMA ClientIpIs ==
  ASSUME Asked, NEW c \in Conns, conn[c].st = "dispatch"
  PROVE  ClientIpForRateLimit(c) \in Ips
<1>1. conn[c].req.xff \in Ips \cup {None}
  BY DEF Asked, AskedOf, Taken
<1> QED BY <1>1, ServedType DEF ClientIpForRateLimit

\* Making room forgets the windows it drops, and no other.
LEMMA RoomIs ==
  ASSUME NEW ip
  PROVE  /\ DOMAIN MakeRoom(ip) \subseteq DOMAIN windows
         /\ \A i \in DOMAIN MakeRoom(ip) : MakeRoom(ip)[i] = windows[i]
         /\ ip \in DOMAIN MakeRoom(ip) <=> ip \in DOMAIN windows
<1>1. CASE ip \notin Tracked(windows) /\ Cardinality(Tracked(windows)) >= MaxTracked
  <2>1. MakeRoom(ip) = [i \in Tracked(windows) \ {Oldest(windows)} |-> windows[i]]
    BY <1>1 DEF MakeRoom
  <2> QED BY <1>1, <2>1 DEF Tracked
<1>2. CASE ~(ip \notin Tracked(windows) /\ Cardinality(Tracked(windows)) >= MaxTracked)
  BY <1>2 DEF MakeRoom
<1> QED BY <1>1, <1>2

\* One more request in the current window, while it has room.
LEMMA SameWindow ==
  ASSUME NEW g \in Seq(Nat), NEW s \in Nat, NEW n \in Nat, NEW t \in Nat,
         InWindow(g, [start |-> s, count |-> n]), n < RateMax, s <= t, t < s + Window
  PROVE  /\ InWindow(Append(g, t), [start |-> s, count |-> n + 1])
         /\ \A i \in 1 .. Len(g) + 1 - 2 * RateMax : t - g[i] > Window
<1> DEFINE h == Append(g, t)
<1>1. /\ h \in Seq(Nat) /\ Len(h) = Len(g) + 1 /\ Len(g) \in Nat /\ h[Len(g) + 1] = t
      /\ \A i \in 1 .. Len(g) : h[i] = g[i] /\ g[i] \in Nat
  BY AppendProperties, ElementOfSeq, LenProperties
<1>2. PICK L \in Nat, R \in Nat \ {0}, W \in Nat \ {0} :
        L = Len(g) /\ R = RateMax /\ W = Window
  BY <1>1, ServedType
<1>3. /\ n <= Len(g)
      /\ \A i \in 1 .. Len(g) : g[i] < s + Window
      /\ \A i \in 1 .. Len(g) - n : g[i] < s
      /\ \A i \in 1 .. Len(g) - n - RateMax : g[i] + Window < s
  BY DEF InWindow
<1> HIDE DEF h
<1>a. /\ Len(h) = L + 1 /\ h[L + 1] = t /\ \A i \in 1 .. L : h[i] = g[i] /\ g[i] \in Nat
      /\ n < R /\ t < s + W /\ n <= L
      /\ \A i \in 1 .. L : g[i] < s + W
      /\ \A i \in 1 .. L - n : g[i] < s
      /\ \A i \in 1 .. L - n - R : g[i] + W < s
  BY <1>1, <1>2, <1>3
<1>4. ASSUME NEW i \in 1 .. L + 1 PROVE h[i] < s + W
  <2>1. i = L + 1 \/ i \in 1 .. L
    OBVIOUS
  <2> QED BY <2>1, <1>a
<1>5. ASSUME NEW i \in 1 .. L + 1 - (n + 1) PROVE h[i] < s
  <2>1. i \in 1 .. L - n /\ i \in 1 .. L
    OBVIOUS
  <2> QED BY <2>1, <1>a
<1>6. ASSUME NEW i \in 1 .. L + 1 - (n + 1) - R PROVE h[i] + W < s
  <2>1. i \in 1 .. L - n - R /\ i \in 1 .. L
    OBVIOUS
  <2> QED BY <2>1, <1>a
<1>7. ASSUME NEW i \in 1 .. L + 1 - 2 * R PROVE t - g[i] > W
  <2>1. i \in 1 .. L - n - R /\ i \in 1 .. L
    BY <1>a
  <2>2. g[i] \in Nat /\ g[i] + W < s
    BY <2>1, <1>a
  <2> QED BY <2>2
<1>8. n + 1 <= L + 1
  BY <1>a
<1> QED BY <1>1, <1>2, <1>4, <1>5, <1>6, <1>7, <1>8, SMTT(30) DEF InWindow, h

\* The first request of a window, the one before it being over.
LEMMA NextWindow ==
  ASSUME NEW g \in Seq(Nat), NEW s \in Nat, NEW n \in Nat, NEW t \in Nat,
         InWindow(g, [start |-> s, count |-> n]), n <= RateMax, t >= s + Window
  PROVE  /\ InWindow(Append(g, t), [start |-> t, count |-> 1])
         /\ \A i \in 1 .. Len(g) + 1 - 2 * RateMax : t - g[i] > Window
<1> DEFINE h == Append(g, t)
<1>1. /\ h \in Seq(Nat) /\ Len(h) = Len(g) + 1 /\ Len(g) \in Nat /\ h[Len(g) + 1] = t
      /\ \A i \in 1 .. Len(g) : h[i] = g[i] /\ g[i] \in Nat
  BY AppendProperties, ElementOfSeq, LenProperties
<1>2. PICK L \in Nat, R \in Nat \ {0}, W \in Nat \ {0} :
        L = Len(g) /\ R = RateMax /\ W = Window
  BY <1>1, ServedType
<1>3. /\ n <= Len(g)
      /\ \A i \in 1 .. Len(g) : g[i] < s + Window
      /\ \A i \in 1 .. Len(g) - n : g[i] < s
  BY DEF InWindow
<1> HIDE DEF h
<1>a. /\ Len(h) = L + 1 /\ h[L + 1] = t /\ \A i \in 1 .. L : h[i] = g[i] /\ g[i] \in Nat
      /\ n <= R /\ t >= s + W /\ n <= L
      /\ \A i \in 1 .. L : g[i] < s + W
      /\ \A i \in 1 .. L - n : g[i] < s
  BY <1>1, <1>2, <1>3
<1>4. ASSUME NEW i \in 1 .. L + 1 PROVE h[i] < t + W
  <2>1. i = L + 1 \/ i \in 1 .. L
    OBVIOUS
  <2> QED BY <2>1, <1>a
<1>5. ASSUME NEW i \in 1 .. L + 1 - 1 PROVE h[i] < t
  <2>1. i \in 1 .. L
    OBVIOUS
  <2> QED BY <2>1, <1>a, SMTT(30)
<1>6. ASSUME NEW i \in 1 .. L - R PROVE i \in 1 .. L /\ g[i] \in Nat /\ g[i] + W < t
  <2>1. i \in 1 .. L - n /\ i \in 1 .. L
    BY <1>a
  <2> QED BY <2>1, <1>a, SMTT(30)
<1>7. ASSUME NEW i \in 1 .. L + 1 - 1 - R PROVE h[i] + W < t
  <2>1. i \in 1 .. L - R
    OBVIOUS
  <2> QED BY <2>1, <1>6, <1>a
<1>8. ASSUME NEW i \in 1 .. L + 1 - 2 * R PROVE t - g[i] > W
  <2>1. i \in 1 .. L - R
    OBVIOUS
  <2> QED BY <2>1, <1>6
<1>9. 1 <= L + 1
  OBVIOUS
<1> QED BY <1>1, <1>2, <1>4, <1>5, <1>7, <1>8, <1>9, SMTT(30) DEF InWindow, h

\* The first request of an address.
LEMMA FirstWindow ==
  ASSUME NEW t \in Nat
  PROVE  InWindow(Append(<<>>, t), [start |-> t, count |-> 1])
<1>1. Append(<<>>, t) = <<t>>
  OBVIOUS
<1>2. Len(<<t>>) = 1 /\ <<t>>[1] = t
  OBVIOUS
<1> HIDE DEF InWindow
<1>3. RateMax \in Nat \ {0} /\ Window \in Nat \ {0}
  BY ServedType
<1> QED BY <1>1, <1>2, <1>3 DEF InWindow

\* What any stretch of requests lets through, for one address.
Spread(g) == \A i \in 1 .. Len(g) - 2 * RateMax : g[i + 2 * RateMax] - g[i] > Window

\* A new request far enough from the one 2 * RateMax before it keeps the spread.
LEMMA SpreadMore ==
  ASSUME NEW g \in Seq(Nat), NEW t \in Nat, Spread(g),
         \A i \in 1 .. Len(g) + 1 - 2 * RateMax : t - g[i] > Window
  PROVE  Spread(Append(g, t))
<1> DEFINE h == Append(g, t)
<1>1. /\ h \in Seq(Nat) /\ Len(h) = Len(g) + 1 /\ Len(g) \in Nat /\ h[Len(g) + 1] = t
      /\ \A i \in 1 .. Len(g) : h[i] = g[i] /\ g[i] \in Nat
  BY AppendProperties, ElementOfSeq, LenProperties
<1>2. PICK L \in Nat, R \in Nat \ {0}, W \in Nat \ {0} :
        L = Len(g) /\ R = RateMax /\ W = Window
  BY <1>1, ServedType
<1> HIDE DEF h
<1>3. /\ Len(h) = L + 1 /\ h[L + 1] = t /\ \A i \in 1 .. L : h[i] = g[i]
      /\ \A i \in 1 .. L - 2 * R : g[i + 2 * R] - g[i] > W
      /\ \A i \in 1 .. L + 1 - 2 * R : t - g[i] > W
  BY <1>1, <1>2 DEF Spread
<1>4. ASSUME NEW i \in 1 .. L + 1 - 2 * R PROVE h[i + 2 * R] - h[i] > W
  <2>1. i \in 1 .. L
    OBVIOUS
  <2>2. CASE i + 2 * R = L + 1
    BY <2>1, <2>2, <1>3
  <2>3. CASE i + 2 * R # L + 1
    <3>1. i \in 1 .. L - 2 * R /\ i + 2 * R \in 1 .. L
      BY <2>3
    <3> QED BY <2>1, <3>1, <1>3
  <2> QED BY <2>2, <2>3
<1>5. ASSUME NEW i \in 1 .. Len(h) - 2 * RateMax PROVE h[i + 2 * RateMax] - h[i] > Window
  BY <1>2, <1>3, <1>4
<1>6. Spread(h)
  BY <1>5 DEF Spread
<1> QED BY <1>6 DEF h

\* One check under the limiter's lock, for the address it counts.
LEMMA CountedIs ==
  ASSUME LimitInv, NEW ip \in Ips
  PROVE  LET e == Entry(ip)
             ok == e.count < RateMax
             w == [start |-> e.start, count |-> IF ok THEN e.count + 1 ELSE e.count]
             g == IF ok THEN Append(granted[ip], clock) ELSE granted[ip]
         IN  /\ w.start \in Nat /\ w.start <= clock /\ w.count \in 1 .. RateMax
             /\ g \in Seq(Nat)
             /\ ip \notin evicted => InWindow(g, w) /\ Spread(g)
<1> DEFINE e == Entry(ip)
           ok == e.count < RateMax
           w == [start |-> e.start, count |-> IF ok THEN e.count + 1 ELSE e.count]
           g == IF ok THEN Append(granted[ip], clock) ELSE granted[ip]
           new == [start |-> clock, count |-> 0]
<1> SUFFICES /\ w.start \in Nat /\ w.start <= clock /\ w.count \in 1 .. RateMax
             /\ g \in Seq(Nat)
             /\ ip \notin evicted => InWindow(g, w) /\ Spread(g)
  OBVIOUS
<1>0. /\ RateMax \in Nat \ {0} /\ Window \in Nat \ {0} /\ clock \in Nat
      /\ granted[ip] \in Seq(Nat) /\ Append(granted[ip], clock) \in Seq(Nat)
  BY ServedType, AppendProperties DEF LimitInv
<1>1. ip \notin evicted => Spread(granted[ip])
  BY DEF LimitInv, LimitHolds, Spread
<1>2. e = IF ip \in DOMAIN windows /\ clock - windows[ip].start < Window THEN windows[ip] ELSE new
  BY RoomIs DEF Entry, Tracked
<1>3. CASE ip \in DOMAIN windows /\ clock - windows[ip].start < Window
  <2>1. PICK s \in Nat, n \in 1 .. RateMax :
          s = windows[ip].start /\ n = windows[ip].count /\ s <= clock
    BY <1>3 DEF LimitInv
  <2>2. e.start = s /\ e.count = n /\ clock < s + Window
    BY <1>0, <1>2, <1>3, <2>1
  <2>3. ip \notin evicted => InWindow(granted[ip], [start |-> s, count |-> n])
    BY <1>3, <2>1 DEF LimitInv, InWindow
  <2> HIDE DEF e
  <2>4. CASE ok
    <3>1. w = [start |-> s, count |-> n + 1] /\ g = Append(granted[ip], clock) /\ n < RateMax
      BY <2>2, <2>4
    <3>2. w.start \in Nat /\ w.start <= clock /\ w.count \in 1 .. RateMax
      BY <1>0, <2>1, <3>1, SMTT(30)
    <3>3. ASSUME ip \notin evicted PROVE InWindow(g, w) /\ Spread(g)
      <4> HIDE DEF g, w
      <4>1. n \in Nat
        OBVIOUS
      <4>2. /\ InWindow(Append(granted[ip], clock), [start |-> s, count |-> n + 1])
            /\ \A i \in 1 .. Len(granted[ip]) + 1 - 2 * RateMax : clock - granted[ip][i] > Window
        BY <1>0, <2>1, <2>2, <2>3, <3>1, <3>3, <4>1, SameWindow
      <4> QED BY <1>0, <1>1, <3>1, <3>3, <4>2, SpreadMore
    <3> HIDE DEF g, w
    <3> QED BY <1>0, <3>1, <3>2, <3>3
  <2>5. CASE ~ok
    <3>1. w.start = s /\ w.count = n /\ g = granted[ip] /\ w = [start |-> s, count |-> n]
      BY <2>2, <2>5
    <3>2. w.start \in Nat /\ w.start <= clock /\ w.count \in 1 .. RateMax
      BY <2>1, <3>1
    <3> HIDE DEF g, w
    <3> QED BY <1>0, <1>1, <2>3, <3>1, <3>2
  <2> QED BY <2>4, <2>5
<1>4. CASE ~(ip \in DOMAIN windows /\ clock - windows[ip].start < Window)
  <2>1. e.start = clock /\ e.count = 0
    BY <1>2, <1>4
  <2> HIDE DEF e
  <2>2. w = [start |-> clock, count |-> 1] /\ g = Append(granted[ip], clock)
    BY <1>0, <2>1
  <2>3. w.start \in Nat /\ w.start <= clock /\ w.count \in 1 .. RateMax
    BY <1>0, <2>2
  <2> HIDE DEF g, w
  <2>4. ASSUME ip \notin evicted, ip \in DOMAIN windows
        PROVE  InWindow(g, w) /\ Spread(g)
    <3>1. PICK s \in Nat, n \in 1 .. RateMax :
            s = windows[ip].start /\ n = windows[ip].count /\ s <= clock
      BY <2>4 DEF LimitInv
    <3>2. InWindow(granted[ip], [start |-> s, count |-> n])
      BY <2>4, <3>1 DEF LimitInv, InWindow
    <3>3. clock >= s + Window /\ n \in Nat /\ n <= RateMax
      BY <1>0, <1>4, <2>4, <3>1
    <3>4. /\ InWindow(Append(granted[ip], clock), [start |-> clock, count |-> 1])
          /\ \A i \in 1 .. Len(granted[ip]) + 1 - 2 * RateMax : clock - granted[ip][i] > Window
      BY <1>0, <3>2, <3>3, NextWindow
    <3> QED BY <1>0, <1>1, <2>2, <2>4, <3>4, SpreadMore
  <2>5. ASSUME ip \notin evicted, ip \notin DOMAIN windows
        PROVE  InWindow(g, w) /\ Spread(g)
    <3>1. granted[ip] = <<>>
      BY <2>5 DEF LimitInv
    <3>2. InWindow(g, w)
      BY <1>0, <2>2, <3>1, FirstWindow
    <3>3. Len(granted[ip]) + 1 - 2 * RateMax < 1
      BY <1>0, <3>1
    <3>4. \A i \in 1 .. Len(granted[ip]) + 1 - 2 * RateMax : clock - granted[ip][i] > Window
      BY <1>0, <3>1, <3>3
    <3> QED BY <1>0, <1>1, <2>2, <2>5, <3>2, <3>4, SpreadMore
  <2> QED BY <1>0, <2>2, <2>3, <2>4, <2>5
<1> QED BY <1>3, <1>4

\* A check counts one address, may forget another, and leaves the rest alone.
LEMMA CheckKeeps ==
  ASSUME LimitInv, Asked, NEW c \in Conns, conn[c].st = "dispatch", LimiterCheck(c), clock' = clock
  PROVE  LimitInv'
<1> DEFINE ip == ClientIpForRateLimit(c)
           e == Entry(ip)
           ok == e.count < RateMax
           w == [start |-> e.start, count |-> IF ok THEN e.count + 1 ELSE e.count]
           g == IF ok THEN Append(granted[ip], clock) ELSE granted[ip]
           room == MakeRoom(ip)
<1>1. ip \in Ips
  BY ClientIpIs
<1>2. /\ w.start \in Nat /\ w.start <= clock /\ w.count \in 1 .. RateMax
      /\ g \in Seq(Nat)
      /\ ip \notin evicted => InWindow(g, w) /\ Spread(g)
  <2> HIDE DEF ip
  <2> QED BY <1>1, CountedIs
<1>3. /\ windows' = [i \in {ip} \cup DOMAIN room |-> IF i = ip THEN w ELSE room[i]]
      /\ granted' = IF ok THEN [granted EXCEPT ![ip] = Append(@, clock)] ELSE granted
      /\ evicted' = evicted \cup (DOMAIN windows \ DOMAIN room)
  BY DEF LimiterCheck, Tracked
<1>4. /\ DOMAIN room \subseteq DOMAIN windows
      /\ \A i \in DOMAIN room : room[i] = windows[i]
      /\ ip \in DOMAIN room <=> ip \in DOMAIN windows
  <2> HIDE DEF ip
  <2> QED BY RoomIs
<1>5. granted' = [granted EXCEPT ![ip] = g]
  <2>1. granted \in [Ips -> Seq(Nat)]
    BY DEF LimitInv
  <2> HIDE DEF ip, e
  <2> QED BY <1>1, <1>3, <2>1
<1> HIDE DEF ip, e, ok, w, g, room
<1>6. /\ DOMAIN windows' = {ip} \cup DOMAIN room /\ windows'[ip] = w
      /\ \A i \in DOMAIN room : i # ip => windows'[i] = windows[i]
  BY <1>3, <1>4
<1>7. /\ granted' \in [Ips -> Seq(Nat)] /\ granted'[ip] = g
      /\ \A i \in Ips : i # ip => granted'[i] = granted[i]
  BY <1>1, <1>2, <1>5 DEF LimitInv
<1>8. clock' \in Nat /\ DOMAIN windows' \subseteq Ips
  BY <1>1, <1>4, <1>6 DEF LimitInv
<1>9. ASSUME NEW i \in DOMAIN windows'
      PROVE  /\ windows'[i].start \in Nat /\ windows'[i].start <= clock'
             /\ windows'[i].count \in 1 .. RateMax
  <2>1. CASE i = ip
    BY <2>1, <1>2, <1>6
  <2>2. CASE i # ip
    BY <2>2, <1>4, <1>6 DEF LimitInv
  <2> QED BY <2>1, <2>2
<1>10. ASSUME NEW i \in Ips \ evicted', i \notin DOMAIN windows'
       PROVE  granted'[i] = <<>>
  <2>1. i # ip /\ i \notin DOMAIN room /\ i \notin evicted /\ i \notin DOMAIN windows
    BY <1>3, <1>6, <1>10
  <2> QED BY <2>1, <1>7 DEF LimitInv
<1>11. ASSUME NEW i \in DOMAIN windows' \ evicted'
       PROVE  InWindow(granted'[i], windows'[i])
  <2>1. i \notin evicted
    BY <1>3
  <2>2. CASE i = ip
    BY <2>1, <2>2, <1>2, <1>6, <1>7
  <2>3. CASE i # ip
    <3>1. i \in DOMAIN windows \ evicted /\ windows'[i] = windows[i] /\ i \in Ips
      BY <2>1, <2>3, <1>4, <1>6, <1>8
    <3> QED BY <3>1, <2>3, <1>7 DEF LimitInv
  <2> QED BY <2>2, <2>3
<1>12. ASSUME NEW i \in Ips \ evicted' PROVE Spread(granted'[i])
  <2>1. i \notin evicted
    BY <1>3
  <2>2. CASE i = ip
    BY <2>1, <2>2, <1>2, <1>7
  <2>3. CASE i # ip
    <3>1. Spread(granted[i])
      BY <2>1 DEF LimitInv, LimitHolds, Spread
    <3> QED BY <3>1, <2>3, <1>7
  <2> QED BY <2>2, <2>3
<1>13. LimitHolds'
  BY <1>12 DEF LimitHolds, Spread
<1> QED BY <1>7, <1>8, <1>9, <1>10, <1>11, <1>13 DEF LimitInv

\* Every step keeps the account of the windows.
LEMMA LimitStep == ASSUME LimitInv, Asked, [Next]_vars PROVE LimitInv'
<1>1. ASSUME UNCHANGED limiter, clock' = clock \/ Tick
      PROVE  LimitInv'
  <2>1. UNCHANGED <<windows, granted, evicted>> /\ clock' \in Nat /\ clock <= clock'
    BY <1>1 DEF limiter, Tick, LimitInv
  <2>2. LimitHolds'
    BY <2>1 DEF LimitInv, LimitHolds
  <2>3. \A i \in DOMAIN windows : windows[i].start <= clock'
    BY <2>1 DEF LimitInv
  <2>4. \A i \in DOMAIN windows' \ evicted' : InWindow(granted'[i], windows'[i])
    BY <2>1 DEF LimitInv
  <2> QED BY <2>1, <2>2, <2>3, <2>4 DEF LimitInv
<1>2. ASSUME NEW c \in Conns, DemoLogin(c) \/ OpenSession(c) \/ IssueRefresh(c) \/ Exchange(c)
      PROVE  UNCHANGED limiter /\ clock' = clock
  BY <1>2 DEF DemoLogin, OpenSession, IssueRefresh, Exchange
<1>3. ASSUME NEW c \in Conns, CallRoute(c)
      PROVE  LimitInv'
  <2>1. /\ clock' = clock /\ conn[c].st = "dispatch"
        /\ IF conn[c].req.path \in RateLimited THEN LimiterCheck(c) ELSE UNCHANGED limiter
    BY <1>3 DEF CallRoute, Step
  <2> QED BY <2>1, <1>1, CheckKeeps
<1>4. /\ Tick => UNCHANGED limiter
      /\ Elsewhere => UNCHANGED limiter /\ clock' = clock
  BY DEF Elsewhere, Tick
<1> QED BY <1>1, <1>2, <1>3, <1>4, SharedCases

\* No address gets more than two windows' worth through in a window's time,
\* unless the table forgot it.
THEOREM LimitKept == Spec => []LimitHolds
<1>1. Init => LimitInv /\ Asked
  <2> SUFFICES ASSUME Init PROVE LimitInv /\ Asked
    OBVIOUS
  <2>1. /\ clock = 0 /\ windows = <<>> /\ evicted = {} /\ granted = [i \in Ips |-> <<>>]
    BY DEF Init
  <2>3. Asked
    BY AskedFirst
  <2>4. DOMAIN windows = {} /\ granted \in [Ips -> Seq(Nat)] /\ \A i \in Ips : granted[i] = <<>>
    BY <2>1
  <2>5. LimitHolds
    <3>1. \A i \in Ips : Len(granted[i]) = 0
      BY <2>4
    <3>2. RateMax \in Nat \ {0}
      BY ServedType
    <3>3. ASSUME NEW j \in 1 .. 0 - 2 * RateMax PROVE FALSE
      BY <3>2
    <3> QED BY <3>1, <3>3 DEF LimitHolds
  <2> QED BY <2>1, <2>3, <2>4, <2>5 DEF LimitInv
<1>2. LimitInv /\ Asked /\ [Next]_vars => LimitInv' /\ Asked'
  BY LimitStep, AskedStep
<1>3. LimitInv => LimitHolds
  BY DEF LimitInv
<1> QED BY <1>1, <1>2, <1>3, PTL DEF Spec

-----------------------------------------------------------------------------
(* The gate. Wherever an identity comes from, the token's header, the      *)
(* wrapper's decoder or a session opened earlier, somebody issued a token  *)
(* with its subject and claims.                                            *)

Vouched(id) == \E t \in Genuine : t.sub = id.subject /\ t.claims = id.claims_json

Good(id, at) == Vouched(id) /\ at <= id.expires_at

Object(id) == id.claims_json.j = "obj"

MintedApt == \A t \in minted : t.exp \in Int /\ t.claims.j = "obj"

SessionsApt ==
  /\ \E S : sessions \in Seq(S)
  /\ \A s \in 1 .. Len(sessions) : Vouched(sessions[s].identity) /\ sessions[s].expires_at \in Int

ArgsGood(c) ==
  conn[c].st = "body" =>
    /\ conn[c].fn = conn[c].req.path /\ conn[c].fn \in DOMAIN Routes
    /\ \A i \in DOMAIN conn[c].args : IsIdentity(Routes[conn[c].fn].params[i]) =>
         \A x \in conn[c].args[i] : Good(x, conn[c].at)

\* GateHolds, of one thread.
Passed(c) ==
  conn[c].st \in {"body", "gated"} /\ Routes[conn[c].fn].requires # None =>
    \E id \in conn[c].by :
      /\ Good(id, conn[c].at)
      /\ Entitled(id, Routes[conn[c].fn].requires, conn[c].st = "gated",
                  IF conn[c].st = "gated" THEN Routes[conn[c].req.path].path ELSE <<>>)

GateInv == /\ Asked /\ clock \in Nat /\ MintedApt /\ SessionsApt
           /\ \A c \in Conns : ArgsGood(c) /\ Passed(c)

\* Claims that somebody vouched for are an object.
LEMMA VouchedObject == ASSUME MintedApt, NEW id, Vouched(id) PROVE Object(id)
BY Unforgeable DEF MintedApt, Vouched, Genuine, Object

\* What the kernels read back from an identity's own JSON.
LEMMA IdentityFields ==
  ASSUME NEW id
  PROVE  /\ GetStr(IdentityJson(id), "subject").out.s = id.subject
         /\ GetStr(IdentityJson(id), "claims_json").out = id.claims_json
         /\ GetI64(IdentityJson(id), "expires_at").found =>
              GetI64(IdentityJson(id), "expires_at").out = id.expires_at
<1> DEFINE f == [subject |-> JStr(Words(id.subject)), expires_at |-> JNum(id.expires_at),
                 claims_json |-> JStr(id.claims_json)]
<1>1. IdentityJson(id).j = "obj" /\ IdentityJson(id).flds = f
  BY DEF IdentityJson, JObj, Text
<1>2. /\ "subject" \in DOMAIN f /\ "expires_at" \in DOMAIN f /\ "claims_json" \in DOMAIN f
      /\ f["subject"] = JStr(Words(id.subject)) /\ f["expires_at"] = JNum(id.expires_at)
      /\ f["claims_json"] = JStr(id.claims_json)
  OBVIOUS
<1>3. \A t : JStr(t).j = "str" /\ JStr(t).items[1] = t
  BY DEF JStr, Text
<1>4. \A n : JNum(n).j = "num" /\ JNum(n).n = n
  BY DEF JNum, Text
<1>5. \A s : Words(s).s = s
  BY DEF Words, Text
<1> HIDE DEF f
<1>6. /\ GetStr(IdentityJson(id), "subject") = Found(Words(id.subject))
      /\ GetStr(IdentityJson(id), "claims_json") = Found(id.claims_json)
  BY <1>1, <1>2, <1>3 DEF GetStr, Leaf, Has, IsStr, Content
<1>7. GetI64(IdentityJson(id), "expires_at") \in {Found(id.expires_at), Failed}
  BY <1>1, <1>2, <1>4 DEF GetI64, Leaf, Has, Number
<1>8. \A x : Found(x).out = x
  BY DEF Found
<1>9. Failed.found = FALSE
  BY DEF Failed
<1> QED BY <1>5, <1>6, <1>7, <1>8, <1>9

\* Decoding an identity, when it succeeds, gives the identity.
LEMMA DecodedIdentity ==
  ASSUME NEW id, DecodeIdentityJson(IdentityJson(id)).tag # 1
  PROVE  DecodeIdentityJson(IdentityJson(id)).kids[1] =
           [subject |-> id.subject, expires_at |-> id.expires_at, claims_json |-> id.claims_json]
<1> DEFINE sub == GetStr(IdentityJson(id), "subject")
           exp == GetI64(IdentityJson(id), "expires_at")
           cl  == GetStr(IdentityJson(id), "claims_json")
           new == [subject |-> sub.out.s, expires_at |-> exp.out, claims_json |-> cl.out]
<1>1. DecodeIdentityJson(IdentityJson(id)) =
        IF sub.found /\ exp.found /\ cl.found THEN Ok(new) ELSE Err(Message(Failed.err))
  BY DEF DecodeIdentityJson
<1>2. \A v : Err(v).tag = 1 /\ Ok(v).kids[1] = v
  BY DEF Err, Ok
<1>3. sub.out.s = id.subject /\ cl.out = id.claims_json /\ (exp.found => exp.out = id.expires_at)
  BY IdentityFields
<1> HIDE DEF sub, exp, cl
<1>4. sub.found /\ exp.found /\ cl.found
  BY <1>1, <1>2
<1> QED BY <1>1, <1>2, <1>3, <1>4

\* A token that is let in was issued, and is alive now.
LEMMA ResolvedIs ==
  ASSUME MintedApt, clock \in Nat, NEW tok \in Tokens, ResolveIdentity(tok).found
  PROVE  \A x \in ResolveIdentity(tok).out : Good(x, clock)
<1>0. \A x : Found(x).out = x /\ Found(x).found = TRUE
  BY DEF Found
<1>1. Failed.found = FALSE
  BY DEF Failed
<1>2. CASE tok = None
  BY <1>0, <1>2 DEF ResolveIdentity
<1>3. CASE tok # None
  <2>1. /\ tok.kid # None /\ ValidateToken(tok, clock).found
        /\ ResolveIdentity(tok).out = {ValidateToken(tok, clock).out}
    BY <1>0, <1>1, <1>3 DEF ResolveIdentity
  <2>2. /\ ValidateOidcToken(tok).found /\ ValidateToken(tok, clock).out = ValidateOidcToken(tok).out
        /\ ~(clock > ValidateOidcToken(tok).out.expires_at)
    BY <2>1, <1>1 DEF ValidateToken
  <2>3. ValidateOidcToken(tok).out = Verified(tok)
    BY <2>2, <1>0, <1>1 DEF ValidateOidcToken
  <2>4. tok \in Genuine /\ tok.exp \in Int
    BY <1>3, <2>1, <2>2, Unforgeable DEF Tokens, Genuine, MintedApt
  <2>5. Vouched(Verified(tok)) /\ Verified(tok).expires_at = tok.exp
    BY <2>4 DEF Vouched, Verified
  <2> QED BY <2>1, <2>2, <2>3, <2>4, <2>5 DEF Good
<1> QED BY <1>2, <1>3

\* What a function is given for an identity parameter is the caller's identity.
LEMMA ArgumentGood ==
  ASSUME NEW params, NEW i, NEW id, NEW body, NEW at, IsIdentity(params[i]),
         Argument(params, i, id, body).tag # 1, \A x \in id : Good(x, at)
  PROVE  \A y \in Argument(params, i, id, body).kids[1] : Good(y, at)
<1>0. \A v : Ok(v).kids[1] = v
  BY DEF Ok
<1>1. CASE id = {}
  BY <1>0, <1>1 DEF Argument, OptionIdentity
<1>2. CASE id # {}
  <2> DEFINE x == CHOOSE z \in id : TRUE
             d == DecodeIdentityJson(IdentityJson(x))
  <2>1. Argument(params, i, id, body) = IF d.tag = 1 THEN d ELSE Ok({d.kids[1]})
    BY <1>2 DEF Argument, OptionIdentity
  <2>2. x \in id
    BY <1>2
  <2> HIDE DEF x
  <2>3. d.tag # 1
    BY <2>1
  <2>4. d.kids[1] = [subject |-> x.subject, expires_at |-> x.expires_at, claims_json |-> x.claims_json]
    BY <2>3, DecodedIdentity
  <2> HIDE DEF d
  <2>5. Good(d.kids[1], at)
    BY <2>2, <2>4 DEF Good, Vouched
  <2> QED BY <1>0, <2>1, <2>3, <2>5
<1> QED BY <1>1, <1>2

\* Of an object, check_role reads the list of roles, and nothing else.
LEMMA RoleListed ==
  ASSUME NEW claims, NEW role, claims.j = "obj", CheckRole(claims, role)
  PROVE  LET at == Get(claims, "roles").out
         IN  JStr(Words(role)) \in {at.items[i] : i \in DOMAIN at.items}
<1>1. Entries(claims) = {}
  BY DEF Entries
<1>2. /\ Has(claims, "roles")
      /\ \E i \in DOMAIN claims.flds["roles"].items :
           claims.flds["roles"].items[i] = JStr(Words(role))
  BY <1>1 DEF CheckRole
<1>3. Get(claims, "roles").out = claims.flds["roles"]
  BY <1>2 DEF Get, Found
<1> QED BY <1>2, <1>3

\* A claim that is extracted is a string of the claims.
LEMMA ClaimSaid ==
  ASSUME NEW claims, NEW key, NEW value, ExtractClaim(claims, key).found,
         ExtractClaim(claims, key).out = Words(value)
  PROVE  key \in DOMAIN claims.flds /\ Says(claims.flds[key], value)
<1>1. /\ \A x : Found(x).out = x
      /\ Failed.found = FALSE
  BY DEF Found, Failed
<1>2. ExtractClaim(claims, key) =
        IF Has(claims, key) /\ IsStr(claims.flds[key]) THEN Found(Content(claims.flds[key])) ELSE Failed
  BY DEF ExtractClaim, GetStr, Leaf
<1> QED BY <1>1, <1>2 DEF Has, Says

\* Who satisfies a route's requirement is entitled to it.
LEMMA SatisfiedIsEntitled ==
  ASSUME NEW id, NEW req, Object(id), req.kind \in {"role", "claim"},
         Satisfies(id.claims_json, req)
  PROVE  Entitled(id, req, FALSE, <<>>)
<1> DEFINE cl == id.claims_json.flds
           at == IF <<>> = <<>> THEN Get(id.claims_json, "roles").out
                                ELSE ResolvePath(id.claims_json, <<>>).out
           role == JStr(Words(req.value)) \in {at.items[i] : i \in DOMAIN at.items}
           own  == req.key \in DOMAIN cl /\ Says(cl[req.key], req.value)
           any  == Says(at, req.value) \/ \E k \in DOMAIN cl : Says(cl[k], req.value)
<1>1. Entitled(id, req, FALSE, <<>>) =
        CASE req.kind = "role" -> role
          [] req.kind = "claim" /\ ~FALSE -> own
          [] req.kind = "claim" /\ FALSE -> any
  BY Zenon DEF Entitled
<1>2. at = Get(id.claims_json, "roles").out
  BY Zenon
<1>3. req.kind = "role" => role
  <2> SUFFICES ASSUME req.kind = "role" PROVE role
    OBVIOUS
  <2>1. CheckRole(id.claims_json, req.value)
    BY DEF Satisfies
  <2> HIDE DEF at
  <2> QED BY <2>1, <1>2, RoleListed DEF Object
<1>4. req.kind = "claim" => own
  BY ClaimSaid DEF Satisfies
<1> HIDE DEF role, own, any
<1>5. CASE req.kind = "role"
  BY <1>1, <1>3, <1>5
<1>6. CASE req.kind = "claim"
  BY <1>1, <1>4, <1>6
<1> QED BY <1>5, <1>6

\* Who has a proof that acquire accepts is entitled to what it opens.
LEMMA ProofIsEntitled ==
  ASSUME NEW id, NEW req, NEW path, Object(id), req.kind \in {"role", "claim"},
         ProofOf(id, req, path).found, Acquire(ProofOf(id, req, path).out, req)
  PROVE  Entitled(id, req, TRUE, path)
<1> DEFINE claims == id.claims_json
           cl == claims.flds
           at == IF path = <<>> THEN Get(claims, "roles").out ELSE ResolvePath(claims, path).out
           role == JStr(Words(req.value)) \in {at.items[i] : i \in DOMAIN at.items}
           own  == req.key \in DOMAIN cl /\ Says(cl[req.key], req.value)
           any  == Says(at, req.value) \/ \E k \in DOMAIN cl : Says(cl[k], req.value)
           p == ProofOf(id, req, path)
<1>1. Entitled(id, req, TRUE, path) =
        CASE req.kind = "role" -> role
          [] req.kind = "claim" /\ ~TRUE -> own
          [] req.kind = "claim" /\ TRUE -> any
  BY Zenon DEF Entitled
<1>2. p.found /\ p.out = Words(req.value)
  BY DEF Acquire
<1>3. /\ \A x : Found(x).out = x
      /\ \A ok, x : When(ok, x).found => ok
      /\ Failed.found = FALSE
  BY DEF Found, Failed, When
<1>4. CASE req.kind = "role" /\ path = <<>>
  <2>1. p = When(CheckRole(claims, req.value), Words(req.value))
    BY <1>4 DEF ProofOf
  <2>2. CheckRole(claims, req.value)
    BY <1>2, <1>3, <2>1
  <2>3. at = Get(claims, "roles").out
    BY <1>4
  <2> HIDE DEF at
  <2>4. role
    BY <2>2, <2>3, RoleListed DEF Object
  <2> HIDE DEF role, own, any
  <2> QED BY <1>1, <1>4, <2>4
<1>5. CASE req.kind = "role" /\ path # <<>>
  <2>1. p = When(CheckRolePath(claims, path, req.value), Words(req.value))
    BY <1>5 DEF ProofOf
  <2>2. CheckRolePath(claims, path, req.value)
    BY <1>2, <1>3, <2>1
  <2>3. at = ResolvePath(claims, path).out
    BY <1>5
  <2>4. \E i \in DOMAIN at.items : at.items[i] = JStr(Words(req.value))
    BY <2>2, <2>3 DEF CheckRolePath
  <2> HIDE DEF at
  <2>5. role
    BY <2>4
  <2> HIDE DEF role, own, any
  <2> QED BY <1>1, <1>5, <2>5
<1>6. CASE req.kind = "claim" /\ path = <<>>
  <2>1. p = ExtractClaim(claims, req.key)
    BY <1>6 DEF ProofOf
  <2>2. req.key \in DOMAIN cl /\ Says(cl[req.key], req.value)
    BY <1>2, <2>1, ClaimSaid
  <2>3. any
    BY <2>2
  <2> HIDE DEF role, own, any
  <2> QED BY <1>1, <1>6, <2>3
<1>7. CASE req.kind = "claim" /\ path # <<>>
  <2>1. p = ExtractClaimPath(claims, path)
    BY <1>7 DEF ProofOf
  <2>2. at = ResolvePath(claims, path).out
    BY <1>7
  <2>3. Says(at, req.value)
    BY <1>2, <1>3, <2>1, <2>2 DEF ExtractClaimPath, Says
  <2>4. any
    BY <2>3
  <2> HIDE DEF role, own, any
  <2> QED BY <1>1, <1>7, <2>4
<1> QED BY <1>4, <1>5, <1>6, <1>7

\* An identity without claims has no proof of anything.
LEMMA KeyProvesNothing ==
  ASSUME NEW id, NEW req, NEW path, id.claims_json = JObj(<<>>), req.kind \in {"role", "claim"}
  PROVE  ~ProofOf(id, req, path).found
<1> DEFINE none == JObj(<<>>)
<1>1. none.j = "obj" /\ none.flds = <<>>
  BY DEF JObj, Text
<1>2. \A k : k \notin DOMAIN <<>>
  OBVIOUS
<1> HIDE DEF none
<1>3. \A k : ~Has(none, k)
  BY <1>1, <1>2 DEF Has
<1>4. /\ Failed.found = FALSE
      /\ \A ok, x : When(ok, x).found => ok
  BY DEF Failed, When
<1>5. \A k : Get(none, k) = Failed
  BY <1>3 DEF Get
<1>6. ~CheckRole(none, req.value)
  BY <1>1, <1>3 DEF CheckRole, Entries
<1>7. ~ExtractClaim(none, req.key).found
  BY <1>3, <1>4 DEF ExtractClaim, GetStr, Leaf
<1>8. ResolvePath(none, path) = Failed
  BY <1>4, <1>5, Zenon DEF ResolvePath
<1>9. ~CheckRolePath(none, path, req.value)
  BY <1>4, <1>8 DEF CheckRolePath
<1>10. ~ExtractClaimPath(none, path).found
  BY <1>4, <1>8 DEF ExtractClaimPath
<1>11. id.claims_json = none
  BY DEF none
<1>12. \/ ProofOf(id, req, path) = When(CheckRole(none, req.value), Words(req.value))
       \/ ProofOf(id, req, path) = When(CheckRolePath(none, path, req.value), Words(req.value))
       \/ ProofOf(id, req, path) = ExtractClaim(none, req.key)
       \/ ProofOf(id, req, path) = ExtractClaimPath(none, path)
  <2>1. CASE req.kind = "role" /\ path = <<>>
    BY <1>11, <2>1 DEF ProofOf
  <2>2. CASE req.kind = "role" /\ path # <<>>
    BY <1>11, <2>2 DEF ProofOf
  <2>3. CASE req.kind = "claim" /\ path = <<>>
    BY <1>11, <2>3 DEF ProofOf
  <2>4. CASE req.kind = "claim" /\ path # <<>>
    BY <1>11, <2>4 DEF ProofOf
  <2> QED BY <2>1, <2>2, <2>3, <2>4
<1> QED BY <1>4, <1>6, <1>7, <1>9, <1>10, <1>12

\* A longer type of elements takes in the sequence and one element more.
LEMMA AppendTyped ==
  ASSUME NEW S, NEW s \in Seq(S), NEW x
  PROVE  /\ Append(s, x) \in Seq(S \cup {x}) /\ Len(s) \in Nat
         /\ Len(Append(s, x)) = Len(s) + 1 /\ Append(s, x)[Len(s) + 1] = x
         /\ \A i \in 1 .. Len(s) : Append(s, x)[i] = s[i]
<1>1. s \in Seq(S \cup {x})
  OBVIOUS
<1> QED BY <1>1, AppendProperties

\* A vouched-for identity stays so.
LEMMA VouchedStays ==
  ASSUME [Next]_vars
  PROVE  /\ \A id : Vouched(id) => Vouched(id)'
         /\ \A id, at : Good(id, at) => Good(id, at)'
<1>1. Genuine \subseteq Genuine'
  BY MintedGrows DEF Genuine
<1>2. ASSUME NEW id, Vouched(id) PROVE Vouched(id)'
  BY <1>1, <1>2 DEF Vouched
<1> QED BY <1>2 DEF Good

\* The tokens demo login hands out.
LEMMA MintedAptStep ==
  ASSUME MintedApt, clock \in Nat, [Next]_vars
  PROVE  MintedApt'
<1>1. ASSUME NEW c \in Conns, DemoLogin(c) PROVE MintedApt'
  <2> DEFINE body == IF conn[c].req.body = Empty THEN JObj(<<>>) ELSE conn[c].req.body
             t == IF IsJson(body) THEN MockIssueToken(DemoSubject(body), DemoClaims(body), clock)
                                  ELSE Failed
  <2>1. minted' = IF DemoMode /\ t.found THEN minted \cup {t.out} ELSE minted
    BY <1>1 DEF DemoLogin
  <2>2. ASSUME t.found PROVE t.out.exp \in Int /\ t.out.claims.j = "obj"
    <3>1. Failed.found = FALSE
      BY DEF Failed
    <3>2. t = MockIssueToken(DemoSubject(body), DemoClaims(body), clock)
      BY <2>2, <3>1
    <3> DEFINE m == MockIssueToken(DemoSubject(body), DemoClaims(body), clock)
    <3>3. \E k, iss, aud, sub, f :
            m = Found([kid |-> k, alg |-> "HS256", signer |-> k, iss |-> iss, aud |-> aud,
                       sub |-> sub, exp |-> clock + Ttl, claims |-> JObj(f)])
      BY <2>2, <3>1, <3>2 DEF MockIssueToken
    <3>4. \A f : JObj(f).j = "obj"
      BY DEF JObj, Text
    <3>5. \A x : Found(x).out = x
      BY DEF Found
    <3>6. clock + Ttl \in Int
      BY ServedType
    <3> HIDE DEF m
    <3> QED BY <3>2, <3>3, <3>4, <3>5, <3>6 DEF m
  <2> HIDE DEF t
  <2> QED BY <2>1, <2>2 DEF MintedApt
<1>2. ASSUME NEW c \in Conns, CallRoute(c) \/ OpenSession(c) \/ IssueRefresh(c) \/ Exchange(c)
      PROVE  minted' = minted
  BY <1>2 DEF CallRoute, OpenSession, IssueRefresh, Exchange
<1>3. Tick \/ Elsewhere => minted' = minted
  BY DEF Tick, Elsewhere
<1>4. minted' = minted => MintedApt'
  BY DEF MintedApt
<1> QED BY <1>1, <1>2, <1>3, <1>4, SharedCases

\* The identities that a running function was given.
LEMMA GivenGood ==
  ASSUME GateInv, NEW c \in Conns, conn[c].st = "body", NEW who \in IdentityArg(c)
  PROVE  Good(who.id, who.at)
<1>1. PICK i \in DOMAIN conn[c].args :
        /\ IsIdentity(Routes[conn[c].fn].params[i])
        /\ \E x \in conn[c].args[i] : who = [id |-> x, at |-> conn[c].at]
  BY DEF IdentityArg
<1>2. PICK x \in conn[c].args[i] : who = [id |-> x, at |-> conn[c].at]
  BY <1>1
<1>3. Good(x, conn[c].at)
  BY <1>1 DEF GateInv, ArgsGood
<1> QED BY <1>2, <1>3

\* A session is opened for such an identity.
LEMMA SessionsStep ==
  ASSUME GateInv, [Next]_vars
  PROVE  SessionsApt'
<1>0. SessionsApt
  BY DEF GateInv
<1>1. ASSUME sessions' = sessions PROVE SessionsApt'
  BY <1>0, <1>1, VouchedStays DEF SessionsApt
<1>2. ASSUME NEW c \in Conns, OpenSession(c) PROVE SessionsApt'
  <2>1. conn[c].st = "body"
    BY <1>2 DEF OpenSession, Does
  <2>2. PICK who \in IdentityArg(c) : CreateApplicationSession(who.id)
    BY <1>2 DEF OpenSession
  <2>3. Vouched(who.id)
    BY <2>1, GivenGood DEF Good
  <2>4. PICK S : sessions \in Seq(S)
    BY <1>0 DEF SessionsApt
  <2> DEFINE new == [identity |-> who.id, created_at |-> clock, expires_at |-> clock + Lifetime]
  <2>5. sessions' = Append(sessions, new)
    BY <2>2 DEF CreateApplicationSession
  <2>6. new.identity = who.id /\ new.expires_at \in Int
    BY ServedType DEF GateInv
  <2> HIDE DEF new
  <2>7. /\ sessions' \in Seq(S \cup {new}) /\ Len(sessions) \in Nat
        /\ Len(sessions') = Len(sessions) + 1 /\ sessions'[Len(sessions) + 1] = new
        /\ \A i \in 1 .. Len(sessions) : sessions'[i] = sessions[i]
    BY <2>4, <2>5, AppendTyped
  <2>8. ASSUME NEW s \in 1 .. Len(sessions')
        PROVE  Vouched(sessions[s].identity)' /\ sessions'[s].expires_at \in Int
    <3>1. s \in 1 .. Len(sessions) \/ s = Len(sessions) + 1
      BY <2>7
    <3>2. CASE s = Len(sessions) + 1
      <4>1. sessions'[s].identity = who.id /\ sessions'[s].expires_at \in Int
        BY <2>6, <2>7, <3>2
      <4> QED BY <2>3, <4>1, VouchedStays DEF Vouched
    <3>3. CASE s \in 1 .. Len(sessions)
      <4>1. sessions'[s] = sessions[s] /\ Vouched(sessions[s].identity) /\ sessions[s].expires_at \in Int
        BY <1>0, <2>7, <3>3 DEF SessionsApt
      <4> QED BY <4>1, VouchedStays DEF Vouched
    <3> QED BY <3>1, <3>2, <3>3
  <2> QED BY <2>7, <2>8 DEF SessionsApt
<1>3. ASSUME NEW c \in Conns, DemoLogin(c) \/ CallRoute(c) \/ IssueRefresh(c) \/ Exchange(c)
      PROVE  sessions' = sessions
  BY <1>3 DEF DemoLogin, CallRoute, IssueRefresh, Exchange, tables
<1>4. Tick \/ Elsewhere => sessions' = sessions
  BY DEF Tick, Elsewhere, tables
<1> QED BY <1>1, <1>2, <1>3, <1>4, SharedCases

\* What is known of a thread that does not move stays known.
LEMMA ThreadStays ==
  ASSUME [Next]_vars, NEW c \in Conns, conn'[c] = conn[c], ArgsGood(c), Passed(c)
  PROVE  ArgsGood(c)' /\ Passed(c)'
<1>1. ArgsGood(c)'
  BY VouchedStays DEF ArgsGood, Good, Vouched
<1>2. Passed(c)'
  BY VouchedStays DEF Passed, Good, Vouched
<1> QED BY <1>1, <1>2

\* Nothing is to be known of a thread that runs nothing.
LEMMA ThreadRests ==
  ASSUME NEW c \in Conns, conn'[c].st \notin {"body", "gated"}
  PROVE  ArgsGood(c)' /\ Passed(c)'
BY DEF ArgsGood, Passed

\* Behind a route's wrapper.
LEMMA RouteKeeps ==
  ASSUME GateInv, [Next]_vars, NEW c \in Conns, CallRoute(c)
  PROVE  ArgsGood(c)' /\ Passed(c)'
<1> DEFINE id == ResolveIdentity(conn[c].tok).out
           f == Routes[conn[c].req.path]
           arg(i) == Argument(f.params, i, id, conn[c].req.body)
<1>1. conn[c].st = "dispatch" /\ conn[c].tok \in Tokens
  BY RouteStates DEF GateInv, Asked, AskedOf, Taken
<1>2. CASE conn'[c].st = "answer"
  BY <1>2, ThreadRests
<1>3. CASE /\ ResolveIdentity(conn[c].tok).found /\ conn[c].req.path \in DOMAIN Routes
           /\ conn'[c] = Wrapper(c, id) /\ conn'[c].st # "answer"
  <2>1. \A x \in id : Good(x, clock)
    BY <1>1, <1>3, ResolvedIs DEF GateInv
  <2>2. PICK path, r, t : path = conn[c].req.path /\ r = conn[c].req /\ t = clock
    OBVIOUS
  <2>3. /\ Meets(id, f.requires)
        /\ Wrapper(c, id) = Running(c, "body", conn[c].req.path, id, clock,
                                    [i \in DOMAIN f.params |-> arg(i).kids[1]])
        /\ \A i \in DOMAIN f.params : arg(i).tag # 1
    BY <1>3, WrapperIs, Zenon
  <2>4. /\ conn'[c].st = "body" /\ conn'[c].fn = path /\ conn'[c].by = id /\ conn'[c].at = t
        /\ conn'[c].args = [i \in DOMAIN f.params |-> arg(i).kids[1]] /\ conn'[c].req = r
    <3>1. PICK by, args : by = id /\ args = [i \in DOMAIN f.params |-> arg(i).kids[1]]
      OBVIOUS
    <3>2. conn'[c] = Running(c, "body", path, by, t, args)
      BY <1>3, <2>2, <2>3, <3>1, Zenon
    <3>3. /\ conn'[c].st = "body" /\ conn'[c].fn = path /\ conn'[c].by = by /\ conn'[c].at = t
          /\ conn'[c].args = args /\ conn'[c].req = r
      BY <2>2, <3>2 DEF Running
    <3> QED BY <3>1, <3>3, Zenon
  <2>5. f = Routes[path] /\ path = r.path
    BY <2>2
  <2>6. \A i \in DOMAIN f.params : IsIdentity(f.params[i]) => \A x \in arg(i).kids[1] : Good(x, clock)
    BY <2>1, <2>3, ArgumentGood, Zenon
  <2>7. ArgsGood(c)'
    <3>1. ASSUME NEW i \in DOMAIN conn'[c].args, IsIdentity(Routes[path].params[i]),
                 NEW x \in conn'[c].args[i]
          PROVE  Good(x, t)'
      <4>1. i \in DOMAIN f.params /\ conn'[c].args[i] = arg(i).kids[1]
        BY <2>4, Zenon
      <4>2. Good(x, t)
        BY <2>2, <2>5, <2>6, <3>1, <4>1, Zenon
      <4> QED BY <4>2, VouchedStays
    <3> QED BY <1>3, <2>2, <2>4, <2>5, <3>1, ZenonT(60) DEF ArgsGood, Good, Vouched
  <2>8. Passed(c)'
    <3> SUFFICES ASSUME Routes[path].requires # None
                 PROVE  \E x \in id : Good(x, t)' /\ Entitled(x, Routes[path].requires, FALSE, <<>>)
      BY <2>4, Zenon DEF Passed, Good, Vouched
    <3>1. PICK x \in id : Satisfies(Claims(x), Routes[path].requires)
      BY <2>3, <2>5, Zenon DEF Meets
    <3>2. Claims(x) = x.claims_json
      BY IdentityFields DEF Claims
    <3>3. Object(x)
      BY <2>1, VouchedObject DEF Good, GateInv
    <3>4. Routes[path].requires.kind \in {"role", "claim"}
      BY <1>3, <2>2, RoutesType
    <3>5. Entitled(x, Routes[path].requires, FALSE, <<>>)
      BY <3>1, <3>2, <3>3, <3>4, SatisfiedIsEntitled
    <3>6. Good(x, t)'
      BY <2>1, <2>2, VouchedStays
    <3> QED BY <3>5, <3>6
  <2> QED BY <2>7, <2>8
<1> QED BY <1>2, <1>3, RouteStates DEF GateInv, Asked

\* A session that verifies is one somebody opened, and is alive.
LEMMA SessionGood ==
  ASSUME GateInv, NEW who \in FromSession
  PROVE  Good(who.id, who.at)
<1>1. PICK s \in DOMAIN sessions : VerifySession(s).found /\ who = [id |-> VerifySession(s).out, at |-> clock]
  BY DEF FromSession
<1>2. s \in 1 .. Len(sessions)
  BY DEF GateInv, SessionsApt
<1>3. Vouched(sessions[s].identity) /\ sessions[s].expires_at \in Int /\ clock \in Nat
  BY <1>2 DEF GateInv, SessionsApt
<1> DEFINE x == [subject     |-> sessions[s].identity.subject,
                 expires_at  |-> sessions[s].expires_at,
                 claims_json |-> sessions[s].identity.claims_json]
<1>4. Failed.found = FALSE /\ \A v : Found(v).out = v
  BY DEF Failed, Found
<1>5. VerifySession(s).out = x /\ sessions[s].expires_at > clock
  BY <1>1, <1>4 DEF VerifySession
<1>6. Vouched(x) /\ x.expires_at = sessions[s].expires_at
  BY <1>3 DEF Vouched
<1> HIDE DEF x
<1>7. who.id = x /\ who.at = clock
  BY <1>1, <1>5
<1>8. clock <= x.expires_at
  BY <1>3, <1>5, <1>6
<1> QED BY <1>6, <1>7, <1>8 DEF Good

\* Through acquire.
LEMMA AcquireKeeps ==
  ASSUME GateInv, [Next]_vars, NEW c \in Conns, AcquireGated(c)
  PROVE  ArgsGood(c)' /\ Passed(c)'
<1> DEFINE f == Routes[conn[c].fn]
           gate == Routes[f.target].requires
           p(id) == ProofOf(id, gate, f.path)
<1>0. DOMAIN conn = Conns
  BY DEF GateInv, Asked
<1>1. conn[c].st = "body" /\ f.does = "acquire"
  BY Zenon DEF AcquireGated, Does
<1>2. conn[c].fn = conn[c].req.path /\ conn[c].fn \in DOMAIN Routes
  BY <1>1 DEF GateInv, ArgsGood
<1>3. f.target \in DOMAIN Routes /\ gate # None /\ gate.kind \in {"role", "claim"}
  BY <1>1, <1>2, RoutesType
<1>4. CASE \E v : Step(c, "body", Returns(c, v))
  <2>1. \A v : Returns(c, v).st = "answer"
    BY DEF Returns, Response
  <2>2. conn'[c].st = "answer"
    BY <1>0, <1>4, <2>1, StepIs
  <2> QED BY <2>2, ThreadRests
<1>5. ASSUME NEW who \in IdentityArg(c) \cup FromSession \cup FromApiKey,
             p(who.id).found, Acquire(p(who.id).out, gate),
             Step(c, "body", Running(c, "gated", f.target, {who.id}, who.at, <<>>))
      PROVE  ArgsGood(c)' /\ Passed(c)'
  <2>1. PICK r, target, path : r = conn[c].req /\ target = f.target /\ path = f.path
    OBVIOUS
  <2>2. conn'[c] = Running(c, "gated", f.target, {who.id}, who.at, <<>>)
    BY <1>0, <1>5, StepIs, Zenon
  <2>3. /\ conn'[c].st = "gated" /\ conn'[c].fn = target /\ conn'[c].by = {who.id}
        /\ conn'[c].at = who.at /\ conn'[c].req = r
    BY <2>1, <2>2 DEF Running
  <2>4. who \notin FromApiKey
    <3> SUFFICES ASSUME who \in FromApiKey PROVE FALSE
      OBVIOUS
    <3>1. ValidateApiKey("k", "k").out.claims_json = JObj(<<>>)
      BY DEF ValidateApiKey, When, Found
    <3>2. who.id.claims_json = JObj(<<>>)
      BY <3>1 DEF FromApiKey
    <3> QED BY <1>3, <1>5, <3>2, KeyProvesNothing, Zenon
  <2>5. Good(who.id, who.at)
    BY <1>1, <2>4, GivenGood, SessionGood
  <2>6. Object(who.id)
    BY <2>5, VouchedObject DEF Good, GateInv
  <2>7. Entitled(who.id, gate, TRUE, path)
    BY <1>3, <1>5, <2>1, <2>6, ProofIsEntitled, Zenon
  <2>8. Good(who.id, who.at)'
    BY <2>5, VouchedStays DEF Good, Vouched
  <2>9. Routes[r.path].path = path /\ Routes[target].requires = gate
    BY <1>2, <2>1
  <2>10. Passed(c)'
    BY <2>3, <2>7, <2>8, <2>9, Zenon DEF Passed, Good, Vouched
  <2>11. ArgsGood(c)'
    BY <2>3 DEF ArgsGood
  <2> QED BY <2>10, <2>11
<1>6. \/ \E who \in IdentityArg(c) \cup FromSession \cup FromApiKey :
           /\ p(who.id).found /\ Acquire(p(who.id).out, gate)
           /\ Step(c, "body", Running(c, "gated", f.target, {who.id}, who.at, <<>>))
      \/ \E v : Step(c, "body", Returns(c, v))
  BY Zenon DEF AcquireGated
<1> QED BY <1>4, <1>5, <1>6, Zenon

\* Every step keeps the gate.
LEMMA GateStep == ASSUME GateInv, [Next]_vars PROVE GateInv'
<1>1. Asked' /\ MintedApt' /\ SessionsApt'
  BY AskedStep, MintedAptStep, SessionsStep DEF GateInv
<1>2. clock' \in Nat
  <2>1. ASSUME NEW c \in Conns,
               DemoLogin(c) \/ CallRoute(c) \/ OpenSession(c) \/ IssueRefresh(c) \/ Exchange(c)
        PROVE  clock' = clock
    BY <2>1 DEF DemoLogin, CallRoute, OpenSession, IssueRefresh, Exchange
  <2>2. Tick => clock' = clock + 1
    BY DEF Tick
  <2>3. Elsewhere => clock' = clock
    BY DEF Elsewhere
  <2> QED BY <2>1, <2>2, <2>3, SharedCases DEF GateInv
<1>3. ASSUME NEW c \in Conns, Turn(c), ArgsGood(c)' /\ Passed(c)', NEW d \in Conns
      PROVE  ArgsGood(d)' /\ Passed(d)'
  <2>1. CASE d = c
    BY <2>1, <1>3
  <2>2. CASE d # c
    BY <2>2, <1>3, ThreadStays DEF Turn, GateInv
  <2> QED BY <2>1, <2>2
<1>4. ASSUME NEW d \in Conns PROVE ArgsGood(d)' /\ Passed(d)'
  <2>1. CASE conn' = conn
    BY <2>1, ThreadStays DEF GateInv
  <2>2. ASSUME NEW c \in Conns, Turn(c), conn'[c].st \notin {"body", "gated"}
        PROVE  ArgsGood(d)' /\ Passed(d)'
    BY <2>2, <1>3, ThreadRests
  <2>3. ASSUME NEW c \in Conns, Reads(c) \/ Rests(conn'[c])
        PROVE  conn'[c].st \notin {"body", "gated"}
    BY <2>3, ReadsIs DEF GateInv, Asked, Rests, Quiet
  <2>4. ASSUME NEW c \in Conns, Turn(c), CallRoute(c) \/ AcquireGated(c)
        PROVE  ArgsGood(d)' /\ Passed(d)'
    <3>1. ArgsGood(c)' /\ Passed(c)'
      BY <2>4, RouteKeeps, AcquireKeeps
    <3> QED BY <2>4, <3>1, <1>3
  <2> QED BY <2>1, <2>2, <2>3, <2>4, ConnCases DEF GateInv, Asked
<1> QED BY <1>1, <1>2, <1>4 DEF GateInv

\* However tokens, sessions, decoded identities, proofs and expiry interleave, a
\* function with a requirement runs only for an identity that was vouched for,
\* alive when it was checked, and entitled to it.
THEOREM GateKept == Spec => []GateHolds
<1>1. Init => GateInv
  <2> SUFFICES ASSUME Init PROVE GateInv
    OBVIOUS
  <2>1. /\ clock = 0 /\ minted = {} /\ sessions = <<>>
        /\ conn = [c \in Conns |-> NoThread("none")]
    BY DEF Init
  <2>2. NoThread("none").st = "none"
    BY DEF NoThread
  <2>3. Asked /\ MintedApt
    BY <2>1, AskedFirst DEF MintedApt
  <2>4. SessionsApt
    <3>1. sessions \in Seq({}) /\ Len(sessions) = 0
      BY <2>1
    <3> QED BY <3>1 DEF SessionsApt
  <2>5. \A c \in Conns : ArgsGood(c) /\ Passed(c)
    BY <2>1, <2>2 DEF ArgsGood, Passed
  <2> QED BY <2>1, <2>3, <2>4, <2>5 DEF GateInv
<1>2. GateInv /\ [Next]_vars => GateInv'
  BY GateStep
<1>3. GateInv => GateHolds
  BY DEF GateInv, Passed, Good, Vouched, GateHolds
<1> QED BY <1>1, <1>2, <1>3, PTL DEF Spec

-----------------------------------------------------------------------------
(* What a function is given and what comes back. The wrapper decodes with  *)
(* the types the client encoded with, so the arguments are the client's    *)
(* values; they are values of their types, so what the function makes of   *)
(* them is one of its own type, and its encoding is decoded to it.         *)

Given(c) ==
  LET k == conn[c]
      f == Routes[k.req.path]
  IN  /\ k.st \in {"body", "gated"} => k.req.path \in DOMAIN Routes
      /\ k.st = "gated" => f.does # "echo"
      /\ k.st = "body" =>
           /\ k.fn = k.req.path /\ DOMAIN k.args = DOMAIN f.params
           /\ \A i \in Own(f.params) :
                /\ k.args[i] \in Values(f.params[i])
                /\ k.req \in Requests /\ k.req.sent # None =>
                     k.args[i] = k.req.sent[JsonIndex(f.params, i) + 1]

Told(c) ==
  LET k == conn[c]
      f == Routes[k.req.path]
  IN  k.st = "answer" /\ k.ret # None =>
        /\ k.status = 200
        /\ f.ret.t # "unit" => Decode(f.ret, k.body) = Ok(k.ret)

ReturnInv == Asked /\ \A c \in Conns : Given(c) /\ Told(c)

\* A parameter filled from the body has a value of its type, and for a request
\* that is as it was sent the client's.
LEMMA ArgumentIsSent ==
  ASSUME NEW q, q.body \in Bodies, q.path \in DOMAIN Routes, NEW id,
         NEW i \in Own(Routes[q.path].params),
         Argument(Routes[q.path].params, i, id, q.body).tag # 1
  PROVE  LET params == Routes[q.path].params
             v == Argument(params, i, id, q.body).kids[1]
         IN  /\ v \in Values(params[i])
             /\ q \in Requests /\ q.sent # None => v = q.sent[JsonIndex(params, i) + 1]
<1> DEFINE f == Routes[q.path]
           d(j) == Decode(f.params[i], q.body.items[j + 1])
<1>0. PICK k : k = JsonIndex(f.params, i)
  OBVIOUS
<1>1. ~IsIdentity(f.params[i]) /\ i \in DOMAIN f.params
  BY DEF Own
<1>2. \A m : Err(m).tag = 1
  BY DEF Err
<1>3. ArrayGet(q.body, k).found /\ Argument(f.params, i, id, q.body) = Decode(f.params[i], ArrayGet(q.body, k).out)
  BY <1>0, <1>1, <1>2, Zenon DEF Argument
<1>4. /\ k \in 0 .. Len(q.body.items) - 1 /\ Argument(f.params, i, id, q.body) = d(k)
      /\ q.body.j = "arr"
  BY <1>3 DEF ArrayGet, Found, Failed
<1>5. d(k).kids[1] \in Values(f.params[i])
  <2>1. Empty.j = "words"
    BY DEF Empty, Words, Text
  <2>2. PICK r \in Requests : r.body = q.body
    BY <1>4, <2>1 DEF Bodies
  <2>3. k \in 0 .. Len(r.body.items) - 1 /\ d(k) = Decode(f.params[i], r.body.items[k + 1])
    BY <1>4, <2>2
  <2>4. Decode(f.params[i], r.body.items[k + 1]).tag # 1
    BY <1>4, <2>3
  <2> QED BY <2>3, <2>4, CodecIsExact, Zenon
<1>6. ASSUME q \in Requests, q.sent # None
      PROVE  d(k).kids[1] = q.sent[k + 1]
  <2>1. PICK v : v = q.sent[k + 1]
    OBVIOUS
  <2>2. v \in Values(f.params[i]) /\ q.body.items[k + 1] = Encode(f.params[i], v)
    BY <1>0, <1>6, <2>1, CodecIsExact, Zenon
  <2>3. Decode(f.params[i], Encode(f.params[i], v)) = Ok(v)
    <3>1. f.params[i] \in {f.params[j] : j \in Own(f.params)}
      OBVIOUS
    <3> QED BY <2>2, <3>1, CodecIsExact, Zenon
  <2> QED BY <2>1, <2>2, <2>3 DEF Ok
<1> QED BY <1>0, <1>4, <1>5, <1>6, Zenon

\* A value of the function's type reaches the client.
LEMMA ReturnIsTold ==
  ASSUME NEW c \in Conns, conn[c].req.path \in DOMAIN Routes,
         NEW v \in Values(Routes[conn[c].req.path].ret), conn'[c] = Returns(c, v)
  PROVE  Given(c)' /\ Told(c)'
<1>1. PICK r, f : r = conn[c].req /\ f = Routes[r.path] /\ r.path \in DOMAIN Routes /\ v \in Values(f.ret)
  OBVIOUS
<1>2. /\ conn'[c].st = "answer" /\ conn'[c].req = r /\ conn'[c].status = 200
      /\ conn'[c].ret = v /\ (f.ret.t # "unit" => conn'[c].body = Encode(f.ret, v))
  BY <1>1 DEF Returns, Response
<1>3. Decode(f.ret, Encode(f.ret, v)) = Ok(v)
  BY <1>1, CodecIsExact, Zenon
<1>4. Told(c)'
  BY <1>1, <1>2, <1>3, Zenon DEF Told
<1>5. Given(c)'
  BY <1>2 DEF Given
<1> QED BY <1>4, <1>5

\* What functions return is of their type.
LEMMA EchoIsTyped ==
  ASSUME NEW p \in DOMAIN Routes, Routes[p].does = "echo", NEW args,
         DOMAIN args = DOMAIN Routes[p].params,
         \A i \in Own(Routes[p].params) : args[i] \in Values(Routes[p].params[i])
  PROVE  Ok(Last(args)) \in Values(Routes[p].ret)
<1>1. PICK ps : ps = Routes[p].params
  OBVIOUS
<1>2. ps \in Seq({ps[i] : i \in DOMAIN ps})
  BY <1>1, RoutesType, Zenon
<1>3. Len(ps) \in Nat /\ DOMAIN ps = 1 .. Len(ps)
  BY <1>2, LenProperties
<1>4. Len(args) = Len(ps)
  BY <1>1, <1>3
<1>5. Len(ps) \in Own(ps) /\ \A v \in Values(Last(ps)) : Ok(v) \in Values(Routes[p].ret)
  BY <1>1, FunctionsTyped, Zenon
<1>6. args[Len(ps)] \in Values(ps[Len(ps)])
  BY <1>1, <1>5
<1> QED BY <1>4, <1>5, <1>6 DEF Last

LEMMA OthersAreTyped ==
  ASSUME NEW p \in DOMAIN Routes
  PROVE  /\ Flag(FALSE) \in Values(Routes[p].ret)
         /\ Routes[p].does # "echo" => /\ Ok(Val(1)) \in Values(Routes[p].ret)
                                       /\ \A b \in BOOLEAN : Flag(b) \in Values(Routes[p].ret)
BY FunctionsTyped, Zenon DEF Flag

\* Every reply is of the type of the route that was asked for.
LEMMA RepliesKeep ==
  ASSUME ReturnInv, NEW c \in Conns, Replies(c)
  PROVE  Given(c)' /\ Told(c)'
<1>0. DOMAIN conn = Conns /\ Given(c)
  BY DEF ReturnInv, Asked
<1>1. ASSUME NEW what, Does(c, what)
      PROVE  /\ conn[c].req.path \in DOMAIN Routes /\ Routes[conn[c].req.path].does = what
             /\ DOMAIN conn[c].args = DOMAIN Routes[conn[c].req.path].params
             /\ \A i \in Own(Routes[conn[c].req.path].params) :
                  conn[c].args[i] \in Values(Routes[conn[c].req.path].params[i])
  BY <1>0, <1>1, Zenon DEF Does, Given
<1>2. ASSUME NEW v, NEW from, Step(c, from, Returns(c, v)), conn[c].req.path \in DOMAIN Routes,
             v \in Values(Routes[conn[c].req.path].ret)
      PROVE  Given(c)' /\ Told(c)'
  BY <1>0, <1>2, StepIs, ReturnIsTold, Zenon
<1>3. CASE Echo(c)
  <2>1. Does(c, "echo")
    BY <1>3 DEF Echo
  <2>2. PICK v \in {Ok(Last(conn[c].args)), Flag(FALSE)} : Step(c, "body", Returns(c, v))
    BY <1>3, Zenon DEF Echo, Flag
  <2>3. v \in Values(Routes[conn[c].req.path].ret)
    <3>1. Ok(Last(conn[c].args)) \in Values(Routes[conn[c].req.path].ret)
      <4>1. PICK p, args : p = conn[c].req.path /\ args = conn[c].args
        OBVIOUS
      <4>2. /\ p \in DOMAIN Routes /\ Routes[p].does = "echo" /\ DOMAIN args = DOMAIN Routes[p].params
            /\ \A i \in Own(Routes[p].params) : args[i] \in Values(Routes[p].params[i])
        BY <1>1, <2>1, <4>1, Zenon
      <4>3. Ok(Last(args)) \in Values(Routes[p].ret)
        BY <4>2, EchoIsTyped, Zenon
      <4> QED BY <4>1, <4>3, Zenon
    <3>2. Flag(FALSE) \in Values(Routes[conn[c].req.path].ret)
      BY <1>1, <2>1, OthersAreTyped, Zenon
    <3> QED BY <2>2, <3>1, <3>2, Zenon
  <2> QED BY <1>1, <1>2, <2>1, <2>2, <2>3, Zenon
<1>4. CASE OpenSession(c) \/ IssueRefresh(c)
  <2>1. Does(c, "open") \/ Does(c, "issue")
    BY <1>4, Zenon DEF OpenSession, IssueRefresh
  <2>2. Step(c, "body", Returns(c, Ok(Val(1))))
    BY <1>4, Zenon DEF OpenSession, IssueRefresh
  <2>3. conn[c].req.path \in DOMAIN Routes /\ Routes[conn[c].req.path].does # "echo"
    BY <1>1, <2>1
  <2> QED BY <1>2, <2>2, <2>3, OthersAreTyped, Zenon
<1>5. CASE Exchange(c)
  <2>1. conn[c].req.path \in DOMAIN Routes /\ Routes[conn[c].req.path].does # "echo"
    <3>1. Does(c, "exchange")
      BY <1>5 DEF Exchange
    <3> QED BY <1>1, <3>1
  <2>2. PICK b \in BOOLEAN : Step(c, "body", Returns(c, Flag(b)))
    <3>1. PICK h : Step(c, "body", Returns(c, Flag(Redeemable(h, clock))))
      BY <1>5 DEF Exchange
    <3>2. Redeemable(h, clock) \in BOOLEAN
      BY DEF Redeemable
    <3> QED BY <3>1, <3>2
  <2> QED BY <1>2, <2>1, <2>2, OthersAreTyped, Zenon
<1>6. CASE CallGated(c)
  <2>1. Step(c, "gated", Returns(c, Flag(TRUE))) /\ conn[c].st = "gated"
    BY <1>6, <1>0, StepIs DEF CallGated
  <2>2. conn[c].req.path \in DOMAIN Routes /\ Routes[conn[c].req.path].does # "echo"
    BY <1>0, <2>1, Zenon DEF Given
  <2> QED BY <1>2, <2>1, <2>2, OthersAreTyped, Zenon
<1> QED BY <1>3, <1>4, <1>5, <1>6 DEF Replies

\* A route answers for itself, or runs its function on the client's values.
LEMMA RouteGives ==
  ASSUME ReturnInv, NEW c \in Conns, CallRoute(c)
  PROVE  Given(c)' /\ Told(c)'
<1> DEFINE id == ResolveIdentity(conn[c].tok).out
           f == Routes[conn[c].req.path]
           arg(i) == Argument(f.params, i, id, conn[c].req.body)
<1>1. conn[c].st = "dispatch" /\ conn[c].req.body \in Bodies
  BY RouteStates DEF ReturnInv, Asked, AskedOf, Taken
<1>2. CASE conn'[c].st = "answer" /\ conn'[c].ret = None
  BY <1>2 DEF Given, Told
<1>3. CASE /\ conn[c].req.path \in DOMAIN Routes /\ conn'[c] = Wrapper(c, id)
           /\ ~(conn'[c].st = "answer" /\ conn'[c].ret = None)
  <2>1. PICK r, by, args, at :
          r = conn[c].req /\ by = id /\ at = clock /\ args = [i \in DOMAIN f.params |-> arg(i).kids[1]]
    OBVIOUS
  <2>2. /\ Wrapper(c, id) = Running(c, "body", conn[c].req.path, id, clock,
                                    [i \in DOMAIN f.params |-> arg(i).kids[1]])
        /\ \A i \in DOMAIN f.params : arg(i).tag # 1
    BY <1>3, WrapperIs, Zenon
  <2>3. conn'[c] = Running(c, "body", r.path, by, at, args)
    BY <1>3, <2>1, <2>2, Zenon
  <2>4. /\ conn'[c].st = "body" /\ conn'[c].req = r /\ conn'[c].fn = r.path /\ conn'[c].args = args
    <3>1. PICK path : path = r.path
      OBVIOUS
    <3>2. conn'[c] = Running(c, "body", path, by, at, args)
      BY <2>3, <3>1, Zenon
    <3>3. /\ conn'[c].st = "body" /\ conn'[c].req = conn[c].req /\ conn'[c].fn = path /\ conn'[c].args = args
      BY <3>2 DEF Running
    <3> QED BY <2>1, <3>1, <3>3, Zenon
  <2>5. ASSUME NEW i \in Own(Routes[r.path].params)
        PROVE  /\ args[i] \in Values(Routes[r.path].params[i])
               /\ r \in Requests /\ r.sent # None =>
                    args[i] = r.sent[JsonIndex(Routes[r.path].params, i) + 1]
    <3>1. i \in DOMAIN f.params
      BY <2>1, <2>5 DEF Own
    <3>2. args[i] = arg(i).kids[1] /\ arg(i).tag # 1
      BY <2>1, <2>2, <3>1, Zenon
    <3> QED BY <1>1, <1>3, <2>1, <2>5, <3>2, ArgumentIsSent, Zenon
  <2>6. DOMAIN args = DOMAIN Routes[r.path].params
    BY <2>1
  <2>7. Given(c)'
    BY <1>1, <1>3, <2>1, <2>4, <2>5, <2>6, Zenon DEF Given
  <2>8. Told(c)'
    BY <2>4 DEF Told
  <2> QED BY <2>7, <2>8
<1> QED BY <1>2, <1>3, RouteStates DEF ReturnInv, Asked

\* Through acquire the request stays the one the route was asked with.
LEMMA AcquireGives ==
  ASSUME ReturnInv, NEW c \in Conns, AcquireGated(c)
  PROVE  Given(c)' /\ Told(c)'
<1>0. DOMAIN conn = Conns /\ Given(c)
  BY DEF ReturnInv, Asked
<1>1. conn[c].st = "body" /\ Routes[conn[c].fn].does = "acquire"
  BY Zenon DEF AcquireGated, Does
<1>2. /\ conn[c].req.path \in DOMAIN Routes
      /\ Routes[conn[c].req.path].does # "echo"
  <2>1. conn[c].fn = conn[c].req.path /\ "acquire" # "echo"
    BY <1>0, <1>1 DEF Given
  <2> QED BY <1>0, <1>1, <2>1, Zenon DEF Given
<1>3. CASE Step(c, "body", Returns(c, Flag(FALSE)))
  <2>1. conn'[c] = Returns(c, Flag(FALSE))
    BY <1>0, <1>3, StepIs
  <2> QED BY <1>2, <2>1, OthersAreTyped, ReturnIsTold, Zenon
<1>4. ASSUME NEW fn, NEW id, NEW at, NEW args, Step(c, "body", Running(c, "gated", fn, id, at, args))
      PROVE  Given(c)' /\ Told(c)'
  <2>1. PICK r : r = conn[c].req
    OBVIOUS
  <2>2. conn'[c] = Running(c, "gated", fn, id, at, args)
    BY <1>0, <1>4, StepIs, Zenon
  <2>3. conn'[c].st = "gated" /\ conn'[c].req = r
    BY <2>1, <2>2 DEF Running
  <2> QED BY <1>2, <2>1, <2>3 DEF Given, Told
<1>5. \/ \E fn, id, at, args : Step(c, "body", Running(c, "gated", fn, id, at, args))
      \/ Step(c, "body", Returns(c, Flag(FALSE)))
  BY Zenon DEF AcquireGated
<1> QED BY <1>3, <1>4, <1>5

\* Every step keeps what functions are given and clients told.
LEMMA ReturnStep == ASSUME ReturnInv, [Next]_vars PROVE ReturnInv'
<1>0. Asked' /\ Asked
  BY AskedStep DEF ReturnInv
<1>1. ASSUME NEW c \in Conns, conn'[c] = conn[c]
      PROVE  Given(c)' /\ Told(c)'
  <2>1. Given(c) /\ Told(c)
    BY DEF ReturnInv
  <2>2. Given(c)'
    BY <1>1, <2>1 DEF Given
  <2>3. Told(c)'
    BY <1>1, <2>1 DEF Told
  <2> QED BY <2>2, <2>3
<1>2. ASSUME NEW c \in Conns, conn'[c].st \notin {"body", "gated"}, ComposedByServer(conn'[c])
      PROVE  Given(c)' /\ Told(c)'
  BY <1>2 DEF Given, Told, ComposedByServer
<1>4. ASSUME NEW d \in Conns PROVE Given(d)' /\ Told(d)'
  <2>1. CASE conn' = conn
    BY <1>1, <2>1
  <2>2. ASSUME NEW c \in Conns, Turn(c), Given(c)' /\ Told(c)'
        PROVE  Given(d)' /\ Told(d)'
    BY <1>1, <2>2 DEF Turn
  <2>3. ASSUME NEW c \in Conns, Rests(conn'[c]), ComposedByServer(conn'[c]) \/ Replies(c)
        PROVE  Given(c)' /\ Told(c)'
    BY <1>2, <2>3, RepliesKeep DEF Rests, Quiet
  <2>4. ASSUME NEW c \in Conns, Reads(c)
        PROVE  Given(c)' /\ Told(c)'
    BY <1>0, <1>2, <2>4, ReadsIs DEF Asked
  <2> QED BY <1>0, <2>1, <2>2, <2>3, <2>4, ConnCases, RouteGives, AcquireGives DEF Asked
<1> QED BY <1>0, <1>4 DEF ReturnInv

-----------------------------------------------------------------------------
(* A client that waits has one request on its way at most: what its thread *)
(* has read of it and what is on the wire make it up, and once it is read  *)
(* there is nothing else on the wire.                                      *)

Waits(k, w, a) ==
  /\ k.st = "none" => w = <<>> /\ a = {}
  /\ k.st = "reading" => \/ a = {} /\ k.buf = <<>> /\ w = <<>>
                         \/ \E m \in a : a = {m} /\ k.buf \o w = Pieces(m)
  /\ k.st = "reading_body" => \E m \in a : a = {m} /\ k.msg = m /\ w = <<Piece("body", m)>>
  /\ k.st = "dispatch" => \E m \in a : a = {m} /\ k.req = m.req /\ k.tok = m.tok /\ w = <<>>
  /\ k.st \in {"body", "gated"} \/ (k.st = "answer" /\ k.ret # None) =>
       \E m \in a : a = {m} /\ k.req = m.req /\ w = <<>>
  /\ k.st = "answer" /\ k.req # None => w = <<>>

WaitInv == /\ Asked /\ asked \in [Conns -> SUBSET Messages]
           /\ \A c \in Conns \ Pipelined : Waits(conn[c], wire[c], asked[c])

\* A thread that composes an answer or runs a function goes on with its request.
LEMMA ServesOn ==
  ASSUME NEW k, NEW w, NEW a, Waits(k, w, a), k.st \in {"dispatch", "body", "gated"},
         NEW l, \/ l.st = "answer" /\ l.ret = None
                \/ l.st \in {"body", "gated", "answer"} /\ l.req = k.req
  PROVE  Waits(l, w, a)
BY DEF Waits

\* A message with its own body put in is the message.
LEMMA OwnBody == ASSUME NEW m \in Messages PROVE WithBody(m, Piece("body", m)) = m
<1>1. m \in Taken
  BY MessageTaken
<1>2. Piece("body", m).of = m
  BY DEF Piece
<1>3. [m EXCEPT !.req.body = m.req.body] = m
  BY <1>1 DEF Taken
<1> QED BY <1>2, <1>3 DEF WithBody

\* A sequence and its two ends.
Cut(S, p, buf, rest) ==
  /\ buf \in Seq(S) /\ rest \in Seq(S) /\ buf \o rest = p
  /\ Len(buf) \in 1 .. Len(p) /\ Len(rest) = Len(p) - Len(buf)
  /\ \A i \in 1 .. Len(buf) : buf[i] = p[i]
  /\ \A j \in 1 .. Len(rest) : rest[j] = p[Len(buf) + j]

\* A read moves the first n of what is on the wire behind what was read before.
LEMMA ReadOn ==
  ASSUME NEW S, NEW b \in Seq(S), NEW w \in Seq(S), NEW n \in 1 .. Len(w), NEW p, b \o w = p
  PROVE  Cut(S, p, b \o SubSeq(w, 1, n), SubSeq(w, n + 1, Len(w)))
<1>0. PICK buf, rest : buf = b \o SubSeq(w, 1, n) /\ rest = SubSeq(w, n + 1, Len(w))
  OBVIOUS
<1>1. Len(w) \in Nat /\ Len(b) \in Nat /\ n \in Nat /\ 1 <= n /\ n <= Len(w)
  BY LenProperties
<1>2. /\ SubSeq(w, 1, n) \in Seq(S) /\ Len(SubSeq(w, 1, n)) = n
      /\ \A i \in 1 .. n : SubSeq(w, 1, n)[i] = w[i]
  BY <1>1
<1>3. /\ rest \in Seq(S) /\ Len(rest) = Len(w) - n
      /\ \A j \in 1 .. Len(w) - n : rest[j] = w[n + j]
  BY <1>0, <1>1
<1>4. /\ p \in Seq(S) /\ Len(p) = Len(b) + Len(w)
      /\ \A i \in 1 .. Len(b) : p[i] = b[i]
      /\ \A i \in 1 .. Len(w) : p[Len(b) + i] = w[i]
  <2>1. /\ p \in Seq(S) /\ Len(p) = Len(b) + Len(w)
        /\ \A i \in 1 .. Len(b) + Len(w) : p[i] = IF i <= Len(b) THEN b[i] ELSE w[i - Len(b)]
    BY ConcatProperties
  <2>2. ASSUME NEW i \in 1 .. Len(b) PROVE p[i] = b[i]
    <3>1. i \in 1 .. Len(b) + Len(w) /\ i <= Len(b)
      BY <1>1
    <3> QED BY <2>1, <3>1
  <2>3. ASSUME NEW i \in 1 .. Len(w) PROVE p[Len(b) + i] = w[i]
    <3>1. /\ Len(b) + i \in 1 .. Len(b) + Len(w) /\ ~(Len(b) + i <= Len(b))
          /\ (Len(b) + i) - Len(b) = i
      BY <1>1
    <3> QED BY <2>1, <3>1
  <2> QED BY <2>1, <2>2, <2>3
<1>5. /\ buf \in Seq(S) /\ Len(buf) = Len(b) + n
      /\ \A i \in 1 .. Len(b) : buf[i] = b[i]
      /\ \A i \in 1 .. n : buf[Len(b) + i] = w[i]
  BY <1>0, <1>1, <1>2
<1>6. ASSUME NEW i \in 1 .. Len(buf) PROVE buf[i] = p[i]
  <2>1. CASE i <= Len(b)
    BY <1>1, <1>4, <1>5, <2>1
  <2>2. CASE i > Len(b)
    <3>1. PICK j \in 1 .. n : i = Len(b) + j
      <4>1. i - Len(b) \in 1 .. n /\ i = Len(b) + (i - Len(b))
        BY <1>1, <1>5, <2>2
      <4> QED BY <4>1
    <3> QED BY <1>1, <1>4, <1>5, <3>1
  <2> QED BY <1>1, <2>1, <2>2
<1>7. ASSUME NEW j \in 1 .. Len(rest) PROVE rest[j] = p[Len(buf) + j]
  <2>1. n + j \in 1 .. Len(w) /\ Len(buf) + j = Len(b) + (n + j)
    BY <1>1, <1>3, <1>5
  <2> QED BY <1>3, <1>4, <2>1
<1>8. Len(buf) \in 1 .. Len(p) /\ Len(rest) = Len(p) - Len(buf)
  BY <1>1, <1>3, <1>4, <1>5
<1>9. buf \o rest = p
  <2>0. Len(p) \in Nat /\ Len(buf) \in Nat /\ Len(rest) \in Nat
    BY <1>3, <1>4, <1>5, LenProperties
  <2>1. /\ buf \o rest \in Seq(S) /\ Len(buf \o rest) = Len(buf) + Len(rest)
        /\ \A i \in 1 .. Len(buf) + Len(rest) :
             (buf \o rest)[i] = IF i <= Len(buf) THEN buf[i] ELSE rest[i - Len(buf)]
    BY <1>3, <1>5, ConcatProperties
  <2>2. Len(p) = Len(buf) + Len(rest)
    BY <1>8, <2>0
  <2>3. ASSUME NEW i \in 1 .. Len(p) PROVE (buf \o rest)[i] = p[i]
    <3>1. CASE i <= Len(buf)
      <4>1. i \in 1 .. Len(buf)
        BY <2>0, <3>1
      <4>2. (buf \o rest)[i] = buf[i]
        BY <2>1, <2>2, <2>3, <3>1
      <4> QED BY <1>6, <4>1, <4>2
    <3>2. CASE ~(i <= Len(buf))
      <4>1. i - Len(buf) \in 1 .. Len(rest) /\ Len(buf) + (i - Len(buf)) = i
        BY <2>0, <2>2, <3>2
      <4>2. (buf \o rest)[i] = rest[i - Len(buf)]
        BY <2>1, <2>2, <2>3, <3>2
      <4>3. rest[i - Len(buf)] = p[Len(buf) + (i - Len(buf))]
        BY <1>7, <4>1
      <4> QED BY <4>1, <4>2, <4>3
    <3> QED BY <3>1, <3>2
  <2> QED BY <1>4, <2>1, <2>2, <2>3, SeqEqual
<1>10. Cut(S, p, buf, rest)
  BY <1>3, <1>5, <1>6, <1>7, <1>8, <1>9 DEF Cut
<1> QED BY <1>0, <1>10, Zenon

\* What of a message's pieces has been read, with the blank line among them, parses
\* to the message; the body is there, or is what remains.
LEMMA PartParses ==
  ASSUME NEW c \in Conns, NEW m \in Messages, NEW buf, NEW rest, Cut(Sent, Pieces(m), buf, rest),
         NEW k \in DOMAIN buf, buf[k].part = "end"
  PROVE  /\ Heads(buf, k) = {m}
         /\ \/ Parsed(c, m, SubSeq(buf, k + 1, Len(buf))) = Dispatching(c, m) /\ rest = <<>>
            \/ /\ Parsed(c, m, SubSeq(buf, k + 1, Len(buf))) = AwaitingBody(c, m)
               /\ rest = <<Piece("body", m)>>
<1> DEFINE after == SubSeq(buf, k + 1, Len(buf))
<1> USE DEF Cut
<1>1. Len(buf) \in Nat /\ DOMAIN buf = 1 .. Len(buf) /\ Len(rest) \in Nat
  BY LenProperties
<1>2. \A x, y : Piece(x, y).part = x /\ Piece(x, y).of = y
  BY DEF Piece
<1>3. /\ Pieces(m)[1] = Piece("head", m) /\ Pieces(m)[2] = Piece("end", m)
      /\ m.req.body = Empty => Len(Pieces(m)) = 2
      /\ m.req.body # Empty => Len(Pieces(m)) = 3 /\ Pieces(m)[3] = Piece("body", m)
  BY PiecesAre
<1>4. k = 2
  <2>1. k \in 1 .. 3 /\ buf[k] = Pieces(m)[k]
    BY <1>1, <1>3
  <2>2. k # 1
    BY <1>2, <1>3, <2>1
  <2>3. ASSUME k = 3 PROVE FALSE
    <3>1. m.req.body # Empty
      <4>1. Len(Pieces(m)) >= 3
        BY <1>1, <2>3
      <4>2. ASSUME m.req.body = Empty PROVE FALSE
        <5>1. Len(Pieces(m)) = 2
          BY <1>3, <4>2
        <5> QED BY <4>1, <5>1
      <4> QED BY <4>2
    <3>2. buf[k] = Piece("body", m)
      <4>1. Pieces(m)[3] = Piece("body", m)
        BY <1>3, <3>1
      <4> QED BY <2>1, <2>3, <4>1
    <3> QED BY <1>2, <3>2
  <2> QED BY <2>1, <2>2, <2>3
<1>5. Len(buf) >= 2 /\ buf[1] = Piece("head", m) /\ buf[2] = Piece("end", m)
  BY <1>1, <1>3, <1>4
<1>6. Heads(buf, k) = {m}
  BY <1>2, <1>4, <1>5 DEF Heads
<1>7. Len(after) = Len(buf) - 2 /\ (Len(buf) >= 3 => after[1] = buf[3])
  BY <1>1, <1>4, <1>5
<1>8. CASE m.req.body = Empty
  <2>1. Parsed(c, m, after) = Dispatching(c, m)
    BY <1>8 DEF Parsed
  <2>2. rest = <<>>
    <3>1. Len(Pieces(m)) = 2
      BY <1>3, <1>8
    <3>2. Len(buf) = 2
      BY <1>1, <1>5, <3>1
    <3>3. Len(rest) = 0
      BY <3>1, <3>2
    <3> QED BY <3>3, EmptySeq
  <2> QED BY <1>6, <2>1, <2>2
<1>9. CASE m.req.body # Empty /\ Len(buf) = 2
  <2>1. after = <<>>
    BY <1>7, <1>9
  <2>2. Parsed(c, m, after) = AwaitingBody(c, m)
    BY <1>9, <2>1 DEF Parsed
  <2>3. Len(rest) = 1 /\ rest[1] = Piece("body", m)
    BY <1>3, <1>9
  <2>4. rest = <<Piece("body", m)>>
    BY <2>3
  <2> QED BY <1>6, <2>2, <2>4
<1>10. CASE m.req.body # Empty /\ Len(buf) = 3
  <2>1. after # <<>> /\ after[1] = Piece("body", m)
    <3>1. buf[3] = Piece("body", m)
      BY <1>3, <1>10
    <3>2. Len(after) = 1 /\ after[1] = buf[3]
      BY <1>7, <1>10
    <3>3. Len(<<>>) = 0
      BY EmptySeq
    <3>4. after # <<>>
      <4> SUFFICES ASSUME after = <<>> PROVE FALSE
        OBVIOUS
      <4>1. Len(after) = 0
        BY <3>3, Zenon
      <4> QED BY <3>2, <4>1
    <3> QED BY <3>1, <3>2, <3>4, Zenon
  <2> HIDE DEF after
  <2>2. Parsed(c, m, after) = Dispatching(c, m)
    BY <1>10, <2>1, OwnBody DEF Parsed
  <2>3. rest = <<>>
    <3>1. Len(rest) = 0
      BY <1>3, <1>10
    <3> QED BY <3>1, EmptySeq
  <2> QED BY <1>6, <2>2, <2>3 DEF after
<1> QED BY <1>1, <1>3, <1>5, <1>8, <1>9, <1>10

\* Each client and thread has a line of its own.
LEMMA OwnLine ==
  ASSUME WaitInv, NEW c \in Conns, Acts(c)
  PROVE  /\ \A d \in Conns \ {c} : wire'[d] = wire[d] /\ asked'[d] = asked[d]
         /\ asked' \in [Conns -> SUBSET Messages]
<1>0. DOMAIN wire = Conns /\ asked \in [Conns -> SUBSET Messages]
  BY DEF WaitInv, Asked
<1>1. CASE Send(c)
  <2>1. PICK m \in Messages :
          /\ wire' = [wire EXCEPT ![c] = @ \o Pieces(m)]
          /\ asked' = IF c \in Pipelined THEN asked ELSE [asked EXCEPT ![c] = {m}]
    BY <1>1, SendIs
  <2> QED BY <1>0, <2>1
<1>2. CASE Reads(c)
  <2>1. asked' = asked /\ \E r : wire' = [wire EXCEPT ![c] = r]
    <3>1. ReadHeaders(c) => asked' = asked /\ \E r : wire' = [wire EXCEPT ![c] = r]
      BY DEF ReadHeaders
    <3>2. ReadBody(c) => asked' = asked /\ \E r : wire' = [wire EXCEPT ![c] = r]
      BY DEF ReadBody
    <3> QED BY <1>2, <3>1, <3>2 DEF Reads
  <2> QED BY <1>0, <2>1
<1>3. ASSUME NEW from, Close(c, from)
      PROVE  wire' = [wire EXCEPT ![c] = <<>>] /\ asked' = [asked EXCEPT ![c] = {}]
  BY <1>3 DEF Close
<1> QED BY <1>0, <1>1, <1>2, <1>3, WireOf

\* Of a message's pieces, those that have come and those that have not stay
\* together, and are parsed to the message.
LEMMA WaitHeaders ==
  ASSUME WaitInv, NEW c \in Conns \ Pipelined, ReadHeaders(c)
  PROVE  Waits(conn'[c], wire'[c], asked'[c])
<1>1. /\ conn[c].st = "reading" /\ conn[c].buf \in Seq(Sent) /\ wire[c] \in Seq(Sent)
      /\ DOMAIN conn = Conns /\ DOMAIN wire = Conns /\ asked' = asked
  BY DEF ReadHeaders, WaitInv, Asked, AskedOf
<1>2. PICK n \in 1 .. Len(wire[c]) :
        LET buf  == conn[c].buf \o SubSeq(wire[c], 1, n)
            ends == {k \in DOMAIN buf : buf[k].part = "end"}
        IN  /\ wire' = [wire EXCEPT ![c] = SubSeq(@, n + 1, Len(@))]
            /\ \/ /\ ends = {}
                  /\ Step(c, "reading", Reading(conn[c].idx, buf))
               \/ \E k \in ends :
                    /\ \A j \in ends : k <= j
                    /\ \E m \in Heads(buf, k) :
                         Step(c, "reading", Parsed(c, m, SubSeq(buf, k + 1, Len(buf))))
  BY DEF ReadHeaders
<1>3. PICK m \in asked[c] : asked[c] = {m} /\ conn[c].buf \o wire[c] = Pieces(m)
  <2>1. wire[c] # <<>>
    <3> SUFFICES ASSUME wire[c] = <<>> PROVE FALSE
      OBVIOUS
    <3>1. Len(wire[c]) = 0
      BY EmptySeq
    <3> QED BY <1>2, <3>1
  <2> QED BY <1>1, <2>1 DEF WaitInv, Waits
<1>4. m \in Messages
  BY <1>3 DEF WaitInv
<1>5. PICK buf, rest : /\ buf = conn[c].buf \o SubSeq(wire[c], 1, n)
                       /\ rest = SubSeq(wire[c], n + 1, Len(wire[c]))
                       /\ Cut(Sent, Pieces(m), buf, rest)
  BY <1>1, <1>3, ReadOn, Zenon
<1>6. wire'[c] = rest
  BY <1>1, <1>2, <1>5
<1>7. CASE Step(c, "reading", Reading(conn[c].idx, buf))
  <2>1. conn'[c].st = "reading" /\ conn'[c].buf = buf
    BY <1>1, <1>7, StepIs DEF Reading
  <2> QED BY <1>1, <1>3, <1>5, <1>6, <2>1 DEF Waits, Cut
<1>8. ASSUME NEW k \in DOMAIN buf, buf[k].part = "end", NEW x \in Heads(buf, k),
             Step(c, "reading", Parsed(c, x, SubSeq(buf, k + 1, Len(buf))))
      PROVE  Waits(conn'[c], wire'[c], asked'[c])
  <2>1. /\ Heads(buf, k) = {m}
        /\ \/ Parsed(c, m, SubSeq(buf, k + 1, Len(buf))) = Dispatching(c, m) /\ rest = <<>>
           \/ /\ Parsed(c, m, SubSeq(buf, k + 1, Len(buf))) = AwaitingBody(c, m)
              /\ rest = <<Piece("body", m)>>
    <3>1. c \in Conns /\ k \in DOMAIN buf /\ buf[k].part = "end" /\ Cut(Sent, Pieces(m), buf, rest)
      BY <1>5, <1>8
    <3> QED BY <1>4, <3>1, PartParses
  <2>2. conn'[c] = Parsed(c, m, SubSeq(buf, k + 1, Len(buf)))
    BY <1>1, <1>8, <2>1, StepIs
  <2>3. CASE conn'[c] = Dispatching(c, m) /\ rest = <<>>
    <3>1. conn'[c].st = "dispatch" /\ conn'[c].req = m.req /\ conn'[c].tok = m.tok
      BY <2>3 DEF Dispatching
    <3> QED BY <1>1, <1>3, <1>6, <2>3, <3>1 DEF Waits
  <2>4. CASE conn'[c] = AwaitingBody(c, m) /\ rest = <<Piece("body", m)>>
    <3>1. conn'[c].st = "reading_body" /\ conn'[c].msg = m
      BY <2>4 DEF AwaitingBody
    <3> QED BY <1>1, <1>3, <1>6, <2>4, <3>1 DEF Waits
  <2> QED BY <2>1, <2>2, <2>3, <2>4
<1> QED BY <1>2, <1>5, <1>7, <1>8

\* What was missing is the message's own body.
LEMMA WaitBody ==
  ASSUME WaitInv, NEW c \in Conns \ Pipelined, ReadBody(c)
  PROVE  Waits(conn'[c], wire'[c], asked'[c])
<1>1. /\ conn[c].st = "reading_body" /\ DOMAIN conn = Conns /\ DOMAIN wire = Conns /\ asked' = asked
      /\ wire' = [wire EXCEPT ![c] = Tail(@)]
      /\ Step(c, "reading_body", Dispatching(c, WithBody(conn[c].msg, Head(wire[c]))))
  BY DEF ReadBody, WaitInv, Asked
<1>2. PICK m \in asked[c] : asked[c] = {m} /\ conn[c].msg = m /\ wire[c] = <<Piece("body", m)>>
  BY <1>1 DEF WaitInv, Waits
<1>3. m \in Messages
  BY <1>2 DEF WaitInv
<1>4. Head(wire[c]) = Piece("body", m) /\ Tail(wire[c]) = <<>>
  BY <1>2
<1>5. conn'[c] = Dispatching(c, m)
  BY <1>1, <1>2, <1>3, <1>4, OwnBody, StepIs
<1>6. conn'[c].st = "dispatch" /\ conn'[c].req = m.req /\ conn'[c].tok = m.tok
  BY <1>5 DEF Dispatching
<1> QED BY <1>1, <1>2, <1>4, <1>6 DEF Waits

\* What is sent is sent where nothing is due.
LEMMA WaitSend ==
  ASSUME WaitInv, NEW c \in Conns \ Pipelined, Send(c)
  PROVE  Waits(conn'[c], wire'[c], asked'[c])
<1>1. conn' = conn /\ conn[c].st = "reading" /\ asked[c] = {}
  BY DEF Send
<1>2. conn[c].buf = <<>> /\ wire[c] = <<>>
  BY <1>1 DEF WaitInv, Waits
<1>3. PICK m \in Messages :
        /\ wire' = [wire EXCEPT ![c] = @ \o Pieces(m)]
        /\ asked' = [asked EXCEPT ![c] = {m}]
  BY SendIs
<1>4. <<>> \o Pieces(m) = Pieces(m)
  BY PiecesAre, ConcatEmptySeq
<1>5. wire'[c] = Pieces(m) /\ asked'[c] = {m}
  BY <1>2, <1>3, <1>4 DEF WaitInv, Asked
<1> QED BY <1>1, <1>2, <1>4, <1>5 DEF Waits

\* No step of its own makes a client's request another than it sent.
LEMMA WaitActs ==
  ASSUME WaitInv, NEW c \in Conns \ Pipelined, Acts(c)
  PROVE  Waits(conn'[c], wire'[c], asked'[c])
<1>0. /\ DOMAIN conn = Conns /\ DOMAIN wire = Conns /\ DOMAIN asked = Conns
      /\ Waits(conn[c], wire[c], asked[c])
  BY DEF WaitInv, Asked
<1>1. CASE Accept(c)
  <2>1. conn[c].st = "none" /\ conn'[c] = Reading(0, <<>>) /\ wire' = wire /\ asked' = asked
    BY <1>0, <1>1, StepIs DEF Accept, line
  <2>2. conn'[c].st = "reading" /\ conn'[c].buf = <<>>
    BY <2>1 DEF Reading
  <2> QED BY <1>0, <2>1, <2>2 DEF Waits
<1>2. CASE Refuse(c) \/ ReadEnds(c) \/ \E from : Close(c, from)
  <2>1. conn'[c] \in {NoThread("refused"), NoThread("closed")}
    BY <1>0, <1>2, StepIs DEF Refuse, ReadEnds, Close
  <2>2. conn'[c].st \in {"refused", "closed"}
    BY <2>1 DEF NoThread
  <2> QED BY <2>2 DEF Waits
<1>3. CASE Write(c) /\ ~\E from : Close(c, from)
  <2>1. /\ conn[c].st = "answer" /\ WantsKeepAlive(c) /\ wire' = wire
        /\ asked' = [asked EXCEPT ![c] = {}]
        /\ Step(c, "answer", Reading(conn[c].idx + 1, <<>>))
    BY <1>3 DEF Write
  <2>2. wire'[c] = <<>> /\ asked'[c] = {}
    BY <1>0, <2>1 DEF WantsKeepAlive, Waits
  <2>3. conn'[c].st = "reading" /\ conn'[c].buf = <<>>
    BY <1>0, <2>1, StepIs DEF Reading
  <2> QED BY <2>2, <2>3 DEF Waits
<1>4. CASE ReadTooLarge(c)
  <2>1. conn'[c] = Response(c, None, 413, JNull, None)
    BY <1>0, <1>4, StepIs DEF ReadTooLarge
  <2>2. conn'[c].st = "answer" /\ conn'[c].req = None /\ conn'[c].ret = None
    BY <2>1 DEF Response
  <2> QED BY <2>2 DEF Waits
<1>5. CASE BuiltIns(c)
  <2>1. wire' = wire /\ asked' = asked
    BY <1>5 DEF BuiltIns, Probe, DemoLogin, Whoami, line
  <2>2. conn[c].st = "dispatch" /\ conn'[c].st = "answer" /\ conn'[c].ret = None
    BY <1>0, <1>5, BuiltInsAre
  <2>3. Waits(conn'[c], wire[c], asked[c])
    BY <1>0, <2>2, ServesOn
  <2> QED BY <2>1, <2>3
<1>6. CASE Replies(c)
  <2>1. wire' = wire /\ asked' = asked
    BY <1>6, ZenonT(60) DEF Replies, Echo, OpenSession, IssueRefresh, Exchange, CallGated, line
  <2> QED BY <1>0, <1>6, <2>1, RepliesAre, ServesOn
<1>7. CASE CallRoute(c)
  <2>1. wire' = wire /\ asked' = asked
    BY <1>7 DEF CallRoute, line
  <2>2. \/ conn'[c].st = "answer" /\ conn'[c].ret = None
        \/ conn'[c].st = "body" /\ conn'[c].req = conn[c].req
    <3>1. CASE conn'[c] = Wrapper(c, ResolveIdentity(conn[c].tok).out)
      BY <3>1, WrapperIs DEF Running
    <3> QED BY <1>0, <1>7, <3>1, RouteStates
  <2>3. conn[c].st = "dispatch"
    BY <1>0, <1>7, RouteStates
  <2>4. Waits(conn'[c], wire[c], asked[c])
    BY <1>0, <2>2, <2>3, ServesOn
  <2> QED BY <2>1, <2>4
<1>8. CASE AcquireGated(c)
  <2>1. wire' = wire /\ asked' = asked
    BY <1>8 DEF AcquireGated, line
  <2>2. /\ \A fn, id, at, args : /\ Running(c, "gated", fn, id, at, args).st = "gated"
                                 /\ Running(c, "gated", fn, id, at, args).req = conn[c].req
        /\ \A v : Returns(c, v).st = "answer" /\ Returns(c, v).req = conn[c].req
    BY DEF Running, Returns, Response
  <2>3. \/ \E fn, id, at, args : Step(c, "body", Running(c, "gated", fn, id, at, args))
        \/ \E v : Step(c, "body", Returns(c, v))
    BY <1>8, Zenon DEF AcquireGated
  <2>4. conn[c].st = "body" /\ conn'[c].st \in {"gated", "answer"} /\ conn'[c].req = conn[c].req
    BY <1>0, <2>2, <2>3, StepIs
  <2>5. Waits(conn'[c], wire[c], asked[c])
    BY <1>0, <2>4, ServesOn
  <2> QED BY <2>1, <2>5
<1>9. CASE Reads(c)
  BY <1>9, WaitHeaders, WaitBody DEF Reads
<1>10. CASE Send(c)
  BY <1>10, WaitSend
<1> QED BY <1>1, <1>2, <1>3, <1>4, <1>5, <1>6, <1>7, <1>8, <1>9, <1>10, ActsAre

\* Every step keeps what clients wait for.
LEMMA WaitStep == ASSUME WaitInv, [Next]_vars PROVE WaitInv'
<1>1. Asked' /\ DOMAIN conn = Conns /\ Messages \subseteq Messages'
  BY AskedStep, SentGrows DEF WaitInv, Asked
<1>2. CASE UNCHANGED <<conn, wire, asked>>
  BY <1>1, <1>2 DEF WaitInv
<1>3. ASSUME NEW c \in Conns, Acts(c)
      PROVE  WaitInv'
  <2>1. asked' \in [Conns -> SUBSET Messages']
    BY <1>1, <1>3, OwnLine
  <2>2. ASSUME NEW d \in Conns \ Pipelined PROVE Waits(conn'[d], wire'[d], asked'[d])
    <3>1. CASE d = c
      BY <1>3, <3>1, WaitActs
    <3>2. CASE d # c
      <4>1. conn'[d] = conn[d]
        BY <1>1, <1>3, <3>2, ConnOf DEF Turn
      <4> QED BY <1>3, <3>2, <4>1, OwnLine DEF WaitInv
    <3> QED BY <3>1, <3>2
  <2> QED BY <1>1, <2>1, <2>2 DEF WaitInv
<1> QED BY <1>2, <1>3, Moves

\* However its requests are cut into pieces, a client that waits for its answers
\* has each request served whole and as it was sent: the function receives the
\* values the client encoded. And whoever decodes an answer gets the value the
\* function returned.
THEOREM AnswerKept == Spec => []AnswerIsTheReturn
<1>1. Init => ReturnInv /\ WaitInv
  <2> SUFFICES ASSUME Init PROVE ReturnInv /\ WaitInv
    OBVIOUS
  <2>1. /\ \A c \in Conns : conn[c].st = "none" /\ wire[c] = <<>> /\ asked[c] = {}
        /\ asked \in [Conns -> SUBSET Messages]
    BY DEF Init, NoThread
  <2>2. \A c \in Conns : Given(c) /\ Told(c) /\ Waits(conn[c], wire[c], asked[c])
    BY <2>1 DEF Given, Told, Waits
  <2> QED BY <2>1, <2>2, AskedFirst DEF ReturnInv, WaitInv
<1>2. ReturnInv /\ WaitInv /\ [Next]_vars => ReturnInv' /\ WaitInv'
  BY ReturnStep, WaitStep
<1>3. ReturnInv /\ WaitInv => AnswerIsTheReturn
  <2> SUFFICES ASSUME ReturnInv, WaitInv, NEW c \in Conns
               PROVE  LET k == conn[c]
                          f == Routes[k.req.path]
                          served == \/ k.st \in {"dispatch", "body", "gated"}
                                    \/ (k.st = "answer" /\ k.ret # None)
                          AsSent(m) ==
                            /\ k.req = m.req
                            /\ k.st = "dispatch" => k.tok = m.tok
                            /\ k.st = "body" /\ m.req.sent # None =>
                                 \A i \in Own(f.params) :
                                   k.args[i] = m.req.sent[JsonIndex(f.params, i) + 1]
                      IN  /\ served /\ c \notin Pipelined => \E m \in asked[c] : AsSent(m)
                          /\ k.st = "answer" /\ k.ret # None =>
                               /\ k.status # 401
                               /\ f.ret.t # "unit" => Decode(f.ret, k.body) = Ok(k.ret)
    BY DEF AnswerIsTheReturn
  <2> DEFINE k == conn[c]
             f == Routes[k.req.path]
  <2>1. k.st = "answer" /\ k.ret # None =>
          k.status # 401 /\ (f.ret.t # "unit" => Decode(f.ret, k.body) = Ok(k.ret))
    BY DEF ReturnInv, Told
  <2>2. ASSUME c \notin Pipelined,
               k.st \in {"dispatch", "body", "gated"} \/ (k.st = "answer" /\ k.ret # None)
        PROVE  \E m \in asked[c] :
                 /\ k.req = m.req
                 /\ k.st = "dispatch" => k.tok = m.tok
                 /\ k.st = "body" /\ m.req.sent # None =>
                      \A i \in Own(f.params) :
                        k.args[i] = m.req.sent[JsonIndex(f.params, i) + 1]
    <3>1. PICK m \in asked[c] : k.req = m.req /\ (k.st = "dispatch" => k.tok = m.tok)
      BY <2>2 DEF WaitInv, Waits
    <3>2. m.req \in Requests
      BY <3>1 DEF WaitInv, Messages
    <3>3. k.st = "body" /\ m.req.sent # None =>
            \A i \in Own(f.params) : k.args[i] = m.req.sent[JsonIndex(f.params, i) + 1]
      BY <3>1, <3>2 DEF ReturnInv, Given
    <3> QED BY <3>1, <3>3
  <2> QED BY <2>1, <2>2
<1> QED BY <1>1, <1>2, <1>3, PTL DEF Spec
=============================================================================
