----------------------------- MODULE HttpClient -----------------------------
(***************************************************************************)
(* The pooled keep-alive client (runtime-kernels/src/kernel/http.rs):      *)
(* request_http and request_https, the framing of read_http_response, and  *)
(* what the two connection managers let the pool hand out again.           *)
(*                                                                         *)
(* A call is one request, its own identity. Bytes are abstracted to the    *)
(* pieces the code tells apart: a request is Pieces writes long and is     *)
(* executed only once the server has all of them; a response is a head and *)
(* the pieces its framing asks for. One read takes whatever has arrived.   *)
(* The server, the network and r2d2 are external: a server answers any     *)
(* complete request it has, with any of Framings, and closes a connection  *)
(* whenever it likes.                                                      *)
(***************************************************************************)
EXTENDS Integers, Sequences, FiniteSets

CONSTANTS
  Calls,      \* the requests, each made once
  Secure,     \* those of request_https
  Conns,      \* connections that may ever be dialled
  Framings,   \* how the server may frame a response
  Ceiling,    \* the http domain's ceiling
  None

ASSUME CallsType == Secure \subseteq Calls /\ IsFiniteSet(Calls) /\ Ceiling \in Nat \ {0}
ASSUME FramingsType == Framings \subseteq {"length", "chunked", "close", "eof", "empty", "bad"}
ASSUME NoneIsNone == None \notin Conns \cup {"idle", "out", "closed"}

VARIABLES
  pc,        \* where each call is
  got,       \* the connection each call has checked out
  retried,   \* whether it is past its first attempt
  buf,       \* what its StreamReader has read and not yet handed on
  answer,    \* what it returned: the request the response answers, "err", or None
  held,      \* the slots of the http domain
  pool,      \* of each connection: None, "idle" in its pool, "out", "closed"
  tls,       \* which of the two managers dialled it
  close,     \* HttpConn.should_close
  leftover,  \* HttpConn.leftover
  sent,      \* the pieces of requests the server has not consumed, in order
  pending,   \* the pieces of its answer the server has still to send
  wire,      \* the response pieces that have arrived at the client
  open,      \* whether the server still has the connection open
  executed   \* how often the server executed each request

conns  == <<pool, tls, close, leftover>>
server == <<sent, pending, wire, open, executed>>
vars   == <<pc, got, retried, buf, answer, held, conns, server>>

Pieces == 2    \* a request is written in this many pieces

\* The pieces of the response to r, as f frames them: by Content-Length, in
\* chunks, by Connection: close, by the close alone (eof), or without a body.
\* "bad" has a chunk size that does not parse, and the rest behind it.
Response(r, f) ==
  LET piece(t) == [t |-> t, of |-> r, frame |-> f]
  IN  <<piece("head")>> \o
      CASE f \in {"length", "close", "eof"} -> <<piece("data")>>
        [] f = "chunked" -> <<piece("data"), piece("end")>>
        [] f = "bad"     -> <<piece("bad"), piece("end")>>
        [] f = "empty"   -> <<>>

Init ==
  /\ pc = [c \in Calls |-> "start"] /\ got = [c \in Calls |-> None]
  /\ retried = [c \in Calls |-> FALSE] /\ buf = [c \in Calls |-> <<>>]
  /\ answer = [c \in Calls |-> None] /\ held = 0
  /\ pool = [k \in Conns |-> None] /\ tls = [k \in Conns |-> FALSE]
  /\ close = [k \in Conns |-> FALSE] /\ leftover = [k \in Conns |-> <<>>]
  /\ sent = [k \in Conns |-> <<>>] /\ wire = [k \in Conns |-> <<>>] /\ pending = [k \in Conns |-> <<>>]
  /\ open = [k \in Conns |-> FALSE] /\ executed = [c \in Calls |-> 0]

Go(c, l) == pc' = [pc EXCEPT ![c] = l]

-----------------------------------------------------------------------------
(***************************************************************************)
(* Admission and checkout.                                                 *)
(***************************************************************************)
Acquire(c) ==
  /\ pc[c] = "start"
  /\ IF held >= Ceiling
     THEN Go(c, "done") /\ answer' = [answer EXCEPT ![c] = "err"] /\ UNCHANGED held
     ELSE Go(c, "get") /\ held' = held + 1 /\ UNCHANGED answer
  /\ UNCHANGED <<got, retried, buf, conns, server>>

\* Mutant: a second release, the count wraps.
FinishTwice(c, a) ==
  /\ Go(c, "done") /\ answer' = [answer EXCEPT ![c] = a] /\ held' = held - 2
  /\ got' = [got EXCEPT ![c] = None] /\ buf' = [buf EXCEPT ![c] = <<>>]

\* release, and return.
Finish(c, a) ==
  /\ Go(c, "done") /\ answer' = [answer EXCEPT ![c] = a] /\ held' = held - 1
  /\ got' = [got EXCEPT ![c] = None] /\ buf' = [buf EXCEPT ![c] = <<>>]

Idle(c) == {k \in Conns : pool[k] = "idle" /\ tls[k] = (c \in Secure)}

\* is_valid: a peek for plain TCP, which sees a close or stray data; nothing
\* for TLS.
IsValid(k) == tls[k] \/ (open[k] /\ wire[k] = <<>>)

\* pool.get(): an idle connection that passes is_valid, with what was left over
\* from its last response; one that does not is dropped.
CheckOut(c) ==
  /\ pc[c] = "get"
  /\ \E k \in Idle(c) :
       IF IsValid(k)
       THEN /\ pool' = [pool EXCEPT ![k] = "out"] /\ got' = [got EXCEPT ![c] = k]
            /\ buf' = [buf EXCEPT ![c] = leftover[k]] /\ leftover' = [leftover EXCEPT ![k] = <<>>]
            /\ Go(c, "write")
            /\ UNCHANGED <<tls, close, open>>
       ELSE /\ pool' = [pool EXCEPT ![k] = "closed"] /\ open' = [open EXCEPT ![k] = FALSE]
            /\ UNCHANGED <<tls, close, leftover, got, buf, pc>>
  /\ UNCHANGED <<retried, answer, held, sent, pending, wire, executed>>

\* No idle connection: connect, or its failure.
Connect(c) ==
  /\ pc[c] = "get" /\ Idle(c) = {}
  /\ \E k \in {x \in Conns : pool[x] = None} :
       /\ pool' = [pool EXCEPT ![k] = "out"] /\ tls' = [tls EXCEPT ![k] = c \in Secure]
       /\ open' = [open EXCEPT ![k] = TRUE] /\ got' = [got EXCEPT ![c] = k]
  /\ Go(c, "write")
  /\ UNCHANGED <<retried, buf, answer, held, close, leftover, sent, pending, wire, executed>>

ConnectFails(c) ==
  /\ pc[c] = "get" /\ Idle(c) = {}
  /\ Finish(c, "err") /\ UNCHANGED <<retried, conns, server>>

-----------------------------------------------------------------------------
(***************************************************************************)
(* send_and_read.                                                          *)
(***************************************************************************)
\* drop(conn): has_broken decides whether it goes back to the idle list.
PutBack(k, broken) ==
  /\ pool' = [pool EXCEPT ![k] = IF broken THEN "closed" ELSE "idle"]
  /\ close' = [close EXCEPT ![k] = broken]

\* write_all succeeds: the server has it all, or, on a connection it has
\* closed, the socket buffer took it.
WriteAll(c) ==
  /\ pc[c] = "write"
  /\ LET k == got[c]
     IN  sent' = IF open[k] THEN [sent EXCEPT ![k] = @ \o [i \in 1..Pieces |-> c]] ELSE sent
  /\ Go(c, "read")
  /\ UNCHANGED <<got, retried, buf, answer, held, conns, pending, wire, open, executed>>

\* write_all fails, the first n pieces having left. The first attempt evicts
\* the connection and tries once more; the second gives up.
WriteFails(c) ==
  /\ pc[c] = "write"
  /\ LET k == got[c]
     IN  /\ \E n \in 0..Pieces - 1 :
              sent' = IF open[k] THEN [sent EXCEPT ![k] = @ \o [i \in 1..n |-> c]] ELSE sent
         /\ open' = [open EXCEPT ![k] = FALSE] /\ wire' = [wire EXCEPT ![k] = <<>>]
         /\ PutBack(k, ~retried[c])
  /\ IF retried[c] THEN Finish(c, "err") /\ UNCHANGED retried
     ELSE /\ retried' = [retried EXCEPT ![c] = TRUE] /\ Go(c, "get")
          /\ got' = [got EXCEPT ![c] = None] /\ buf' = [buf EXCEPT ![c] = <<>>]
          /\ UNCHANGED <<answer, held>>
  /\ UNCHANGED <<tls, leftover, pending, executed>>

(***************************************************************************)
(* read_http_response of what has been read so far: "more" to read,        *)
(* "error", or the response and how many pieces it took.                   *)
(*                                                                         *)
(* The header loop waits for a blank line: a head has one, and so has the  *)
(* end of a chunked body, which then fails to parse as a status line, as   *)
(* does whatever stands before a head.                                     *)
(***************************************************************************)
Blank(b) == {i \in DOMAIN b : b[i].t \in {"head", "end"}}
Took(b, n) == [is |-> "response", of |-> b[1].of, close |-> b[1].frame = "close", n |-> n]

\* Mutant: end of file is read as "nothing yet".
ParseNoEof(b, eof) ==
  IF Blank(b) = {} THEN [is |-> "more"]
  ELSE IF b[1].t # "head" THEN [is |-> "error"]
  ELSE IF b[1].frame \in {"empty", "eof"} THEN Took(b, 1)
  ELSE IF Len(b) = Len(Response(b[1].of, b[1].frame)) THEN Took(b, Len(b)) ELSE [is |-> "more"]

Parse(b, eof) ==
  LET error == [is |-> "error"]
      more  == [is |-> IF eof THEN "error" ELSE "more"]
  IN  IF Blank(b) = {} THEN more
      ELSE IF b[1].t # "head" THEN error
      ELSE CASE b[1].frame \in {"empty", "eof"} -> Took(b, 1)
             [] b[1].frame = "length" -> IF Len(b) >= 2 THEN Took(b, 2) ELSE more
             [] b[1].frame = "close"  -> IF eof THEN Took(b, Len(b)) ELSE more
             [] b[1].frame \in {"chunked", "bad"} ->
                  IF \E i \in 2..Len(b) : b[i].t = "bad" THEN error
                  ELSE IF \E i \in 2..Len(b) : b[i].t = "end"
                  THEN Took(b, CHOOSE i \in 2..Len(b) : b[i].t = "end" /\ \A j \in 2..i - 1 : b[j].t # "end")
                  ELSE more

\* The peer has closed and everything it sent has been read.
Eof(c) == ~open[got[c]] /\ wire[got[c]] = <<>>

\* fill_more / stream.read: everything that has arrived.
Read(c) ==
  /\ pc[c] = "read" /\ wire[got[c]] # <<>> /\ Parse(buf[c], FALSE).is = "more"
  /\ buf' = [buf EXCEPT ![c] = @ \o wire[got[c]]]
  /\ wire' = [wire EXCEPT ![got[c]] = <<>>]
  /\ UNCHANGED <<pc, got, retried, answer, held, conns, sent, pending, open, executed>>

ReadDone(c) ==
  /\ pc[c] = "read"
  /\ LET r == Parse(buf[c], Eof(c))
         k == got[c]
     IN  /\ r.is = "response"
         /\ PutBack(k, r.close)
         /\ leftover' = [leftover EXCEPT ![k] = SubSeq(buf[c], r.n + 1, Len(buf[c]))]
         /\ Finish(c, r.of)
  /\ UNCHANGED <<retried, tls, server>>

\* Mutant: a failed read is retried as well.
ReadFailsRetried(c) ==
  /\ pc[c] = "read" /\ Parse(buf[c], Eof(c)).is = "error"
  /\ PutBack(got[c], TRUE)
  /\ IF retried[c] THEN Finish(c, "err") /\ UNCHANGED retried
     ELSE /\ retried' = [retried EXCEPT ![c] = TRUE] /\ Go(c, "get")
          /\ got' = [got EXCEPT ![c] = None] /\ buf' = [buf EXCEPT ![c] = <<>>]
          /\ UNCHANGED <<answer, held>>
  /\ UNCHANGED <<tls, leftover, server>>

\* Mutant: a read that is not complete yet is given up, the connection kept.
ReadFailsEarly(c) ==
  /\ pc[c] = "read" /\ Parse(buf[c], Eof(c)).is # "response"
  /\ PutBack(got[c], close[got[c]])
  /\ Finish(c, "err")
  /\ UNCHANGED <<retried, tls, leftover, server>>

\* ReadFailed: never retried. should_close keeps the value it had.
ReadFails(c) ==
  /\ pc[c] = "read" /\ Parse(buf[c], Eof(c)).is = "error"
  /\ PutBack(got[c], close[got[c]])
  /\ Finish(c, "err")
  /\ UNCHANGED <<retried, tls, leftover, server>>

-----------------------------------------------------------------------------
(***************************************************************************)
(* The server.                                                             *)
(***************************************************************************)
\* It executes a complete request, and has an answer to send.
Execute(k) ==
  /\ open[k] /\ Len(sent[k]) >= Pieces /\ pending[k] = <<>>
  /\ \E f \in Framings : pending' = [pending EXCEPT ![k] = Response(sent[k][1], f)]
  /\ executed' = [executed EXCEPT ![sent[k][1]] = @ + 1]
  /\ sent' = [sent EXCEPT ![k] = SubSeq(@, Pieces + 1, Len(@))]
  /\ UNCHANGED <<pc, got, retried, buf, answer, held, conns, wire, open>>

\* A piece arrives; an answer that ends with the connection ends it.
Deliver(k) ==
  /\ open[k] /\ pending[k] # <<>>
  /\ wire' = [wire EXCEPT ![k] = Append(@, pending[k][1])]
  /\ pending' = [pending EXCEPT ![k] = Tail(@)]
  /\ open' = [open EXCEPT ![k] = ~(Len(pending[k]) = 1 /\ pending[k][1].frame \in {"close", "eof"})]
  /\ UNCHANGED <<pc, got, retried, buf, answer, held, conns, sent, executed>>

\* It closes the connection, between requests or in the middle of one; what
\* was on the wire still arrives, or a reset discards it.
PeerCloses(k) ==
  /\ open[k]
  /\ open' = [open EXCEPT ![k] = FALSE] /\ pending' = [pending EXCEPT ![k] = <<>>]
  /\ wire' \in {wire, [wire EXCEPT ![k] = <<>>]}
  /\ UNCHANGED <<pc, got, retried, buf, answer, held, conns, sent, executed>>

-----------------------------------------------------------------------------
Client(c) ==
  \/ Acquire(c) \/ CheckOut(c) \/ Connect(c) \/ ConnectFails(c)
  \/ WriteAll(c) \/ WriteFails(c) \/ Read(c) \/ ReadDone(c) \/ ReadFails(c)
Server(k) == Execute(k) \/ Deliver(k)

Next ==
  \/ \E c \in Calls : Client(c)
  \/ \E k \in Conns : Server(k) \/ PeerCloses(k)

\* A server that has accepted a request answers it or closes: no read of the
\* client has a timeout of its own.
Fairness == /\ \A c \in Calls : WF_vars(Client(c))
            /\ \A k \in Conns : WF_vars(Server(k))

Spec == Init /\ [][Next]_vars /\ Fairness

-----------------------------------------------------------------------------
TypeOK ==
  /\ pc \in [Calls -> {"start", "get", "write", "read", "done"}]
  /\ got \in [Calls -> Conns \cup {None}] /\ retried \in [Calls -> BOOLEAN]
  /\ answer \in [Calls -> Calls \cup {"err", None}] /\ held \in 0..Ceiling
  /\ pool \in [Conns -> {None, "idle", "out", "closed"}]
  /\ tls \in [Conns -> BOOLEAN] /\ close \in [Conns -> BOOLEAN] /\ open \in [Conns -> BOOLEAN]
  /\ executed \in [Calls -> Nat]

\* No request is executed twice, although a connection may break at any point
\* and a call retries: what is retried was never sent whole (SendError).
AtMostOnce == \A c \in Calls : executed[c] <= 1

\* A response is handed to the call whose request it answers, although a
\* connection serves one call after another and may be handed on with bytes in
\* it (leftover, is_valid, has_broken).
OwnResponse == \A c \in Calls : answer[c] \in {None, "err", c}

\* Every call returns, with its slot given back: no framing leaves a call
\* reading on after its response is complete or its peer is gone.
EveryCallReturns == \A c \in Calls : <>(pc[c] = "done" /\ got[c] = None)
=============================================================================
