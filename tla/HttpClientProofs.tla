-------------------------- MODULE HttpClientProofs --------------------------
(***************************************************************************)
(* Proofs about HttpClient, for every number of calls and of connections   *)
(* and every ceiling.                                                      *)
(*                                                                         *)
(* AtMostOnce holds whatever the server answers: a call has its request    *)
(* whole on at most one open connection, and once it has, it never goes    *)
(* back to writing. OwnResponse needs to know where in a response each     *)
(* open connection is: a connection that is handed on is silent, but for   *)
(* the body of a response framed by the close, whose arrival closes it.    *)
(* It is proved for framings whose chunk sizes parse; a read that fails on *)
(* one leaves the rest of the response for the next call.                  *)
(***************************************************************************)
EXTENDS HttpClient, FiniteSetTheorems, SequenceTheorems, WellFoundedInduction, TLAPS

Busy(c) == pc[c] \in {"write", "read"}

HttpShape ==
  /\ pc \in [Calls -> {"start", "get", "write", "read", "done"}]
  /\ got \in [Calls -> Conns \cup {None}] /\ retried \in [Calls -> BOOLEAN]
  /\ pool \in [Conns -> {None, "idle", "out", "closed"}]
  /\ tls \in [Conns -> BOOLEAN] /\ open \in [Conns -> BOOLEAN]
  /\ sent \in [Conns -> Seq(Calls)] /\ executed \in [Calls -> Nat]

\* A connection is out to the one call that has it.
CheckedOut ==
  /\ \A c \in Calls : Busy(c) => got[c] \in Conns /\ pool[got[c]] = "out"
  /\ \A c, d \in Calls : Busy(c) /\ Busy(d) /\ got[c] = got[d] => c = d

\* Nothing has happened on a connection before it is dialled.
Undialled == \A k \in Conns : pool[k] = None => ~open[k] /\ sent[k] = <<>>

\* The two pieces of one request.
Paired(i, j) == i = j \/ (j = i + 1 /\ i % Pieces = 1) \/ (i = j + 1 /\ j % Pieces = 1)

\* What the server may still execute was written whole, once.
SentWhole ==
  \A k \in Conns : open[k] =>
    /\ Len(sent[k]) % Pieces = 0
    /\ \A i \in DOMAIN sent[k] : executed[sent[k][i]] = 0 /\ pc[sent[k][i]] \in {"read", "done"}
SentApart ==
  \A k, l \in Conns : open[k] /\ open[l] =>
    \A i \in DOMAIN sent[k], j \in DOMAIN sent[l] : sent[k][i] = sent[l][j] => k = l /\ Paired(i, j)
ExecutedOnce == \A c \in Calls : executed[c] # 0 => executed[c] = 1 /\ pc[c] \in {"read", "done"}
SentOnce == SentWhole /\ SentApart /\ ExecutedOnce

SendInv == HttpShape /\ CheckedOut /\ Undialled /\ SentOnce

-----------------------------------------------------------------------------
(***************************************************************************)
(* What writing does to the bytes a connection carries.                    *)
(***************************************************************************)
\* n pieces of one request are a sequence of length n.
LEMMA RequestPieces ==
  ASSUME NEW c \in Calls, NEW n \in Nat
  PROVE  /\ [i \in 1..n |-> c] \in Seq(Calls)
         /\ Len([i \in 1..n |-> c]) = n
<1>1. [i \in 1..n |-> c] \in [1..n -> Calls]
  OBVIOUS
<1>2. [i \in 1..n |-> c] \in Seq(Calls)
  BY <1>1, SeqDef
<1>3. DOMAIN [i \in 1..n |-> c] = 1..n
  OBVIOUS
<1> QED
  BY <1>2, <1>3, LenProperties

\* What n more pieces of c behind s look like.
LEMMA Written ==
  ASSUME NEW s \in Seq(Calls), NEW c \in Calls, NEW n \in Nat, NEW t,
         t = s \o [i \in 1..n |-> c]
  PROVE  /\ t \in Seq(Calls) /\ Len(t) = Len(s) + n
         /\ \A i \in DOMAIN t : t[i] = IF i <= Len(s) THEN s[i] ELSE c
         /\ DOMAIN t = 1..(Len(s) + n) /\ DOMAIN s = 1..Len(s) /\ Len(s) \in Nat
<1> DEFINE u == [i \in 1..n |-> c]
<1>1. u \in Seq(Calls) /\ Len(u) = n /\ \A i \in 1..n : u[i] = c
  BY RequestPieces
<1> HIDE DEF u
<1>2. t = s \o u
  BY DEF u
<1> QED
  BY <1>1, <1>2

\* Initially nothing has been sent.
LEMMA HttpInitInv == Init => SendInv
  BY NoneIsNone DEF Init, SendInv, HttpShape, CheckedOut, Undialled, SentOnce, SentWhole, SentApart,
     ExecutedOnce, Busy

\* A call that is at most at "write" has no whole request on an open connection.
LEMMA NotYetSent ==
  ASSUME SendInv, NEW c \in Calls, pc[c] \in {"start", "get", "write"}
  PROVE  /\ executed[c] = 0
         /\ \A k \in Conns : open[k] => \A i \in DOMAIN sent[k] : sent[k][i] # c
<1>1. executed[c] = 0
  BY DEF SendInv, SentOnce, ExecutedOnce, HttpShape
<1>2. \A k \in Conns : open[k] => \A i \in DOMAIN sent[k] : sent[k][i] # c
  BY DEF SendInv, SentOnce, SentWhole
<1> QED
  BY <1>1, <1>2

\* SentOnce survives a step that sends nothing and opens no connection with
\* anything on it.
LEMMA NothingSent ==
  ASSUME SendInv, UNCHANGED executed,
         \A k \in Conns : open'[k] => sent'[k] = sent[k] /\ (open[k] \/ sent[k] = <<>>),
         \A c \in Calls : pc[c] \in {"read", "done"} => pc'[c] \in {"read", "done"}
  PROVE  SentOnce'
<1>1. SentWhole'
  <2> SUFFICES ASSUME NEW k \in Conns, open'[k]
               PROVE  /\ Len(sent'[k]) % Pieces = 0
                      /\ \A i \in DOMAIN sent'[k] :
                           executed'[sent'[k][i]] = 0 /\ pc'[sent'[k][i]] \in {"read", "done"}
    BY DEF SentWhole
  <2>1. CASE open[k]
    <3>1. \A i \in DOMAIN sent[k] : sent[k][i] \in Calls
      BY DEF SendInv, HttpShape
    <3> QED
      BY <2>1, <3>1 DEF SendInv, SentOnce, SentWhole
  <2>2. CASE sent'[k] = <<>>
    BY <2>2 DEF Pieces
  <2> QED
    BY <2>1, <2>2
<1>2. SentApart'
  <2> SUFFICES ASSUME NEW k \in Conns, NEW l \in Conns, open'[k], open'[l],
                      NEW i \in DOMAIN sent'[k], NEW j \in DOMAIN sent'[l], sent'[k][i] = sent'[l][j]
               PROVE  k = l /\ Paired(i, j)
    BY DEF SentApart, Paired
  <2>1. open[k] /\ open[l] /\ sent'[k] = sent[k] /\ sent'[l] = sent[l]
    OBVIOUS
  <2> QED
    BY <2>1 DEF SendInv, SentOnce, SentApart
<1>3. ExecutedOnce'
  BY DEF SendInv, SentOnce, ExecutedOnce
<1> QED
  BY <1>1, <1>2, <1>3 DEF SentOnce

\* Two pieces more, or less, keep an even number of them even.
LEMMA Parity ==
  /\ \A n \in Nat : n % 2 = 0 => (n + 1) % 2 = 1 /\ (n + 2) % 2 = 0
  /\ \A n \in Nat : n % 2 = 0 /\ n >= 2 => (n - 2) % 2 = 0
  OBVIOUS

\* A request written whole by a call that had none on an open connection.
LEMMA WholeWrite ==
  ASSUME SentOnce, NEW c \in Calls, NEW k \in Conns, open[k], Len(sent[k]) \in Nat,
         DOMAIN sent[k] = 1..Len(sent[k]), DOMAIN sent'[k] = 1..(Len(sent[k]) + 2),
         Len(sent'[k]) = Len(sent[k]) + 2,
         \A i \in DOMAIN sent'[k] : sent'[k][i] = IF i <= Len(sent[k]) THEN sent[k][i] ELSE c,
         \A l \in Conns \ {k} : sent'[l] = sent[l],
         executed[c] = 0,
         \A l \in Conns : open[l] => \A i \in DOMAIN sent[l] : sent[l][i] # c,
         pc'[c] = "read", \A d \in Calls \ {c} : pc'[d] = pc[d],
         sent \in [Conns -> Seq(Calls)], UNCHANGED <<open, executed>>
  PROVE  SentOnce'
<1>1. PICK n \in Nat : n = Len(sent[k])
  BY Zenon
<1>2. n % 2 = 0
  BY <1>1 DEF SentOnce, SentWhole, Pieces
<1>3. ASSUME NEW l \in Conns, open[l], NEW i \in DOMAIN sent'[l], sent'[l][i] # c
      PROVE  i \in DOMAIN sent[l] /\ sent'[l][i] = sent[l][i]
  <2>1. CASE l = k
    BY <1>1, <1>3, <2>1
  <2>2. CASE l # k
    BY <1>3, <2>2
  <2> QED
    BY <2>1, <2>2
<1>4. ASSUME NEW l \in Conns, open[l], NEW i \in DOMAIN sent'[l], sent'[l][i] = c
      PROVE  l = k /\ i \in {n + 1, n + 2}
  <2>1. l = k
    BY <1>4
  <2>2. i \in 1..(n + 2) /\ ~(i <= n)
    BY <1>1, <1>4, <2>1
  <2>3. i \in {n + 1, n + 2}
    BY <2>2
  <2> QED
    BY <2>1, <2>3
<1>5. SentWhole'
  <2>1. ASSUME NEW l \in Conns, open[l] PROVE Len(sent'[l]) % 2 = 0
    <3>1. CASE l = k
      BY <1>1, <1>2, <3>1, Parity, ZenonT(60)
    <3>2. CASE l # k
      BY <2>1, <3>2 DEF SentOnce, SentWhole, Pieces
    <3> QED
      BY <3>1, <3>2
  <2>2. ASSUME NEW l \in Conns, open[l], NEW i \in DOMAIN sent'[l]
        PROVE  executed[sent'[l][i]] = 0 /\ pc'[sent'[l][i]] \in {"read", "done"}
    <3>1. CASE sent'[l][i] = c
      BY <3>1
    <3>2. CASE sent'[l][i] # c
      <4>1. i \in DOMAIN sent[l] /\ sent'[l][i] = sent[l][i]
        BY <1>3, <2>2, <3>2
      <4>2. sent[l][i] \in Calls \ {c}
        BY <3>2, <4>1
      <4>3. executed[sent[l][i]] = 0 /\ pc[sent[l][i]] \in {"read", "done"}
        BY <2>2, <4>1 DEF SentOnce, SentWhole
      <4> QED
        BY <4>1, <4>2, <4>3
    <3> QED
      BY <3>1, <3>2
  <2> QED
    BY <2>1, <2>2 DEF SentWhole, Pieces
<1>6. SentApart'
  <2> SUFFICES ASSUME NEW l \in Conns, NEW m \in Conns, open[l], open[m],
                      NEW i \in DOMAIN sent'[l], NEW j \in DOMAIN sent'[m], sent'[l][i] = sent'[m][j]
               PROVE  l = m /\ Paired(i, j)
    BY DEF SentApart, Paired
  <2>1. CASE sent'[l][i] # c
    <3>1. /\ i \in DOMAIN sent[l] /\ sent'[l][i] = sent[l][i]
          /\ j \in DOMAIN sent[m] /\ sent'[m][j] = sent[m][j]
      BY <1>3, <2>1
    <3> QED
      BY <3>1, ZenonT(60) DEF SentOnce, SentApart
  <2>2. CASE sent'[l][i] = c
    <3>1. l = k /\ i \in {n + 1, n + 2} /\ m = k /\ j \in {n + 1, n + 2}
      BY <1>4, <2>2
    <3>2. (n + 1) % 2 = 1
      BY <1>2, Parity
    <3>3. Paired(i, j)
      BY <3>1, <3>2 DEF Paired, Pieces
    <3> QED
      BY <3>1, <3>3
  <2> QED
    BY <2>1, <2>2
<1>7. ExecutedOnce'
  BY DEF SentOnce, ExecutedOnce
<1> QED
  BY <1>5, <1>6, <1>7 DEF SentOnce

\* The steps of a call.
LEMMA ClientKeepsSend ==
  ASSUME SendInv, NEW c \in Calls, Client(c) PROVE SendInv'
<1> USE NoneIsNone DEF SendInv, HttpShape, Go, Busy
<1>1. CASE Acquire(c)
  <2>1. HttpShape' /\ CheckedOut' /\ Undialled'
    BY <1>1, ZenonT(60) DEF Acquire, conns, server, CheckedOut, Undialled
  <2>2. SentOnce'
    BY <1>1, NothingSent DEF Acquire, conns, server
  <2> QED
    BY <2>1, <2>2
<1>2. CASE CheckOut(c)
  <2>1. PICK k \in Idle(c) :
          IF IsValid(k)
          THEN /\ pool' = [pool EXCEPT ![k] = "out"] /\ got' = [got EXCEPT ![c] = k]
               /\ Go(c, "write")
               /\ UNCHANGED <<tls, close, open>>
          ELSE /\ pool' = [pool EXCEPT ![k] = "closed"] /\ open' = [open EXCEPT ![k] = FALSE]
               /\ UNCHANGED <<tls, close, got, pc>>
    BY <1>2 DEF CheckOut
  <2>2. k \in Conns /\ pool[k] = "idle" /\ pc[c] = "get"
    BY <1>2 DEF Idle, CheckOut
  <2>3. UNCHANGED <<retried, sent, executed, tls>>
    BY <1>2, <2>1 DEF CheckOut
  <2>4. HttpShape' /\ CheckedOut'
    <3>1. CASE IsValid(k)
      <4>1. /\ pool' = [pool EXCEPT ![k] = "out"] /\ got' = [got EXCEPT ![c] = k]
            /\ pc' = [pc EXCEPT ![c] = "write"] /\ UNCHANGED open
        BY <2>1, <3>1
      <4>2. HttpShape'
        BY <2>2, <2>3, <4>1
      <4>3. /\ pc'[c] = "write" /\ got'[c] = k /\ pool'[k] = "out"
            /\ \A d \in Calls \ {c} : pc'[d] = pc[d] /\ got'[d] = got[d]
            /\ \A l \in Conns \ {k} : pool'[l] = pool[l]
        BY <2>2, <4>1
      <4>4. \A d \in Calls \ {c} : Busy(d)' => Busy(d) /\ got'[d] = got[d] /\ got[d] \in Conns \ {k}
        BY <2>2, <4>3 DEF CheckedOut
      <4>5. ASSUME NEW d \in Calls, Busy(d)' PROVE got'[d] \in Conns /\ pool'[got'[d]] = "out"
        <5>1. CASE d = c
          BY <2>2, <4>3, <5>1
        <5>2. CASE d # c
          <6>1. Busy(d) /\ got'[d] = got[d] /\ got[d] \in Conns \ {k}
            BY <4>4, <4>5, <5>2
          <6> QED
            BY <4>3, <6>1 DEF CheckedOut
        <5> QED
          BY <5>1, <5>2
      <4>6. ASSUME NEW d \in Calls, NEW e \in Calls, Busy(d)', Busy(e)', got'[d] = got'[e] PROVE d = e
        <5>1. CASE d # c /\ e # c
          <6>1. Busy(d) /\ Busy(e) /\ got[d] = got[e]
            BY <4>4, <4>6, <5>1
          <6> QED
            BY <6>1 DEF CheckedOut
        <5>2. CASE d = c \/ e = c
          BY <4>3, <4>4, <4>6, <5>2
        <5> QED
          BY <5>1, <5>2
      <4>7. CheckedOut'
        BY <4>5, <4>6 DEF CheckedOut
      <4> QED
        BY <4>2, <4>7
    <3>2. CASE ~IsValid(k)
      <4>1. HttpShape'
        BY <2>1, <2>2, <2>3, <3>2
      <4> QED
        BY <2>1, <2>2, <3>2, <4>1 DEF CheckedOut
    <3> QED
      BY <3>1, <3>2
  <2>5. Undialled'
    BY <1>2, <2>1, <2>2 DEF CheckOut, Undialled
  <2>6. SentOnce'
    BY <1>2, <2>1, <2>2, NothingSent DEF CheckOut
  <2> QED
    BY <2>4, <2>5, <2>6
<1>3. CASE Connect(c)
  <2>1. PICK k \in Conns : 
          /\ pool[k] = None /\ pool' = [pool EXCEPT ![k] = "out"] /\ tls' = [tls EXCEPT ![k] = c \in Secure]
          /\ open' = [open EXCEPT ![k] = TRUE] /\ got' = [got EXCEPT ![c] = k]
    BY <1>3 DEF Connect
  <2>2. HttpShape'
    BY <1>3, <2>1 DEF Connect
  <2>3. CheckedOut' /\ Undialled'
    BY <1>3, <2>1 DEF Connect, CheckedOut, Undialled
  <2>4. SentOnce'
    BY <1>3, <2>1, NothingSent DEF Connect, Undialled
  <2> QED
    BY <2>2, <2>3, <2>4
<1>4. CASE ConnectFails(c)
  <2>1. HttpShape' /\ CheckedOut' /\ Undialled'
    BY <1>4 DEF ConnectFails, Finish, conns, server, CheckedOut, Undialled
  <2>2. SentOnce'
    BY <1>4, NothingSent DEF ConnectFails, Finish, conns, server
  <2> QED
    BY <2>1, <2>2
<1>5. CASE WriteAll(c)
  <2>1. PICK k \in Conns : k = got[c] /\ pool[k] = "out"
    BY <1>5 DEF WriteAll, CheckedOut
  <2>2. pc' = [pc EXCEPT ![c] = "read"] /\ UNCHANGED <<got, retried, pool, tls, close, open, executed>>
    BY <1>5 DEF WriteAll, conns
  <2>3. CASE ~open[k]
    <3>1. HttpShape' /\ CheckedOut' /\ Undialled'
      BY <1>5, <2>1, <2>2, <2>3 DEF WriteAll, CheckedOut, Undialled
    <3>2. SentOnce'
      BY <1>5, <2>1, <2>2, <2>3, NothingSent DEF WriteAll
    <3> QED
      BY <3>1, <3>2
  <2>4. CASE open[k]
    <3>1. sent' = [sent EXCEPT ![k] = @ \o [i \in 1..Pieces |-> c]]
      BY <1>5, <2>1, <2>4 DEF WriteAll
    <3>2. /\ sent'[k] \in Seq(Calls) /\ Len(sent'[k]) = Len(sent[k]) + Pieces
          /\ \A i \in DOMAIN sent'[k] : sent'[k][i] = IF i <= Len(sent[k]) THEN sent[k][i] ELSE c
          /\ DOMAIN sent'[k] = 1..(Len(sent[k]) + Pieces) /\ DOMAIN sent[k] = 1..Len(sent[k])
          /\ Len(sent[k]) \in Nat
      <4>1. sent'[k] = sent[k] \o [i \in 1..Pieces |-> c]
        BY <3>1
      <4>2. Pieces \in Nat
        BY DEF Pieces
      <4>3. sent[k] \in Seq(Calls)
        OBVIOUS
      <4> QED
        BY <4>1, <4>2, <4>3, Written
    <3>3. \A l \in Conns \ {k} : sent'[l] = sent[l]
      BY <3>1
    <3>4. HttpShape'
      BY <2>2, <3>1, <3>2, <3>3
    <3>5. CheckedOut' /\ Undialled'
      BY <1>5, <2>1, <2>2, <3>3 DEF WriteAll, CheckedOut, Undialled
    <3>6. /\ executed[c] = 0
          /\ \A l \in Conns : open[l] => \A i \in DOMAIN sent[l] : sent[l][i] # c
      BY <1>5, NotYetSent DEF WriteAll
    <3>7. /\ pc'[c] = "read" /\ \A d \in Calls \ {c} : pc'[d] = pc[d]
      BY <2>2
    <3>8. SentOnce'
      BY <2>2, <2>4, <3>2, <3>3, <3>6, <3>7, WholeWrite DEF Pieces
    <3> QED
      BY <3>4, <3>5, <3>8
  <2> QED
    BY <2>3, <2>4
<1>6. CASE WriteFails(c)
  <2>1. PICK k \in Conns : k = got[c] /\ pool[k] = "out"
    BY <1>6 DEF WriteFails, CheckedOut
  <2>2. PICK n \in 0..Pieces - 1 :
          sent' = IF open[k] THEN [sent EXCEPT ![k] = @ \o [i \in 1..n |-> c]] ELSE sent
    BY <1>6, <2>1 DEF WriteFails
  <2>3. /\ sent' \in [Conns -> Seq(Calls)]
        /\ \A l \in Conns \ {k} : sent'[l] = sent[l]
    <3>1. sent[k] \o [i \in 1..n |-> c] \in Seq(Calls)
      BY Written DEF Pieces
    <3> QED
      BY <2>2, <3>1
  <2>4. /\ open' = [open EXCEPT ![k] = FALSE]
        /\ pool' = [pool EXCEPT ![k] = IF ~retried[c] THEN "closed" ELSE "idle"]
        /\ UNCHANGED <<tls, executed>>
    BY <1>6, <2>1 DEF WriteFails, PutBack
  <2>5. /\ pc' \in {[pc EXCEPT ![c] = "get"], [pc EXCEPT ![c] = "done"]}
        /\ got' = [got EXCEPT ![c] = None]
        /\ retried' \in [Calls -> BOOLEAN]
        /\ pc[c] = "write"
    BY <1>6 DEF WriteFails, Finish
  <2>6. HttpShape'
    BY <2>3, <2>4, <2>5
  <2>7. CheckedOut'
    BY <2>1, <2>4, <2>5 DEF CheckedOut
  <2>8. Undialled'
    BY <2>1, <2>3, <2>4 DEF Undialled
  <2>9. SentOnce'
    BY <2>3, <2>4, <2>5, NothingSent
  <2> QED
    BY <2>6, <2>7, <2>8, <2>9
<1>7. CASE Read(c)
  <2>1. HttpShape' /\ CheckedOut' /\ Undialled'
    BY <1>7 DEF Read, conns, CheckedOut, Undialled
  <2>2. SentOnce'
    BY <1>7, NothingSent DEF Read, conns
  <2> QED
    BY <2>1, <2>2
<1>8. CASE ReadDone(c) \/ ReadFails(c)
  <2>1. PICK k \in Conns : k = got[c] /\ pool[k] = "out"
    BY <1>8 DEF ReadDone, ReadFails, CheckedOut
  <2>2. (\E b : PutBack(k, b))
    BY <1>8, <2>1 DEF ReadDone, ReadFails
  <2>3. /\ pool'[k] \in {"closed", "idle"} /\ \A l \in Conns \ {k} : pool'[l] = pool[l]
        /\ pool' \in [Conns -> {None, "idle", "out", "closed"}]
    BY <2>2 DEF PutBack
  <2>4. /\ pc' = [pc EXCEPT ![c] = "done"] /\ got' = [got EXCEPT ![c] = None] /\ pc[c] = "read"
        /\ UNCHANGED <<retried, tls, open, sent, executed>>
    BY <1>8 DEF ReadDone, ReadFails, Finish, server
  <2>5. HttpShape'
    BY <2>3, <2>4
  <2>6. CheckedOut' /\ Undialled'
    BY <2>1, <2>3, <2>4 DEF CheckedOut, Undialled
  <2>7. SentOnce'
    BY <2>4, NothingSent
  <2> QED
    BY <2>5, <2>6, <2>7
<1> QED
  BY <1>1, <1>2, <1>3, <1>4, <1>5, <1>6, <1>7, <1>8 DEF Client

\* The server takes the two pieces at the front of s.
LEMMA Consumed ==
  ASSUME NEW s \in Seq(Calls), Len(s) >= 2, NEW t, t = SubSeq(s, 3, Len(s))
  PROVE  /\ t \in Seq(Calls) /\ Len(t) = Len(s) - 2 /\ Len(s) \in Nat
         /\ DOMAIN s = 1..Len(s) /\ DOMAIN t = 1..(Len(s) - 2)
         /\ \A i \in DOMAIN t : i + 2 \in DOMAIN s /\ t[i] = s[i + 2]
         /\ s[1] \in Calls
<1>1. Len(s) \in Nat /\ DOMAIN s = 1..Len(s) /\ s[1] \in Calls
  OBVIOUS
<1>2. /\ t \in Seq(Calls)
      /\ Len(t) = IF 3 <= Len(s) THEN Len(s) - 3 + 1 ELSE 0
      /\ \A i \in 1..(Len(s) - 3 + 1) : t[i] = s[3 + i - 1]
  BY <1>1, SubSeqProperties
<1>3. Len(t) = Len(s) - 2 /\ DOMAIN t = 1..(Len(s) - 2)
  BY <1>1, <1>2
<1> QED
  BY <1>1, <1>2, <1>3

\* Removing two pieces keeps the parity of the others.
LEMMA Shift ==
  ASSUME NEW i \in Nat, NEW j \in Nat, Paired(i + 2, j + 2) PROVE Paired(i, j)
<1>1. (i + 2) % 2 = i % 2 /\ (j + 2) % 2 = j % 2
  OBVIOUS
<1> QED
  BY <1>1 DEF Paired, Pieces

\* The steps of the server and of the network.
LEMMA ServerKeepsSend ==
  ASSUME SendInv, NEW k \in Conns, Server(k) \/ PeerCloses(k) PROVE SendInv'
<1>1. CASE Execute(k)
  <2>1. /\ open[k] /\ pool[k] # None /\ Len(sent[k]) >= 2 /\ sent[k] \in Seq(Calls)
        /\ sent' = [sent EXCEPT ![k] = SubSeq(sent[k], 3, Len(sent[k]))]
        /\ executed' = [executed EXCEPT ![sent[k][1]] = @ + 1]
        /\ UNCHANGED <<pc, got, retried, pool, tls, open>>
    BY <1>1 DEF Execute, conns, Pieces, SendInv, HttpShape, Undialled
  <2>2. /\ sent'[k] = SubSeq(sent[k], 3, Len(sent[k])) /\ \A l \in Conns \ {k} : sent'[l] = sent[l]
    BY <2>1 DEF SendInv, HttpShape
  <2>3. /\ sent'[k] \in Seq(Calls) /\ Len(sent'[k]) = Len(sent[k]) - 2 /\ Len(sent[k]) \in Nat
        /\ DOMAIN sent[k] = 1..Len(sent[k]) /\ DOMAIN sent'[k] = 1..(Len(sent[k]) - 2)
        /\ \A i \in DOMAIN sent'[k] : i + 2 \in DOMAIN sent[k] /\ sent'[k][i] = sent[k][i + 2]
        /\ sent[k][1] \in Calls
    BY <2>1, <2>2, Consumed
  <2>4. PICK c \in Calls : c = sent[k][1]
    BY <2>3
  <2>5. 1 \in DOMAIN sent[k] /\ executed[c] = 0 /\ pc[c] \in {"read", "done"}
    BY <2>1, <2>3, <2>4 DEF SendInv, SentOnce, SentWhole
  <2>6. executed'[c] = 1 /\ \A d \in Calls \ {c} : executed'[d] = executed[d]
    BY <2>1, <2>4, <2>5 DEF SendInv, HttpShape
  <2>7. ASSUME NEW l \in Conns, open[l], NEW i \in DOMAIN sent'[l]
        PROVE  /\ sent'[l][i] \in Calls \ {c}
               /\ IF l = k THEN i + 2 \in DOMAIN sent[l] /\ sent'[l][i] = sent[l][i + 2]
                           ELSE i \in DOMAIN sent[l] /\ sent'[l][i] = sent[l][i]
               /\ i \in Nat
    <3>1. CASE l = k
      <4>1. i + 2 \in DOMAIN sent[k] /\ sent'[k][i] = sent[k][i + 2] /\ i \in Nat \ {0}
        <5>1. i \in DOMAIN sent'[k] /\ i \in 1..(Len(sent[k]) - 2)
          BY <2>3, <2>7, <3>1, Zenon
        <5>2. i \in Nat \ {0}
          BY <2>3, <5>1
        <5> QED
          BY <2>3, <5>1, <5>2, Zenon
      <4>2. ~Paired(1, i + 2)
        BY <4>1 DEF Paired, Pieces
      <4>3. sent[k][i + 2] # c /\ sent[k][i + 2] \in Calls
        BY <2>1, <2>4, <2>5, <4>1, <4>2 DEF SendInv, SentOnce, SentApart
      <4> QED
        BY <3>1, <4>1, <4>3
    <3>2. CASE l # k
      <4>1. sent'[l] = sent[l] /\ sent[l] \in Seq(Calls)
        BY <2>2, <3>2 DEF SendInv, HttpShape
      <4>2. sent[l][i] # c
        BY <2>1, <2>4, <2>5, <2>7, <3>2, <4>1 DEF SendInv, SentOnce, SentApart
      <4> QED
        BY <2>7, <3>2, <4>1, <4>2
    <3> QED
      BY <3>1, <3>2
  <2>8. SentWhole'
    <3>1. ASSUME NEW l \in Conns, open[l], NEW i \in DOMAIN sent'[l]
          PROVE  executed'[sent'[l][i]] = 0 /\ pc[sent'[l][i]] \in {"read", "done"}
      <4>1. executed[sent'[l][i]] = 0 /\ pc[sent'[l][i]] \in {"read", "done"}
        BY <2>7, <3>1 DEF SendInv, SentOnce, SentWhole
      <4> QED
        BY <2>6, <2>7, <3>1, <4>1
    <3>2. ASSUME NEW l \in Conns, open[l] PROVE Len(sent'[l]) % 2 = 0
      <4>1. CASE l = k
        <5>1. Len(sent[k]) % 2 = 0
          BY <2>1 DEF SendInv, SentOnce, SentWhole, Pieces
        <5>2. (Len(sent[k]) - 2) % 2 = 0
          BY <2>1, <2>3, <5>1, Parity
        <5> QED
          BY <2>3, <4>1, <5>2
      <4>2. CASE l # k
        BY <2>2, <3>2, <4>2 DEF SendInv, SentOnce, SentWhole, Pieces
      <4> QED
        BY <4>1, <4>2
    <3> QED
      BY <2>1, <3>1, <3>2 DEF SentWhole, Pieces
  <2>9. SentApart'
    <3> SUFFICES ASSUME NEW l \in Conns, NEW m \in Conns, open[l], open[m],
                        NEW i \in DOMAIN sent'[l], NEW j \in DOMAIN sent'[m], sent'[l][i] = sent'[m][j]
                 PROVE  l = m /\ Paired(i, j)
      BY <2>1, SMTT(30) DEF SentApart, Paired
    <3>1. l = m
      BY <2>7 DEF SendInv, SentOnce, SentApart
    <3>2. CASE l = k
      <4>1. Paired(i + 2, j + 2)
        BY <2>7, <3>1, <3>2 DEF SendInv, SentOnce, SentApart
      <4> QED
        BY <2>7, <3>1, <4>1, Shift
    <3>3. CASE l # k
      BY <2>7, <3>1, <3>3 DEF SendInv, SentOnce, SentApart
    <3> QED
      BY <3>1, <3>2, <3>3
  <2>10. ExecutedOnce'
    BY <2>1, <2>5, <2>6 DEF SendInv, SentOnce, ExecutedOnce
  <2>11. HttpShape'
    <3>1. sent' \in [Conns -> Seq(Calls)] /\ executed' \in [Calls -> Nat]
      BY <2>1, <2>2, <2>3 DEF SendInv, HttpShape
    <3> QED
      BY <2>1, <3>1 DEF SendInv, HttpShape
  <2>12. CheckedOut' /\ Undialled'
    BY <2>1, <2>2 DEF SendInv, CheckedOut, Undialled, Busy
  <2> QED
    BY <2>8, <2>9, <2>10, <2>11, <2>12 DEF SendInv, SentOnce
<1>2. CASE Deliver(k) \/ PeerCloses(k)
  <2>1. /\ UNCHANGED <<pc, got, retried, pool, tls, sent, executed>>
        /\ open[k] /\ \A l \in Conns : open'[l] => open[l]
        /\ open' \in [Conns -> BOOLEAN]
    BY <1>2 DEF Deliver, PeerCloses, conns, SendInv, HttpShape
  <2>2. HttpShape'
    BY <2>1 DEF SendInv, HttpShape
  <2>3. CheckedOut' /\ Undialled'
    BY <2>1 DEF SendInv, CheckedOut, Undialled, Busy
  <2>4. SentOnce'
    BY <2>1, NothingSent
  <2> QED
    BY <2>2, <2>3, <2>4 DEF SendInv
<1> QED
  BY <1>1, <1>2 DEF Server

\* SendInv is inductive.
LEMMA SendStepInv == SendInv /\ [Next]_vars => SendInv'
<1> SUFFICES ASSUME SendInv, [Next]_vars PROVE SendInv'
  OBVIOUS
<1>1. CASE UNCHANGED vars
  <2>1. HttpShape' /\ CheckedOut' /\ Undialled'
    BY <1>1 DEF vars, conns, server, SendInv, HttpShape, CheckedOut, Undialled, Busy
  <2>2. SentOnce'
    BY <1>1, NothingSent DEF vars, conns, server
  <2> QED
    BY <2>1, <2>2 DEF SendInv
<1> QED
  BY <1>1, ClientKeepsSend, ServerKeepsSend DEF Next

\* What an open connection has of a request is whole and its own, in every
\* reachable state.
THEOREM SendInvariance == Spec => []SendInv
  BY HttpInitInv, SendStepInv, PTL DEF Spec

\* No request is executed twice, for any number of calls and connections and
\* whatever the server answers: what a call writes again was never whole.
THEOREM ExecutedAtMostOnce == Spec => []AtMostOnce
<1>1. SendInv => AtMostOnce
  BY DEF SendInv, SentOnce, ExecutedOnce, AtMostOnce
<1> QED
  BY <1>1, SendInvariance, PTL
-----------------------------------------------------------------------------
(***************************************************************************)
(* Where each connection is in the response it carries.                    *)
(***************************************************************************)
NoHead(s) == \A i \in DOMAIN s : s[i].t # "head"

\* b, w and p are the three parts of r, in order.
Parts(b, w, p, r) ==
  /\ Len(b) + Len(w) + Len(p) = Len(r)
  /\ \A i \in 1..Len(b) : b[i] = r[i]
  /\ \A i \in 1..Len(w) : w[i] = r[Len(b) + i]
  /\ \A i \in 1..Len(p) : p[i] = r[Len(b) + Len(w) + i]

\* At most the body of a response framed by the close is still to come.
Silent(k) ==
  /\ wire[k] = <<>>
  /\ Len(pending[k]) <= 1
  /\ \A i \in DOMAIN pending[k] : pending[k][i].t = "data" /\ pending[k][i].frame = "eof"

Answered(c, k) ==
  /\ sent[k] = <<>>
  /\ \E f \in Framings : Parts(buf[c], wire[k], pending[k], Response(c, f))
                         /\ (f \in {"close", "eof"} => pending[k] # <<>>)

Asked(c, k) == buf[c] = <<>> /\ Silent(k) /\ Len(sent[k]) = Pieces /\ sent[k][1] = c

\* The only head on a closed connection is the one of the call that reads.
OwnHead(c, k) ==
  /\ \A i \in DOMAIN buf[c] : buf[c][i].t = "head" => i = 1 /\ buf[c][i].of = c
  /\ \A i \in DOMAIN wire[k] : wire[k][i].t = "head" => i = 1 /\ buf[c] = <<>> /\ wire[k][i].of = c

Reading(c) ==
  LET k == got[c]
  IN  pc[c] = "read" => IF open[k] THEN Asked(c, k) \/ Answered(c, k) ELSE OwnHead(c, k)

Writing(c) ==
  LET k == got[c]
  IN  pc[c] = "write" =>
        IF open[k] THEN buf[c] = <<>> /\ Silent(k) /\ sent[k] = <<>>
                   ELSE NoHead(buf[c]) /\ NoHead(wire[k])

Resting(k) ==
  /\ pool[k] = "idle" => IF open[k] THEN leftover[k] = <<>> /\ Silent(k) /\ sent[k] = <<>>
                                    ELSE NoHead(leftover[k]) /\ NoHead(wire[k])
  /\ pool[k] = "out" => leftover[k] = <<>>
  /\ pool[k] = None => leftover[k] = <<>> /\ wire[k] = <<>> /\ pending[k] = <<>>

Outcome(c) == /\ answer[c] \in {None, "err", c}
              /\ ~Busy(c) => got[c] = None /\ buf[c] = <<>>

PieceSet == [t : {"head", "data", "end", "bad"}, of : Calls, frame : Framings]
StreamShape == /\ buf \in [Calls -> Seq(PieceSet)] /\ leftover \in [Conns -> Seq(PieceSet)]
               /\ wire \in [Conns -> Seq(PieceSet)] /\ pending \in [Conns -> Seq(PieceSet)]
               /\ answer \in [Calls -> Calls \cup {"err", None}]

StreamInv == /\ StreamShape
             /\ \A c \in Calls : Reading(c) /\ Writing(c) /\ Outcome(c)
             /\ \A k \in Conns : Resting(k)

\* A head with no, one or two pieces behind it.
LEMMA Joined ==
  ASSUME NEW S, NEW x \in S, NEW y \in S, NEW z \in S
  PROVE  /\ LET r == <<x>> \o <<>> IN r \in Seq(S) /\ Len(r) = 1 /\ r[1] = x
         /\ LET r == <<x>> \o <<y>> IN r \in Seq(S) /\ Len(r) = 2 /\ r[1] = x /\ r[2] = y
         /\ LET r == <<x>> \o <<y, z>>
            IN  r \in Seq(S) /\ Len(r) = 3 /\ r[1] = x /\ r[2] = y /\ r[3] = z
<1>1. /\ <<x>> \in Seq(S) /\ Len(<<x>>) = 1 /\ <<x>>[1] = x
      /\ <<>> \in Seq(S) /\ Len(<<>>) = 0
      /\ <<y>> \in Seq(S) /\ Len(<<y>>) = 1 /\ <<y>>[1] = y
      /\ <<y, z>> \in Seq(S) /\ Len(<<y, z>>) = 2 /\ <<y, z>>[1] = y /\ <<y, z>>[2] = z
  OBVIOUS
<1>2. ASSUME NEW u \in Seq(S), NEW v \in Seq(S), Len(u) = 1
      PROVE  /\ u \o v \in Seq(S) /\ Len(u \o v) = 1 + Len(v) /\ (u \o v)[1] = u[1]
             /\ \A i \in 1..Len(v) : (u \o v)[1 + i] = v[i]
  <2>1. /\ u \o v \in Seq(S) /\ Len(u \o v) = Len(u) + Len(v)
        /\ \A i \in 1..Len(u) + Len(v) : (u \o v)[i] = IF i <= Len(u) THEN u[i] ELSE v[i - Len(u)]
    BY ConcatProperties
  <2>2. Len(v) \in Nat
    OBVIOUS
  <2> QED
    BY <1>2, <2>1, <2>2
<1>3. LET r == <<x>> \o <<>> IN r \in Seq(S) /\ Len(r) = 1 /\ r[1] = x
  BY <1>1, <1>2
<1>4. LET r == <<x>> \o <<y>> IN r \in Seq(S) /\ Len(r) = 2 /\ r[1] = x /\ r[2] = y
  BY <1>1, <1>2
<1>5. LET r == <<x>> \o <<y, z>>
      IN  r \in Seq(S) /\ Len(r) = 3 /\ r[1] = x /\ r[2] = y /\ r[3] = z
  BY <1>1, <1>2
<1> QED
  BY <1>3, <1>4, <1>5

\* The pieces of a response whose framing parses.
LEMMA ResponseShape ==
  ASSUME "bad" \notin Framings, NEW c \in Calls, NEW f \in Framings
  PROVE  /\ Response(c, f) \in Seq(PieceSet)
         /\ Response(c, f)[1].t = "head" /\ Response(c, f)[1].of = c
         /\ \A i \in 1..Len(Response(c, f)) :
              /\ Response(c, f)[i].frame = f /\ Response(c, f)[i].t \in {"head", "data", "end"}
              /\ Response(c, f)[i].t = "head" <=> i = 1
              /\ Response(c, f)[i].t = "end" <=> i = 3
         /\ Len(Response(c, f)) = CASE f = "empty" -> 1 [] f = "chunked" -> 3 [] OTHER -> 2
<1> DEFINE p(t) == [t |-> t, of |-> c, frame |-> f]
<1>1. PICK h, d, e :
        /\ h = p("head") /\ d = p("data") /\ e = p("end")
        /\ h \in PieceSet /\ h.t = "head" /\ h.of = c /\ h.frame = f
        /\ d \in PieceSet /\ d.t = "data" /\ d.frame = f
        /\ e \in PieceSet /\ e.t = "end" /\ e.frame = f
  <2>1. /\ p("head") \in PieceSet /\ p("head").t = "head" /\ p("head").of = c /\ p("head").frame = f
    BY DEF PieceSet
  <2>2. /\ p("data") \in PieceSet /\ p("data").t = "data" /\ p("data").frame = f
    BY DEF PieceSet
  <2>3. /\ p("end") \in PieceSet /\ p("end").t = "end" /\ p("end").frame = f
    BY DEF PieceSet
  <2> HIDE DEF p
  <2> QED
    BY <2>1, <2>2, <2>3
<1>2. PICK r : r = Response(c, f)
  OBVIOUS
<1>3. CASE f = "empty"
  <2>1. r = <<h>> \o <<>>
    BY <1>1, <1>2, <1>3 DEF Response
  <2>2. r \in Seq(PieceSet) /\ Len(r) = 1 /\ r[1] = h
    BY <1>1, <2>1, Joined
  <2> QED
    BY <1>1, <1>2, <1>3, <2>2
<1>4. CASE f \in {"length", "close", "eof"}
  <2>1. r = <<h>> \o <<d>>
    BY <1>1, <1>2, <1>4 DEF Response
  <2>2. r \in Seq(PieceSet) /\ Len(r) = 2 /\ r[1] = h /\ r[2] = d
    BY <1>1, <2>1, Joined
  <2> QED
    BY <1>1, <1>2, <1>4, <2>2
<1>5. CASE f = "chunked"
  <2>1. r = <<h>> \o <<d, e>>
    BY <1>1, <1>2, <1>5 DEF Response
  <2>2. r \in Seq(PieceSet) /\ Len(r) = 3 /\ r[1] = h /\ r[2] = d /\ r[3] = e
    BY <1>1, <2>1, Joined
  <2> QED
    BY <1>1, <1>2, <1>5, <2>2
<1> QED
  BY <1>3, <1>4, <1>5, FramingsType

\* The frame of a piece that has arrived is one the server uses.
LEMMA PieceFrames ==
  ASSUME "bad" \notin Framings, NEW x \in PieceSet
  PROVE  x.frame \in {"length", "chunked", "close", "eof", "empty"}
  BY FramingsType DEF PieceSet

\* A set of numbers has a least one.
LEMMA Least == ASSUME NEW E \in SUBSET Nat, E # {} PROVE \E i \in E : \A j \in E : i <= j
<1>1. \E x \in E : \A y \in E : <<y, x>> \notin OpToRel(<, Nat)
  BY WFMin, NatLessThanWellFounded, Zenon
<1>2. \A x, y \in Nat : <<y, x>> \notin OpToRel(<, Nat) => x <= y
  BY DEF OpToRel
<1> QED
  BY <1>1, <1>2, Zenon

\* A parsed response begins with its head, and takes it.
LEMMA ParseTakes ==
  ASSUME "bad" \notin Framings, NEW b \in Seq(PieceSet), NEW e \in BOOLEAN,
         Parse(b, e).is = "response"
  PROVE  /\ Len(b) >= 1 /\ b[1].t = "head"
         /\ \E n \in 1..Len(b) : Parse(b, e) = Took(b, n)
<1>1. Blank(b) # {}
  BY DEF Parse
<1>2. Len(b) \in Nat /\ Len(b) >= 1 /\ b[1] \in PieceSet
  BY <1>1 DEF Blank
<1>3. b[1].t = "head"
  BY <1>1 DEF Parse
<1>4. b[1].frame \in {"length", "chunked", "close", "eof", "empty"}
  BY <1>2, PieceFrames
<1>5. CASE b[1].frame \in {"empty", "eof"}
  <2>1. Parse(b, e) = Took(b, 1)
    BY <1>1, <1>3, <1>5 DEF Parse
  <2> QED
    BY <1>2, <1>3, <2>1
<1>6. CASE b[1].frame = "length"
  <2>1. Parse(b, e) = Took(b, 2) /\ Len(b) >= 2
    BY <1>1, <1>3, <1>6 DEF Parse
  <2> QED
    BY <1>2, <1>3, <2>1
<1>7. CASE b[1].frame = "close"
  <2>1. Parse(b, e) = Took(b, Len(b))
    BY <1>1, <1>3, <1>7 DEF Parse
  <2> QED
    BY <1>2, <1>3, <2>1
<1>8. CASE b[1].frame = "chunked"
  <2> DEFINE First(i) == b[i].t = "end" /\ \A j \in 2..i - 1 : b[j].t # "end"
  <2>1. \E i \in 2..Len(b) : b[i].t = "end"
    BY <1>1, <1>3, <1>8 DEF Parse
  <2>2. Parse(b, e) = Took(b, CHOOSE i \in 2..Len(b) : First(i))
    BY <1>1, <1>3, <1>8 DEF Parse
  <2>3. \E i \in 2..Len(b) : First(i)
    <3> DEFINE E == {i \in Nat : i \in 2..Len(b) /\ b[i].t = "end"}
    <3>1. E # {} /\ E \subseteq Nat
      BY <1>2, <2>1
    <3>2. \E i \in E : \A j \in E : i <= j
      BY <3>1, Least
    <3> QED
      BY <3>2
  <2>4. (CHOOSE i \in 2..Len(b) : First(i)) \in 1..Len(b)
    BY <1>2, <2>3
  <2> QED
    BY <1>2, <1>3, <2>2, <2>4
<1> QED
  BY <1>4, <1>5, <1>6, <1>7, <1>8

\* The fields of a parsed response.
LEMMA TookFields ==
  ASSUME NEW b, NEW n
  PROVE  Took(b, n).of = b[1].of /\ Took(b, n).n = n /\ Took(b, n).close = (b[1].frame = "close")
  BY DEF Took

-----------------------------------------------------------------------------
(***************************************************************************)
(* One call and one connection at a time.                                  *)
(***************************************************************************)
SameCall(d) == pc'[d] = pc[d] /\ got'[d] = got[d] /\ buf'[d] = buf[d] /\ answer'[d] = answer[d]
SameConn(l) ==
  /\ pool'[l] = pool[l] /\ leftover'[l] = leftover[l] /\ open'[l] = open[l]
  /\ wire'[l] = wire[l] /\ pending'[l] = pending[l] /\ sent'[l] = sent[l]

CallOK(d) == Reading(d) /\ Writing(d) /\ Outcome(d)

\* A call is not concerned when neither it nor its connection changes.
LEMMA CallAlone ==
  ASSUME NEW d \in Calls, CallOK(d), SameCall(d), Busy(d) => SameConn(got[d])
  PROVE  CallOK(d)'
<1>1. Outcome(d)'
  BY DEF CallOK, SameCall, Outcome, Busy
<1>2. Writing(d)'
  BY DEF CallOK, SameCall, SameConn, Writing, Busy, NoHead, Silent
<1>3. Reading(d)'
  BY DEF CallOK, SameCall, SameConn, Reading, Busy, Asked, Answered, OwnHead, Silent
<1> QED
  BY <1>1, <1>2, <1>3 DEF CallOK

\* A connection is not concerned when nothing about it changes.
LEMMA ConnAlone ==
  ASSUME NEW l \in Conns, Resting(l), SameConn(l) PROVE Resting(l)'
  BY DEF Resting, SameConn, NoHead, Silent

\* What a step about connection k has to show.
LEMMA AboutOne ==
  ASSUME StreamInv, CheckedOut, NEW k \in Conns, StreamShape', Resting(k)',
         \A l \in Conns \ {k} : SameConn(l),
         \A d \in Calls : (SameCall(d) /\ (Busy(d) => got[d] # k)) \/ CallOK(d)'
  PROVE  StreamInv'
<1>1. \A l \in Conns : Resting(l)'
  BY ConnAlone DEF StreamInv
<1>2. ASSUME NEW d \in Calls, SameCall(d), Busy(d) => got[d] # k PROVE CallOK(d)'
  <2>1. CallOK(d)
    BY DEF StreamInv, CallOK
  <2>2. Busy(d) => SameConn(got[d])
    BY <1>2 DEF CheckedOut
  <2> QED
    BY <1>2, <2>1, <2>2, CallAlone
<1>3. \A d \in Calls : CallOK(d)'
  BY <1>2
<1> QED
  BY <1>1, <1>3 DEF StreamInv, CallOK

\* The head of a response is nowhere but at its front.
LEMMA PartsHead ==
  ASSUME "bad" \notin Framings, NEW c \in Calls, NEW f \in Framings,
         NEW b \in Seq(PieceSet), NEW w \in Seq(PieceSet), NEW p \in Seq(PieceSet),
         Parts(b, w, p, Response(c, f))
  PROVE  /\ \A i \in DOMAIN b : b[i].t = "head" => i = 1 /\ b[i].of = c
         /\ \A i \in DOMAIN w : w[i].t = "head" => i = 1 /\ b = <<>> /\ w[i].of = c
<1>1. PICK r : r = Response(c, f)
  OBVIOUS
<1>2. /\ r[1].of = c /\ Len(r) \in Nat
      /\ \A i \in 1..Len(r) : r[i].t = "head" <=> i = 1
  BY <1>1, ResponseShape
<1>3. /\ Len(b) \in Nat /\ Len(w) \in Nat /\ Len(p) \in Nat /\ Len(b) + Len(w) + Len(p) = Len(r)
      /\ DOMAIN b = 1..Len(b) /\ DOMAIN w = 1..Len(w)
      /\ \A i \in 1..Len(b) : b[i] = r[i]
      /\ \A i \in 1..Len(w) : w[i] = r[Len(b) + i]
  BY <1>1 DEF Parts
<1>4. \A i \in DOMAIN b : b[i].t = "head" => i = 1 /\ b[i].of = c
  BY <1>2, <1>3
<1>5. ASSUME NEW i \in DOMAIN w, w[i].t = "head" PROVE i = 1 /\ b = <<>> /\ w[i].of = c
  <2>1. Len(b) + i \in 1..Len(r) /\ r[Len(b) + i].t = "head"
    BY <1>3, <1>5
  <2>2. Len(b) + i = 1
    BY <1>2, <2>1
  <2>3. Len(b) = 0 /\ i = 1
    BY <1>3, <2>2
  <2> QED
    BY <1>2, <1>3, <2>3
<1> QED
  BY <1>4, <1>5

\* When the server closes, the only head left is the reader's own.
LEMMA ClosedKeepsHead ==
  ASSUME "bad" \notin Framings, StreamShape, NEW c \in Calls, NEW k \in Conns,
         Asked(c, k) \/ Answered(c, k)
  PROVE  OwnHead(c, k)
<1>1. CASE Asked(c, k)
  BY <1>1 DEF Asked, Silent, OwnHead
<1>2. CASE Answered(c, k)
  BY <1>2, PartsHead DEF Answered, OwnHead, StreamShape
<1> QED
  BY <1>1, <1>2

\* With v parsed from b, w arrived and p to come: all of the response is in b,
\* or all but the body that ends with the connection.
AllRead(v, b, w, p) ==
  /\ w = <<>> /\ Len(p) <= 1
  /\ \A i \in DOMAIN p : p[i].t = "data" /\ p[i].frame = "eof"
  /\ v.close = FALSE /\ SubSeq(b, v.n + 1, Len(b)) = <<>>

\* How far a response that parses before the end of file has arrived: all of
\* it is in the buffer, or all but the body that ends with the connection.
LEMMA Whole ==
  ASSUME "bad" \notin Framings, NEW c \in Calls, NEW f \in Framings, NEW e \in BOOLEAN, ~e,
         NEW b \in Seq(PieceSet), NEW w \in Seq(PieceSet), NEW p \in Seq(PieceSet),
         Parts(b, w, p, Response(c, f)), f \in {"close", "eof"} => p # <<>>,
         Parse(b, e).is = "response"
  PROVE  AllRead(Parse(b, e), b, w, p)
<1> SUFFICES /\ w = <<>> /\ Len(p) <= 1
             /\ \A i \in DOMAIN p : p[i].t = "data" /\ p[i].frame = "eof"
             /\ Parse(b, e).close = FALSE
             /\ SubSeq(b, Parse(b, e).n + 1, Len(b)) = <<>>
  BY DEF AllRead
<1>1. PICK r : r = Response(c, f)
  OBVIOUS
<1>2. /\ Len(r) = CASE f = "empty" -> 1 [] f = "chunked" -> 3 [] OTHER -> 2
      /\ \A i \in 1..Len(r) : r[i].frame = f /\ r[i].t \in {"head", "data", "end"}
      /\ \A i \in 1..Len(r) : r[i].t = "end" <=> i = 3
      /\ \A i \in 1..Len(r) : r[i].t = "head" <=> i = 1
  BY <1>1, ResponseShape
<1>3. PICK nr \in Nat : nr = Len(r) /\ nr = CASE f = "empty" -> 1 [] f = "chunked" -> 3 [] OTHER -> 2
  BY <1>2
<1>4. PICK nb \in Nat, nw \in Nat, np \in Nat : nb = Len(b) /\ nw = Len(w) /\ np = Len(p)
  OBVIOUS
<1>5. nb + nw + np = nr /\ DOMAIN p = 1..np
  BY <1>1, <1>3, <1>4 DEF Parts
<1>6. \A i \in 1..nb : b[i] = r[i]
  BY <1>1, <1>4 DEF Parts
<1>7. \A i \in 1..np : p[i] = r[nb + nw + i]
  BY <1>1, <1>4 DEF Parts
<1>10. Len(b) >= 1 /\ b[1].t = "head" /\ \E n \in 1..Len(b) : Parse(b, e) = Took(b, n)
  BY ParseTakes
<1>11. PICK n \in 1..nb : Parse(b, e) = Took(b, n)
  BY <1>4, <1>10
<1>12. nb >= 1 /\ b[1].t = "head"
  BY <1>4, <1>10
<1>13. f \in {"length", "chunked", "close", "eof", "empty"}
  BY FramingsType
<1>14. b[1].frame = f
  <2>1. 1 \in 1..nb /\ 1 \in 1..nr
    BY <1>5, <1>12
  <2> QED
    BY <1>2, <1>3, <1>6, <2>1
<1>15. Blank(b) # {}
  <2>1. 1 \in DOMAIN b
    BY <1>4, <1>12
  <2> QED
    BY <1>12, <2>1 DEF Blank
<1>16. f # "close"
  BY <1>12, <1>14, <1>15 DEF Parse
<1>17. Parse(b, e).close = FALSE /\ Parse(b, e).n = n
  <2>1. Took(b, n).close = FALSE /\ Took(b, n).n = n
    BY <1>14, <1>16, TookFields
  <2> QED
    BY <1>11, <2>1
<1>0. ASSUME n = nb, nw = 0
      PROVE  w = <<>> /\ SubSeq(b, Parse(b, e).n + 1, Len(b)) = <<>>
  <2>1. w = <<>>
    BY <1>0, <1>4, EmptySeq
  <2>2. n + 1 \in Int /\ Len(b) \in Int /\ n + 1 > Len(b)
    BY <1>0, <1>4
  <2>3. SubSeq(b, n + 1, Len(b)) = <<>>
    BY <2>2, SubSeqEmpty
  <2> QED
    BY <1>17, <2>1, <2>3
<1>18. CASE f = "empty"
  <2>1. n = nb /\ nw = 0 /\ np = 0
    BY <1>3, <1>5, <1>12, <1>18
  <2>2. Len(p) <= 1 /\ DOMAIN p = {}
    BY <1>4, <1>5, <2>1
  <2> QED
    BY <1>0, <1>17, <2>1, <2>2
<1>19. CASE f = "eof"
  <2>1. np # 0
    BY <1>4, <1>19
  <2>2. n = nb /\ nb = 1 /\ nw = 0 /\ np = 1 /\ nr = 2
    BY <1>3, <1>5, <1>12, <1>19, <2>1
  <2>3. r[2].t = "data" /\ r[2].frame = "eof"
    BY <1>2, <1>3, <1>19, <2>2
  <2>4. \A i \in DOMAIN p : p[i] = r[2]
    BY <1>5, <1>7, <2>2
  <2>5. Len(p) <= 1
    BY <1>4, <2>2
  <2> QED
    BY <1>0, <1>17, <2>2, <2>3, <2>4, <2>5
<1>20. CASE f = "length"
  <2>1. Parse(b, e) = Took(b, 2) /\ Len(b) >= 2
    BY <1>12, <1>14, <1>15, <1>20 DEF Parse
  <2>2. n = 2
    <3>1. Took(b, 2).n = 2
      BY TookFields
    <3> QED
      BY <1>17, <2>1, <3>1
  <2>3. n = nb /\ nw = 0 /\ np = 0
    BY <1>3, <1>4, <1>5, <1>20, <2>1, <2>2
  <2>4. Len(p) <= 1 /\ DOMAIN p = {}
    BY <1>4, <1>5, <2>3
  <2> QED
    BY <1>0, <1>17, <2>3, <2>4
<1>21. CASE f = "chunked"
  <2> DEFINE First(i) == b[i].t = "end" /\ \A j \in 2..i - 1 : b[j].t # "end"
  <2>1. /\ \E i \in 2..Len(b) : b[i].t = "end"
        /\ Parse(b, e) = Took(b, CHOOSE i \in 2..Len(b) : First(i))
    BY <1>12, <1>14, <1>15, <1>21 DEF Parse
  <2>2. nr = 3
    BY <1>3, <1>21
  <2>3. \A i \in 1..nb : b[i].t = "end" <=> i = 3
    BY <1>2, <1>3, <1>5, <1>6, <2>2, SMTT(30)
  <2>4. nb = 3
    BY <1>4, <1>5, <2>1, <2>2, <2>3
  <2>5. First(3) /\ \A i \in 2..3 : First(i) => i = 3
    BY <2>3, <2>4
  <2>6. (CHOOSE i \in 2..Len(b) : First(i)) = 3
    <3> HIDE DEF First
    <3> QED
      BY <1>4, <2>4, <2>5
  <2>7. n = 3
    <3>1. Parse(b, e) = Took(b, 3)
      BY <2>1, <2>6
    <3>2. Took(b, 3).n = 3
      BY TookFields
    <3> QED
      BY <1>17, <3>1, <3>2
  <2>8. n = nb /\ nw = 0 /\ np = 0
    BY <1>5, <2>2, <2>4, <2>7
  <2>9. Len(p) <= 1 /\ DOMAIN p = {}
    BY <1>4, <1>5, <2>8
  <2> QED
    BY <1>0, <1>17, <2>8, <2>9
<1> QED
  BY <1>13, <1>16, <1>18, <1>19, <1>20, <1>21

\* Where a response that parses on an open connection leaves it.
LEMMA Complete ==
  ASSUME "bad" \notin Framings, StreamShape, NEW c \in Calls, NEW k \in Conns,
         Asked(c, k) \/ Answered(c, k), Parse(buf[c], FALSE).is = "response"
  PROVE  /\ sent[k] = <<>> /\ Silent(k) /\ Parse(buf[c], FALSE).close = FALSE
         /\ SubSeq(buf[c], Parse(buf[c], FALSE).n + 1, Len(buf[c])) = <<>>
<1>1. PICK b \in Seq(PieceSet), w \in Seq(PieceSet), p \in Seq(PieceSet) :
        b = buf[c] /\ w = wire[k] /\ p = pending[k]
  BY DEF StreamShape
<1>2. PICK e \in BOOLEAN : e = FALSE
  OBVIOUS
<1>3. Parse(b, e).is = "response"
  BY <1>1, <1>2
<1>4. ~Asked(c, k)
  <2>1. Len(b) >= 1
    BY <1>3, ParseTakes
  <2> QED
    BY <1>1, <2>1 DEF Asked
<1>5. sent[k] = <<>>
  BY <1>4 DEF Answered
<1>6. PICK f \in Framings : Parts(b, w, p, Response(c, f)) /\ (f \in {"close", "eof"} => p # <<>>)
  BY <1>1, <1>4 DEF Answered
<1>7. AllRead(Parse(b, e), b, w, p)
  BY <1>2, <1>3, <1>6, Whole
<1>8. Silent(k)
  BY <1>1, <1>7 DEF AllRead, Silent
<1> QED
  BY <1>1, <1>2, <1>5, <1>7, <1>8 DEF AllRead

\* On an open connection a response that is not complete is waited for.
LEMMA NotAnError ==
  ASSUME "bad" \notin Framings, StreamShape, NEW c \in Calls, NEW k \in Conns,
         Asked(c, k) \/ Answered(c, k)
  PROVE  Parse(buf[c], FALSE).is # "error"
<1> DEFINE b == buf[c]
<1>1. b \in Seq(PieceSet) /\ Len(b) \in Nat
  BY DEF StreamShape
<1>2. CASE Blank(b) = {}
  BY <1>2 DEF Parse
<1>3. CASE Blank(b) # {}
  <2>1. b # <<>> /\ Len(b) >= 1
    BY <1>1, <1>3 DEF Blank
  <2>2. PICK f \in Framings : Parts(b, wire[k], pending[k], Response(c, f))
    BY <2>1 DEF Asked, Answered
  <2>3. PICK r : r = Response(c, f)
    OBVIOUS
  <2>4. /\ Len(r) \in Nat /\ r[1].t = "head"
        /\ \A i \in 1..Len(r) : r[i].frame = f /\ r[i].t \in {"head", "data", "end"}
    BY <2>3, ResponseShape
  <2>5. Len(b) <= Len(r) /\ \A i \in 1..Len(b) : b[i] = r[i]
    BY <1>1, <2>2, <2>3, <2>4 DEF Parts, StreamShape
  <2>6. b[1].t = "head" /\ b[1].frame = f /\ \A i \in 1..Len(b) : b[i].t # "bad"
    BY <1>1, <2>1, <2>4, <2>5
  <2>7. f \in {"length", "chunked", "close", "eof", "empty"}
    BY FramingsType
  <2>8. \A i \in 2..Len(b) : b[i].t # "bad"
    BY <1>1, <2>6
  <2> QED
    BY <1>3, <2>6, <2>7, <2>8 DEF Parse, Took
<1> QED
  BY <1>2, <1>3
-----------------------------------------------------------------------------
(***************************************************************************)
(* Every step leaves every connection where a later call can use it.       *)
(***************************************************************************)
\* A call that has no connection and returns nothing of another's.
LEMMA AtRest ==
  ASSUME NEW c \in Calls, pc'[c] \notin {"write", "read"}, answer'[c] \in {None, "err", c},
         got'[c] = None, buf'[c] = <<>>
  PROVE  CallOK(c)'
  BY DEF CallOK, Reading, Writing, Outcome, Busy

\* What a step about no connection has to show.
LEMMA AboutNone ==
  ASSUME StreamInv, CheckedOut, StreamShape', \A l \in Conns : SameConn(l),
         \A d \in Calls : SameCall(d) \/ CallOK(d)'
  PROVE  StreamInv'
<1>1. \A l \in Conns : Resting(l)'
  BY ConnAlone DEF StreamInv
<1>2. ASSUME NEW d \in Calls, SameCall(d) PROVE CallOK(d)'
  <2>1. CallOK(d)
    BY DEF StreamInv, CallOK
  <2>2. Busy(d) => SameConn(got[d])
    BY DEF CheckedOut
  <2> QED
    BY <1>2, <2>1, <2>2, CallAlone
<1>3. \A d \in Calls : CallOK(d)'
  BY <1>2
<1> QED
  BY <1>1, <1>3 DEF StreamInv, CallOK

\* Admission, and a connect that fails: nothing about a connection.
LEMMA QuietKeepsStream ==
  ASSUME SendInv, StreamInv, NEW c \in Calls, Acquire(c) \/ ConnectFails(c)
  PROVE  StreamInv'
<1>1. CheckedOut /\ HttpShape /\ StreamShape /\ ~Busy(c)
  BY DEF SendInv, StreamInv, Acquire, ConnectFails, Busy
<1>2. got[c] = None /\ buf[c] = <<>> /\ answer[c] \in {None, "err", c}
  BY <1>1 DEF StreamInv, Outcome
<1>3. \A l \in Conns : SameConn(l)
  BY DEF SameConn, Acquire, ConnectFails, Finish, conns, server
<1>4. StreamShape'
  <2>1. <<>> \in Seq(PieceSet)
    OBVIOUS
  <2> QED
    BY <1>1, <2>1 DEF StreamShape, Acquire, ConnectFails, Finish, conns, server
<1>5. \A d \in Calls \ {c} : SameCall(d)
  BY <1>1 DEF SameCall, HttpShape, StreamShape, Acquire, ConnectFails, Finish, Go
<1>6. CallOK(c)'
  <2>1. pc'[c] \notin {"write", "read"} /\ answer'[c] \in {None, "err", c} /\ got'[c] = None /\ buf'[c] = <<>>
    BY <1>1, <1>2 DEF HttpShape, StreamShape, Acquire, ConnectFails, Finish, Go
  <2> QED
    BY <2>1, AtRest
<1> QED
  BY <1>1, <1>3, <1>4, <1>5, <1>6, AboutNone

\* pool.get() hands out what is_valid passes: silent, or closed with no head
\* on it.
LEMMA CheckOutKeepsStream ==
  ASSUME SendInv, StreamInv, NEW c \in Calls, CheckOut(c)
  PROVE  StreamInv'
<1>1. CheckedOut /\ HttpShape /\ StreamShape /\ ~Busy(c)
  BY DEF SendInv, StreamInv, CheckOut, Busy
<1>2. got[c] = None /\ buf[c] = <<>> /\ answer[c] \in {None, "err", c}
  BY <1>1 DEF StreamInv, Outcome
<1>3. PICK k \in Idle(c) :
       IF IsValid(k)
       THEN /\ pool' = [pool EXCEPT ![k] = "out"] /\ got' = [got EXCEPT ![c] = k]
            /\ buf' = [buf EXCEPT ![c] = leftover[k]] /\ leftover' = [leftover EXCEPT ![k] = <<>>]
            /\ Go(c, "write")
            /\ UNCHANGED <<tls, close, open>>
       ELSE /\ pool' = [pool EXCEPT ![k] = "closed"] /\ open' = [open EXCEPT ![k] = FALSE]
            /\ UNCHANGED <<tls, close, leftover, got, buf, pc>>
  BY DEF CheckOut
<1>4. k \in Conns /\ pool[k] = "idle" /\ UNCHANGED <<answer, sent, pending, wire>>
  BY DEF Idle, CheckOut
<1>5. \A d \in Calls : Busy(d) => got[d] # k
  BY <1>1, <1>4 DEF CheckedOut
<1>6. Resting(k)
  BY <1>4 DEF StreamInv
<1>7. CASE IsValid(k)
  <2>1. /\ pool' = [pool EXCEPT ![k] = "out"] /\ got' = [got EXCEPT ![c] = k]
        /\ buf' = [buf EXCEPT ![c] = leftover[k]] /\ leftover' = [leftover EXCEPT ![k] = <<>>]
        /\ pc' = [pc EXCEPT ![c] = "write"] /\ open' = open
    BY <1>3, <1>7 DEF Go
  <2>2. \A l \in Conns \ {k} : SameConn(l)
    BY <1>1, <1>4, <2>1 DEF SameConn, HttpShape, StreamShape
  <2>3. StreamShape'
    <3>1. <<>> \in Seq(PieceSet)
      OBVIOUS
    <3> QED
      BY <1>1, <1>4, <2>1, <3>1 DEF StreamShape
  <2>4. \A d \in Calls \ {c} : SameCall(d)
    BY <1>1, <1>4, <2>1 DEF SameCall, HttpShape, StreamShape
  <2>5. /\ pool'[k] = "out" /\ leftover'[k] = <<>> /\ pc'[c] = "write" /\ got'[c] = k
        /\ buf'[c] = leftover[k] /\ answer'[c] = answer[c] /\ open'[k] = open[k]
        /\ wire'[k] = wire[k] /\ pending'[k] = pending[k] /\ sent'[k] = sent[k]
    BY <1>1, <1>4, <2>1 DEF HttpShape, StreamShape
  <2>6. Resting(k)'
    BY <2>5, NoneIsNone DEF Resting
  <2>7. Writing(c)'
    BY <1>4, <1>6, <2>5 DEF Resting, Writing, Silent, NoHead
  <2>8. Reading(c)' /\ Outcome(c)'
    BY <1>2, <2>5 DEF Reading, Outcome, Busy
  <2> QED
    BY <1>1, <1>4, <1>5, <2>2, <2>3, <2>4, <2>6, <2>7, <2>8, AboutOne DEF CallOK
<1>8. CASE ~IsValid(k)
  <2>1. /\ pool' = [pool EXCEPT ![k] = "closed"] /\ open' = [open EXCEPT ![k] = FALSE]
        /\ UNCHANGED <<leftover, got, buf, pc>>
    BY <1>3, <1>8
  <2>2. \A l \in Conns \ {k} : SameConn(l)
    BY <1>1, <1>4, <2>1 DEF SameConn, HttpShape, StreamShape
  <2>3. StreamShape'
    BY <1>1, <1>4, <2>1 DEF StreamShape
  <2>4. \A d \in Calls : SameCall(d)
    BY <1>4, <2>1 DEF SameCall
  <2>5. Resting(k)'
    BY <1>1, <1>4, <2>1, NoneIsNone DEF Resting, HttpShape
  <2> QED
    BY <1>1, <1>4, <1>5, <2>2, <2>3, <2>4, <2>5, AboutOne
<1> QED
  BY <1>7, <1>8

\* A new connection has nothing on it.
LEMMA ConnectKeepsStream ==
  ASSUME SendInv, StreamInv, NEW c \in Calls, Connect(c)
  PROVE  StreamInv'
<1>1. CheckedOut /\ HttpShape /\ StreamShape /\ Undialled /\ ~Busy(c)
  BY DEF SendInv, StreamInv, Connect, Busy
<1>2. got[c] = None /\ buf[c] = <<>> /\ answer[c] \in {None, "err", c}
  BY <1>1 DEF StreamInv, Outcome
<1>3. PICK k \in Conns :
        /\ pool[k] = None /\ pool' = [pool EXCEPT ![k] = "out"]
        /\ open' = [open EXCEPT ![k] = TRUE] /\ got' = [got EXCEPT ![c] = k]
  BY DEF Connect
<1>4. /\ UNCHANGED <<answer, sent, pending, wire, buf, leftover>>
      /\ pc' = [pc EXCEPT ![c] = "write"]
  BY DEF Connect, Go
<1>5. \A d \in Calls : Busy(d) => got[d] # k
  BY <1>1, <1>3, NoneIsNone DEF CheckedOut
<1>6. leftover[k] = <<>> /\ wire[k] = <<>> /\ pending[k] = <<>> /\ sent[k] = <<>>
  BY <1>1, <1>3 DEF StreamInv, Resting, Undialled
<1>7. \A l \in Conns \ {k} : SameConn(l)
  BY <1>1, <1>3, <1>4 DEF SameConn, HttpShape
<1>8. StreamShape'
  BY <1>1, <1>4 DEF StreamShape
<1>9. \A d \in Calls \ {c} : SameCall(d)
  BY <1>1, <1>3, <1>4 DEF SameCall, HttpShape
<1>10. /\ pool'[k] = "out" /\ pc'[c] = "write" /\ got'[c] = k /\ open'[k]
       /\ buf'[c] = <<>> /\ answer'[c] = answer[c] /\ leftover'[k] = <<>>
       /\ wire'[k] = <<>> /\ pending'[k] = <<>> /\ sent'[k] = <<>>
  BY <1>1, <1>2, <1>3, <1>4, <1>6 DEF HttpShape
<1>11. Resting(k)'
  BY <1>10, NoneIsNone DEF Resting
<1>12. Writing(c)'
  BY <1>10 DEF Writing, Silent
<1>13. Reading(c)' /\ Outcome(c)'
  BY <1>2, <1>10 DEF Reading, Outcome, Busy
<1> QED
  BY <1>1, <1>3, <1>5, <1>7, <1>8, <1>9, <1>11, <1>12, <1>13, AboutOne DEF CallOK
\* What a busy call has: a connection of its own, with nothing left over.
LEMMA Has ==
  ASSUME SendInv, StreamInv, NEW c \in Calls, Busy(c)
  PROVE  /\ CheckedOut /\ HttpShape /\ StreamShape
         /\ got[c] \in Conns /\ pool[got[c]] = "out" /\ leftover[got[c]] = <<>>
         /\ \A d \in Calls \ {c} : Busy(d) => got[d] # got[c]
         /\ answer[c] \in {None, "err", c}
<1>1. CheckedOut /\ HttpShape /\ StreamShape
  BY DEF SendInv, StreamInv
<1>2. got[c] \in Conns /\ pool[got[c]] = "out" /\ \A d \in Calls \ {c} : Busy(d) => got[d] # got[c]
  BY <1>1 DEF CheckedOut
<1>3. leftover[got[c]] = <<>> /\ answer[c] \in {None, "err", c}
  BY <1>2 DEF StreamInv, Resting, Outcome
<1> QED
  BY <1>1, <1>2, <1>3

\* A request is written on a silent connection; a closed one swallows it.
LEMMA WriteAllKeepsStream ==
  ASSUME SendInv, StreamInv, NEW c \in Calls, WriteAll(c)
  PROVE  StreamInv'
<1>1. Busy(c) /\ pc[c] = "write"
  BY DEF WriteAll, Busy
<1>2. PICK k \in Conns : k = got[c]
  BY <1>1, Has
<1>3. /\ CheckedOut /\ HttpShape /\ StreamShape /\ pool[k] = "out" /\ leftover[k] = <<>>
      /\ \A d \in Calls \ {c} : Busy(d) => got[d] # k
      /\ answer[c] \in {None, "err", c}
  BY <1>1, <1>2, Has
<1>4. /\ UNCHANGED <<got, buf, answer, pool, leftover, pending, wire, open>>
      /\ pc' = [pc EXCEPT ![c] = "read"]
      /\ sent' = IF open[k] THEN [sent EXCEPT ![k] = @ \o [i \in 1..Pieces |-> c]] ELSE sent
  BY <1>2 DEF WriteAll, Go, conns
<1>5. \A l \in Conns \ {k} : SameConn(l)
  BY <1>3, <1>4 DEF SameConn, HttpShape
<1>6. StreamShape'
  BY <1>3, <1>4 DEF StreamShape
<1>7. \A d \in Calls \ {c} : SameCall(d)
  BY <1>3, <1>4 DEF SameCall, HttpShape
<1>8. Resting(k)'
  BY <1>3, <1>4, NoneIsNone DEF Resting
<1>9. /\ pc'[c] = "read" /\ got'[c] = k /\ answer'[c] = answer[c] /\ buf'[c] = buf[c]
      /\ open'[k] = open[k] /\ wire'[k] = wire[k] /\ pending'[k] = pending[k]
  BY <1>2, <1>3, <1>4 DEF HttpShape
<1>10. Writing(c)' /\ Outcome(c)'
  BY <1>3, <1>9 DEF Writing, Outcome, Busy
<1>11. Writing(c)
  BY DEF StreamInv
<1>12. CASE open[k]
  <2>1. buf[c] = <<>> /\ Silent(k) /\ sent[k] = <<>>
    BY <1>1, <1>2, <1>11, <1>12 DEF Writing
  <2>2. sent[k] \in Seq(Calls) /\ sent'[k] = sent[k] \o [i \in 1..2 |-> c]
    BY <1>3, <1>4, <1>12 DEF HttpShape, Pieces
  <2>3. Len(sent[k]) = 0
    BY <2>1
  <2>4. /\ Len(sent'[k]) = Len(sent[k]) + 2 /\ DOMAIN sent'[k] = 1..(Len(sent[k]) + 2)
        /\ \A i \in DOMAIN sent'[k] : sent'[k][i] = IF i <= Len(sent[k]) THEN sent[k][i] ELSE c
    BY <2>2, Written
  <2>5. Len(sent'[k]) = 2 /\ sent'[k][1] = c
    BY <2>3, <2>4
  <2>6. Asked(c, k)'
    BY <1>9, <2>1, <2>5 DEF Asked, Silent, Pieces
  <2>7. Reading(c)'
    BY <1>9, <1>12, <2>6 DEF Reading
  <2> QED
    BY <1>3, <1>5, <1>6, <1>7, <1>8, <1>10, <2>7, AboutOne DEF CallOK
<1>13. CASE ~open[k]
  <2>1. NoHead(buf[c]) /\ NoHead(wire[k])
    BY <1>1, <1>2, <1>11, <1>13 DEF Writing
  <2>2. OwnHead(c, k)'
    BY <1>9, <2>1 DEF OwnHead, NoHead
  <2>3. Reading(c)'
    BY <1>9, <1>13, <2>2 DEF Reading
  <2> QED
    BY <1>3, <1>5, <1>6, <1>7, <1>8, <1>10, <2>3, AboutOne DEF CallOK
<1> QED
  BY <1>12, <1>13

\* A failed write leaves the connection closed and empty.
LEMMA WriteFailsKeepsStream ==
  ASSUME SendInv, StreamInv, NEW c \in Calls, WriteFails(c)
  PROVE  StreamInv'
<1>1. Busy(c)
  BY DEF WriteFails, Busy
<1>2. PICK k \in Conns : k = got[c]
  BY <1>1, Has
<1>3. /\ CheckedOut /\ HttpShape /\ StreamShape /\ pool[k] = "out" /\ leftover[k] = <<>>
      /\ \A d \in Calls \ {c} : Busy(d) => got[d] # k
      /\ answer[c] \in {None, "err", c}
  BY <1>1, <1>2, Has
<1>4. /\ UNCHANGED <<leftover, pending>>
      /\ open' = [open EXCEPT ![k] = FALSE] /\ wire' = [wire EXCEPT ![k] = <<>>]
      /\ pool' = [pool EXCEPT ![k] = IF ~retried[c] THEN "closed" ELSE "idle"]
      /\ \E n \in 0..Pieces - 1 :
           sent' = IF open[k] THEN [sent EXCEPT ![k] = @ \o [i \in 1..n |-> c]] ELSE sent
  BY <1>2 DEF WriteFails, PutBack
<1>5. /\ got' = [got EXCEPT ![c] = None] /\ buf' = [buf EXCEPT ![c] = <<>>]
      /\ pc' = [pc EXCEPT ![c] = IF retried[c] THEN "done" ELSE "get"]
      /\ answer' = IF retried[c] THEN [answer EXCEPT ![c] = "err"] ELSE answer
  <2>1. CASE retried[c]
    BY <2>1 DEF WriteFails, Finish, Go
  <2>2. CASE ~retried[c]
    BY <2>2 DEF WriteFails, Go
  <2> QED
    BY <2>1, <2>2
<1>6. \A l \in Conns \ {k} : SameConn(l)
  <2>1. \A l \in Conns \ {k} : sent'[l] = sent[l]
    BY <1>3, <1>4 DEF HttpShape
  <2> QED
    BY <1>3, <1>4, <2>1 DEF SameConn, HttpShape, StreamShape
<1>7. StreamShape'
  <2>1. <<>> \in Seq(PieceSet)
    OBVIOUS
  <2> QED
    BY <1>3, <1>4, <1>5, <2>1 DEF StreamShape
<1>8. \A d \in Calls \ {c} : SameCall(d)
  BY <1>3, <1>5 DEF SameCall, HttpShape, StreamShape
<1>9. Resting(k)'
  <2>1. /\ pool'[k] \in {"closed", "idle"} /\ ~open'[k] /\ leftover'[k] = <<>> /\ wire'[k] = <<>>
    BY <1>3, <1>4 DEF HttpShape, StreamShape
  <2> QED
    BY <2>1, NoneIsNone DEF Resting, NoHead
<1>10. CallOK(c)'
  <2>1. pc'[c] \notin {"write", "read"} /\ answer'[c] \in {None, "err", c} /\ got'[c] = None /\ buf'[c] = <<>>
    BY <1>3, <1>5 DEF HttpShape, StreamShape
  <2> QED
    BY <2>1, AtRest
<1> QED
  BY <1>3, <1>6, <1>7, <1>8, <1>9, <1>10, AboutOne

\* Reading moves what has arrived behind what was read.
LEMMA PartsRead ==
  ASSUME NEW S, NEW b \in Seq(S), NEW w \in Seq(S), NEW p \in Seq(S), NEW r, Parts(b, w, p, r)
  PROVE  Parts(b \o w, <<>>, p, r)
<1>1. /\ b \o w \in Seq(S) /\ Len(b \o w) = Len(b) + Len(w)
      /\ \A i \in 1..Len(b) + Len(w) : (b \o w)[i] = IF i <= Len(b) THEN b[i] ELSE w[i - Len(b)]
  BY ConcatProperties
<1>2. PICK u : u = b \o w
  OBVIOUS
<1>3. PICK nb \in Nat, nw \in Nat, np \in Nat : nb = Len(b) /\ nw = Len(w) /\ np = Len(p)
  OBVIOUS
<1>4. /\ nb + nw + np = Len(r)
      /\ \A i \in 1..nb : b[i] = r[i]
      /\ \A i \in 1..nw : w[i] = r[nb + i]
      /\ \A i \in 1..np : p[i] = r[nb + nw + i]
  BY <1>3 DEF Parts
<1>5. Len(u) = nb + nw /\ \A i \in 1..nb + nw : u[i] = IF i <= nb THEN b[i] ELSE w[i - nb]
  BY <1>1, <1>2, <1>3
<1>6. \A i \in 1..nb + nw : u[i] = r[i]
  <2> SUFFICES ASSUME NEW i \in 1..nb + nw PROVE u[i] = r[i]
    OBVIOUS
  <2>1. CASE i <= nb
    <3>1. i \in 1..nb
      BY <2>1
    <3> QED
      BY <1>4, <1>5, <2>1, <3>1, Zenon
  <2>2. CASE i > nb
    <3>1. i - nb \in 1..nw /\ nb + (i - nb) = i
      BY <2>2
    <3>2. w[i - nb] = r[nb + (i - nb)]
      BY <1>4, <3>1
    <3> QED
      BY <1>5, <2>2, <3>1, <3>2
  <2> QED
    BY <2>1, <2>2
<1>7. Len(<<>>) = 0
  OBVIOUS
<1>8. \A i \in 1..np : p[i] = r[(nb + nw) + 0 + i]
  BY <1>4
<1>9. Parts(u, <<>>, p, r)
  BY <1>3, <1>4, <1>5, <1>6, <1>7, <1>8 DEF Parts
<1> QED
  BY <1>2, <1>9

\* fill_more keeps a response in order.
LEMMA ReadKeepsStream ==
  ASSUME "bad" \notin Framings, SendInv, StreamInv, NEW c \in Calls, Read(c)
  PROVE  StreamInv'
<1>1. Busy(c) /\ pc[c] = "read"
  BY DEF Read, Busy
<1>2. PICK k \in Conns : k = got[c]
  BY <1>1, Has
<1>3. /\ CheckedOut /\ HttpShape /\ StreamShape /\ pool[k] = "out" /\ leftover[k] = <<>>
      /\ \A d \in Calls \ {c} : Busy(d) => got[d] # k
      /\ answer[c] \in {None, "err", c}
  BY <1>1, <1>2, Has
<1>4. /\ UNCHANGED <<pc, got, answer, pool, leftover, sent, pending, open>> /\ wire[k] # <<>>
      /\ buf' = [buf EXCEPT ![c] = @ \o wire[k]] /\ wire' = [wire EXCEPT ![k] = <<>>]
  BY <1>2 DEF Read, conns
<1>5. PICK b \in Seq(PieceSet), w \in Seq(PieceSet), p \in Seq(PieceSet) :
        b = buf[c] /\ w = wire[k] /\ p = pending[k]
  BY <1>3 DEF StreamShape
<1>6. /\ b \o w \in Seq(PieceSet) /\ Len(b \o w) = Len(b) + Len(w)
      /\ \A i \in 1..Len(b) + Len(w) : (b \o w)[i] = IF i <= Len(b) THEN b[i] ELSE w[i - Len(b)]
  BY ConcatProperties
<1>7. /\ pc'[c] = "read" /\ got'[c] = k /\ answer'[c] = answer[c] /\ buf'[c] = b \o w
      /\ open'[k] = open[k] /\ wire'[k] = <<>> /\ pending'[k] = p /\ sent'[k] = sent[k]
  BY <1>1, <1>2, <1>3, <1>4, <1>5 DEF StreamShape
<1>8. StreamShape'
  <2>1. <<>> \in Seq(PieceSet) /\ buf[c] \o wire[k] \in Seq(PieceSet)
    BY <1>5, <1>6
  <2> QED
    BY <1>3, <1>4, <2>1 DEF StreamShape
<1>9. \A l \in Conns \ {k} : SameConn(l)
  BY <1>3, <1>4 DEF SameConn, StreamShape
<1>10. \A d \in Calls \ {c} : SameCall(d)
  BY <1>3, <1>4 DEF SameCall, StreamShape
<1>11. Resting(k)'
  BY <1>3, <1>4, NoneIsNone DEF Resting
<1>12. Writing(c)' /\ Outcome(c)'
  BY <1>3, <1>7 DEF Writing, Outcome, Busy
<1>13. Reading(c)
  BY DEF StreamInv
<1>14. CASE open[k]
  <2>1. Answered(c, k)
    BY <1>1, <1>2, <1>4, <1>13, <1>14 DEF Reading, Asked, Silent
  <2>2. PICK f \in Framings : Parts(b, w, p, Response(c, f)) /\ (f \in {"close", "eof"} => p # <<>>)
    BY <1>5, <2>1 DEF Answered
  <2>3. Parts(b \o w, <<>>, p, Response(c, f))
    BY <2>2, PartsRead
  <2>4. Answered(c, k)'
    BY <1>7, <2>1, <2>2, <2>3 DEF Answered
  <2>5. Reading(c)'
    BY <1>7, <1>14, <2>4 DEF Reading
  <2> QED
    BY <1>3, <1>8, <1>9, <1>10, <1>11, <1>12, <2>5, AboutOne DEF CallOK
<1>15. CASE ~open[k]
  <2>1. /\ \A i \in DOMAIN b : b[i].t = "head" => i = 1 /\ b[i].of = c
        /\ \A i \in DOMAIN w : w[i].t = "head" => i = 1 /\ b = <<>> /\ w[i].of = c
    BY <1>1, <1>2, <1>5, <1>13, <1>15 DEF Reading, OwnHead
  <2>2. PICK u \in Seq(PieceSet) : u = b \o w
    BY <1>6
  <2>3. PICK nb \in Nat, nw \in Nat : nb = Len(b) /\ nw = Len(w)
    OBVIOUS
  <2>4. /\ DOMAIN b = 1..nb /\ DOMAIN w = 1..nw /\ DOMAIN u = 1..nb + nw
        /\ \A i \in 1..nb + nw : u[i] = IF i <= nb THEN b[i] ELSE w[i - nb]
    BY <1>6, <2>2, <2>3
  <2>5. ASSUME NEW i \in DOMAIN u, u[i].t = "head" PROVE i = 1 /\ u[i].of = c
    <3>1. CASE i <= nb
      BY <2>1, <2>4, <2>5, <3>1
    <3>2. CASE i > nb
      <4>1. i - nb \in 1..nw /\ u[i] = w[i - nb]
        BY <2>4, <2>5, <3>2
      <4>2. i - nb = 1 /\ b = <<>> /\ w[i - nb].of = c
        BY <2>1, <2>4, <2>5, <4>1
      <4>3. nb = 0
        BY <2>3, <4>2
      <4> QED
        BY <2>4, <4>1, <4>2, <4>3
    <3> QED
      BY <2>4, <3>1, <3>2
  <2>6. OwnHead(c, k)'
    BY <1>7, <2>2, <2>5 DEF OwnHead
  <2>7. Reading(c)'
    BY <1>7, <1>15, <2>6 DEF Reading
  <2> QED
    BY <1>3, <1>8, <1>9, <1>10, <1>11, <1>12, <2>7, AboutOne DEF CallOK
<1> QED
  BY <1>14, <1>15
\* A response that is complete was the reader's own, and what is left behind
\* it is nothing, or on a closed connection has no head.
LEMMA ReadDoneKeepsStream ==
  ASSUME "bad" \notin Framings, SendInv, StreamInv, NEW c \in Calls, ReadDone(c)
  PROVE  StreamInv'
<1>1. Busy(c) /\ pc[c] = "read"
  BY DEF ReadDone, Busy
<1>2. PICK k \in Conns : k = got[c]
  BY <1>1, Has
<1>3. /\ CheckedOut /\ HttpShape /\ StreamShape /\ pool[k] = "out" /\ leftover[k] = <<>>
      /\ \A d \in Calls \ {c} : Busy(d) => got[d] # k
      /\ answer[c] \in {None, "err", c}
  BY <1>1, <1>2, Has
<1>4. PICK b \in Seq(PieceSet) : b = buf[c]
  BY <1>3 DEF StreamShape
<1>5. PICK e \in BOOLEAN : e = Eof(c)
  BY DEF Eof
<1>6. PICK v : v = Parse(b, e)
  OBVIOUS
<1>7. /\ UNCHANGED <<sent, pending, wire, open>> /\ v.is = "response"
      /\ pool' = [pool EXCEPT ![k] = IF v.close THEN "closed" ELSE "idle"]
      /\ leftover' = [leftover EXCEPT ![k] = SubSeq(b, v.n + 1, Len(b))]
      /\ pc' = [pc EXCEPT ![c] = "done"] /\ answer' = [answer EXCEPT ![c] = v.of]
      /\ got' = [got EXCEPT ![c] = None] /\ buf' = [buf EXCEPT ![c] = <<>>]
  BY <1>2, <1>4, <1>5, <1>6 DEF ReadDone, PutBack, Finish, Go, server
<1>8. Len(b) >= 1 /\ b[1].t = "head" /\ \E n \in 1..Len(b) : v = Took(b, n)
  BY <1>6, <1>7, ParseTakes
<1>9. PICK n \in 1..Len(b) : v = Took(b, n)
  BY <1>8
<1>10. v.of = b[1].of /\ v.n = n
  BY <1>9, TookFields
<1>11. Reading(c)
  BY DEF StreamInv
<1>12. OwnHead(c, k)
  BY <1>1, <1>2, <1>3, <1>11, ClosedKeepsHead DEF Reading
<1>13. DOMAIN b = 1..Len(b) /\ Len(b) \in Nat
  OBVIOUS
<1>14. v.of = c /\ NoHead(wire[k])
  <2>1. b[1].of = c
    BY <1>4, <1>8, <1>12, <1>13 DEF OwnHead
  <2>2. b # <<>>
    BY <1>8
  <2> QED
    BY <1>4, <1>10, <1>12, <2>1, <2>2 DEF OwnHead, NoHead
<1>15. SubSeq(b, n + 1, Len(b)) \in Seq(PieceSet) /\ NoHead(SubSeq(b, n + 1, Len(b)))
  <2>1. n + 1 \in 1..Len(b) + 1
    BY <1>13
  <2>2. CASE n = Len(b)
    <3>1. SubSeq(b, n + 1, Len(b)) = <<>>
      BY <1>13, <2>2, SubSeqEmpty
    <3> QED
      BY <3>1 DEF NoHead
  <2>3. CASE n # Len(b)
    <3>1. PICK s : s = SubSeq(b, n + 1, Len(b))
      OBVIOUS
    <3>2. /\ s \in Seq(PieceSet)
          /\ Len(s) = IF n + 1 <= Len(b) THEN Len(b) - (n + 1) + 1 ELSE 0
          /\ \A i \in 1..Len(b) - (n + 1) + 1 : s[i] = b[n + 1 + i - 1]
      BY <1>13, <2>1, <3>1, SubSeqProperties
    <3>3. DOMAIN s = 1..Len(b) - n /\ \A i \in 1..Len(b) - n : s[i] = b[n + i]
      <4>1. Len(s) = Len(b) - n /\ Len(b) - (n + 1) + 1 = Len(b) - n
        <5>1. PICK m \in Nat : m = Len(b)
          BY <1>13
        <5>2. n + 1 <= m /\ m - (n + 1) + 1 = m - n
          BY <2>3, <5>1
        <5>3. n + 1 <= Len(b) /\ Len(b) - (n + 1) + 1 = Len(b) - n
          BY <5>1, <5>2
        <5> QED
          BY <3>2, <5>3, Zenon
      <4>2. DOMAIN s = 1..Len(s)
        BY <3>2
      <4>3. ASSUME NEW i \in 1..Len(b) - n PROVE s[i] = b[n + i]
        <5>1. n + 1 + i - 1 = n + i
          BY <1>13
        <5> QED
          BY <3>2, <4>1, <5>1, Zenon
      <4> QED
        BY <4>1, <4>2, <4>3
    <3>4. ASSUME NEW i \in DOMAIN s PROVE s[i].t # "head"
      <4>1. n + i \in 1..Len(b) /\ n + i # 1
        BY <1>13, <3>3
      <4> QED
        BY <1>4, <1>12, <1>13, <3>3, <4>1 DEF OwnHead
    <3> QED
      BY <3>1, <3>2, <3>4 DEF NoHead
  <2> QED
    BY <2>2, <2>3
<1>16. \A l \in Conns \ {k} : SameConn(l)
  BY <1>3, <1>7 DEF SameConn, HttpShape, StreamShape
<1>17. StreamShape'
  <2>1. <<>> \in Seq(PieceSet)
    OBVIOUS
  <2> QED
    BY <1>3, <1>7, <1>10, <1>14, <1>15, <2>1 DEF StreamShape
<1>18. \A d \in Calls \ {c} : SameCall(d)
  BY <1>3, <1>7 DEF SameCall, HttpShape, StreamShape
<1>19. CallOK(c)'
  <2>1. pc'[c] \notin {"write", "read"} /\ answer'[c] \in {None, "err", c} /\ got'[c] = None /\ buf'[c] = <<>>
    BY <1>3, <1>7, <1>14 DEF HttpShape, StreamShape
  <2> QED
    BY <2>1, AtRest
<1>20. /\ pool'[k] \in {"closed", "idle"} /\ leftover'[k] = SubSeq(b, n + 1, Len(b))
       /\ wire'[k] = wire[k] /\ pending'[k] = pending[k] /\ sent'[k] = sent[k] /\ open'[k] = open[k]
  BY <1>3, <1>7, <1>10 DEF HttpShape, StreamShape
<1>21. Resting(k)'
  <2>1. CASE open[k]
    <3>1. Asked(c, k) \/ Answered(c, k)
      BY <1>1, <1>2, <1>11, <2>1 DEF Reading
    <3>2. e = FALSE
      BY <1>2, <1>5, <2>1 DEF Eof
    <3>3. Parse(buf[c], FALSE).is = "response"
      BY <1>4, <1>6, <1>7, <3>2
    <3>4. sent[k] = <<>> /\ Silent(k)
      BY <1>3, <3>1, <3>3, Complete
    <3>5. SubSeq(buf[c], Parse(buf[c], FALSE).n + 1, Len(buf[c])) = <<>>
      BY <1>3, <3>1, <3>3, Complete
    <3>6. leftover'[k] = <<>>
      BY <1>4, <1>6, <1>10, <1>20, <3>2, <3>5
    <3> QED
      BY <1>20, <2>1, <3>4, <3>6, NoneIsNone DEF Resting, Silent
  <2>2. CASE ~open[k]
    BY <1>14, <1>15, <1>20, <2>2, NoneIsNone DEF Resting, NoHead
  <2> QED
    BY <2>1, <2>2
<1> QED
  BY <1>3, <1>16, <1>17, <1>18, <1>19, <1>21, AboutOne

\* A read that fails does so on a closed connection, after the head of its own
\* response or after everything the peer sent: what is left has no head.
LEMMA ReadFailsKeepsStream ==
  ASSUME "bad" \notin Framings, SendInv, StreamInv, NEW c \in Calls, ReadFails(c)
  PROVE  StreamInv'
<1>1. Busy(c) /\ pc[c] = "read"
  BY DEF ReadFails, Busy
<1>2. PICK k \in Conns : k = got[c]
  BY <1>1, Has
<1>3. /\ CheckedOut /\ HttpShape /\ StreamShape /\ pool[k] = "out" /\ leftover[k] = <<>>
      /\ \A d \in Calls \ {c} : Busy(d) => got[d] # k
      /\ answer[c] \in {None, "err", c}
  BY <1>1, <1>2, Has
<1>4. PICK b \in Seq(PieceSet) : b = buf[c]
  BY <1>3 DEF StreamShape
<1>5. PICK e \in BOOLEAN : e = Eof(c)
  BY DEF Eof
<1>6. /\ UNCHANGED <<leftover, sent, pending, wire, open>> /\ Parse(b, e).is = "error"
      /\ pool' = [pool EXCEPT ![k] = IF close[k] THEN "closed" ELSE "idle"]
      /\ pc' = [pc EXCEPT ![c] = "done"] /\ answer' = [answer EXCEPT ![c] = "err"]
      /\ got' = [got EXCEPT ![c] = None] /\ buf' = [buf EXCEPT ![c] = <<>>]
  BY <1>2, <1>4, <1>5 DEF ReadFails, PutBack, Finish, Go, server
<1>7. Reading(c)
  BY DEF StreamInv
<1>8. ~open[k]
  <2> SUFFICES ASSUME open[k] PROVE FALSE
    OBVIOUS
  <2>1. Asked(c, k) \/ Answered(c, k)
    BY <1>1, <1>2, <1>7 DEF Reading
  <2>2. e = FALSE
    BY <1>2, <1>5 DEF Eof
  <2>3. Parse(buf[c], FALSE).is # "error"
    BY <1>3, <2>1, NotAnError
  <2> QED
    BY <1>4, <1>6, <2>2, <2>3
<1>9. OwnHead(c, k)
  BY <1>1, <1>2, <1>7, <1>8 DEF Reading
<1>10. NoHead(wire[k])
  <2>1. CASE e
    <3>1. Eof(c)
      BY <1>5, <2>1
    <3>2. wire[k] = <<>>
      BY <1>2, <3>1 DEF Eof
    <3> QED
      BY <3>2 DEF NoHead
  <2>2. CASE ~e
    <3>1. Blank(b) # {}
      BY <1>6, <2>2 DEF Parse
    <3>2. b # <<>>
      BY <3>1 DEF Blank
    <3> QED
      BY <1>4, <1>9, <3>2 DEF OwnHead, NoHead
  <2> QED
    BY <2>1, <2>2
<1>11. \A l \in Conns \ {k} : SameConn(l)
  BY <1>3, <1>6 DEF SameConn, HttpShape
<1>12. StreamShape'
  <2>1. <<>> \in Seq(PieceSet)
    OBVIOUS
  <2> QED
    BY <1>3, <1>6, <2>1 DEF StreamShape
<1>13. \A d \in Calls \ {c} : SameCall(d)
  BY <1>3, <1>6 DEF SameCall, HttpShape, StreamShape
<1>14. CallOK(c)'
  <2>1. pc'[c] \notin {"write", "read"} /\ answer'[c] \in {None, "err", c} /\ got'[c] = None /\ buf'[c] = <<>>
    BY <1>3, <1>6 DEF HttpShape, StreamShape
  <2> QED
    BY <2>1, AtRest
<1>15. Resting(k)'
  <2>1. pool'[k] \in {"closed", "idle"} /\ leftover'[k] = <<>> /\ wire'[k] = wire[k] /\ ~open'[k]
    BY <1>3, <1>6, <1>8 DEF HttpShape
  <2> QED
    BY <1>10, <2>1, NoneIsNone DEF Resting, NoHead
<1> QED
  BY <1>3, <1>11, <1>12, <1>13, <1>14, <1>15, AboutOne
\* The server answers the request the reader has asked.
LEMMA ExecuteKeepsStream ==
  ASSUME "bad" \notin Framings, SendInv, StreamInv, NEW k \in Conns, Execute(k)
  PROVE  StreamInv'
<1>1. CheckedOut /\ HttpShape /\ StreamShape /\ Undialled
  BY DEF SendInv, StreamInv
<1>2. PICK s \in Seq(Calls) : s = sent[k]
  BY <1>1 DEF HttpShape
<1>3. /\ open[k] /\ Len(s) >= 2 /\ pending[k] = <<>>
      /\ sent' = [sent EXCEPT ![k] = SubSeq(s, 3, Len(s))]
      /\ UNCHANGED <<pc, got, buf, answer, pool, leftover, wire, open>>
  BY <1>1, <1>2 DEF Execute, Pieces, conns, HttpShape
<1>4. PICK f \in Framings : pending' = [pending EXCEPT ![k] = Response(s[1], f)]
  BY <1>2 DEF Execute
<1>5. s[1] \in Calls /\ s # <<>>
  BY <1>3
<1>6. Response(s[1], f) \in Seq(PieceSet) /\ Len(Response(s[1], f)) >= 1
  <2>1. PICK a \in Calls : a = s[1]
    BY <1>5
  <2>2. Response(a, f) \in Seq(PieceSet)
    BY ResponseShape
  <2>3. Len(Response(a, f)) = CASE f = "empty" -> 1 [] f = "chunked" -> 3 [] OTHER -> 2
    BY ResponseShape
  <2>4. Len(Response(a, f)) >= 1
    BY <2>3
  <2> QED
    BY <2>1, <2>2, <2>4
<1>7. \A l \in Conns \ {k} : SameConn(l)
  BY <1>1, <1>3, <1>4 DEF SameConn, HttpShape, StreamShape
<1>8. StreamShape'
  BY <1>1, <1>3, <1>4, <1>6 DEF StreamShape
<1>9. \A d \in Calls : SameCall(d)
  BY <1>3 DEF SameCall
<1>10. Resting(k)'
  <2>1. Resting(k) /\ pool[k] # "idle" /\ pool[k] # None
    BY <1>1, <1>2, <1>3, <1>5 DEF StreamInv, Resting, Undialled
  <2> QED
    BY <1>3, <2>1 DEF Resting
<1>11. ASSUME NEW d \in Calls, Busy(d), got[d] = k PROVE CallOK(d)'
  <2>1. CallOK(d)
    BY DEF StreamInv, CallOK
  <2>2. pc[d] = "read" /\ Asked(d, k)
    BY <1>2, <1>3, <1>5, <1>11, <2>1 DEF CallOK, Busy, Writing, Reading, Answered
  <2>3. Len(s) = 2 /\ s[1] = d /\ buf[d] = <<>> /\ wire[k] = <<>>
    BY <1>2, <2>2 DEF Asked, Silent, Pieces
  <2>4. SubSeq(s, 3, Len(s)) = <<>>
    BY <2>3, SubSeqEmpty
  <2>5. /\ sent'[k] = <<>> /\ buf'[d] = <<>> /\ wire'[k] = <<>> /\ open'[k]
        /\ pending'[k] = Response(d, f) /\ pc'[d] = "read" /\ got'[d] = k /\ answer'[d] = answer[d]
    BY <1>1, <1>3, <1>4, <1>11, <2>2, <2>3, <2>4 DEF HttpShape, StreamShape
  <2>6. PICK r \in Seq(PieceSet) : r = Response(d, f) /\ Len(r) >= 1
    BY <1>6, <2>3
  <2>7. Parts(<<>>, <<>>, r, r) /\ r # <<>>
    BY <2>6 DEF Parts
  <2>8. Answered(d, k)'
    BY <2>5, <2>6, <2>7 DEF Answered
  <2>9. Reading(d)'
    BY <2>5, <2>8 DEF Reading
  <2>10. Writing(d)' /\ Outcome(d)'
    BY <2>1, <2>5 DEF CallOK, Writing, Outcome, Busy
  <2> QED
    BY <2>9, <2>10 DEF CallOK
<1> QED
  BY <1>1, <1>7, <1>8, <1>9, <1>10, <1>11, AboutOne

\* Delivering moves the next piece from what is to come to what has arrived.
LEMMA PartsDelivered ==
  ASSUME NEW S, NEW b \in Seq(S), NEW w \in Seq(S), NEW p \in Seq(S), p # <<>>, NEW r,
         Parts(b, w, p, r)
  PROVE  /\ Append(w, p[1]) \in Seq(S) /\ Tail(p) \in Seq(S) /\ Len(Tail(p)) = Len(p) - 1
         /\ Parts(b, Append(w, p[1]), Tail(p), r)
<1>1. PICK nb \in Nat, nw \in Nat, np \in Nat :
        nb = Len(b) /\ nw = Len(w) /\ np = Len(p) /\ np >= 1 /\ p[1] \in S
  OBVIOUS
<1>2. PICK v, q : v = Append(w, p[1]) /\ q = Tail(p)
  OBVIOUS
<1>3. /\ v \in Seq(S) /\ Len(v) = nw + 1 /\ v[nw + 1] = p[1]
      /\ \A i \in 1..nw : v[i] = w[i]
  BY <1>1, <1>2, AppendProperties
<1>4. /\ q \in Seq(S) /\ Len(q) = np - 1 /\ \A i \in 1..np - 1 : q[i] = p[i + 1]
  BY <1>1, <1>2, HeadTailProperties
<1>5. /\ nb + nw + np = Len(r)
      /\ \A i \in 1..nb : b[i] = r[i]
      /\ \A i \in 1..nw : w[i] = r[nb + i]
      /\ \A i \in 1..np : p[i] = r[nb + nw + i]
  BY <1>1 DEF Parts
<1>6. \A i \in 1..nw + 1 : v[i] = r[nb + i]
  <2>1. v[nw + 1] = r[nb + nw + 1]
    BY <1>1, <1>3, <1>5
  <2>2. nb + (nw + 1) = nb + nw + 1
    OBVIOUS
  <2>3. ASSUME NEW i \in 1..nw PROVE v[i] = r[nb + i]
    BY <1>3, <1>5
  <2>4. \A i \in 1..nw + 1 : i = nw + 1 \/ i \in 1..nw
    OBVIOUS
  <2> QED
    BY <2>1, <2>2, <2>3, <2>4
<1>7. ASSUME NEW i \in 1..np - 1 PROVE q[i] = r[nb + (nw + 1) + i]
  <2>1. i + 1 \in 1..np /\ nb + nw + (i + 1) = nb + (nw + 1) + i
    OBVIOUS
  <2> QED
    BY <1>4, <1>5, <2>1
<1>8. nb + (nw + 1) + (np - 1) = Len(r)
  BY <1>5
<1>9. Parts(b, v, q, r)
  BY <1>1, <1>3, <1>4, <1>5, <1>6, <1>7, <1>8 DEF Parts
<1> QED
  BY <1>1, <1>2, <1>3, <1>4, <1>9

\* The last piece of a silent connection is no head, and closes it.
LEMMA SilentDelivered ==
  ASSUME StreamShape, HttpShape, NEW k \in Conns, Deliver(k), Silent(k)
  PROVE  NoHead(wire'[k]) /\ ~open'[k] /\ Len(wire'[k]) = 1
<1>1. PICK p \in Seq(PieceSet) : p = pending[k]
  BY DEF StreamShape
<1>2. p # <<>> /\ Len(p) = 1 /\ 1 \in DOMAIN p
  <2>1. p # <<>> /\ Len(p) <= 1
    BY <1>1 DEF Deliver, Silent
  <2>2. Len(p) \in Nat \ {0} /\ DOMAIN p = 1..Len(p)
    BY <2>1
  <2> QED
    BY <2>1, <2>2
<1>3. p[1].t = "data" /\ p[1].frame = "eof"
  BY <1>1, <1>2 DEF Silent
<1>4. wire'[k] = Append(wire[k], p[1]) /\ wire[k] = <<>>
  BY <1>1 DEF Deliver, StreamShape, Silent
<1>5. wire'[k] = <<p[1]>>
  BY <1>4
<1>6. NoHead(wire'[k]) /\ Len(wire'[k]) = 1
  BY <1>3, <1>5 DEF NoHead
<1>7. ~open'[k]
  BY <1>1, <1>2, <1>3 DEF Deliver, HttpShape
<1> QED
  BY <1>6, <1>7

\* A piece that arrives is the next of the answer the reader waits for, or
\* closes a connection nobody reads.
LEMMA DeliverKeepsStream ==
  ASSUME "bad" \notin Framings, SendInv, StreamInv, NEW k \in Conns, Deliver(k)
  PROVE  StreamInv'
<1>1. CheckedOut /\ HttpShape /\ StreamShape /\ Undialled
  BY DEF SendInv, StreamInv
<1>2. PICK w \in Seq(PieceSet), p \in Seq(PieceSet) : w = wire[k] /\ p = pending[k]
  BY <1>1 DEF StreamShape
<1>3. /\ open[k] /\ p # <<>>
      /\ wire' = [wire EXCEPT ![k] = Append(w, p[1])] /\ pending' = [pending EXCEPT ![k] = Tail(p)]
      /\ open' = [open EXCEPT ![k] = ~(Len(p) = 1 /\ p[1].frame \in {"close", "eof"})]
      /\ UNCHANGED <<pc, got, buf, answer, pool, leftover, sent>>
  BY <1>1, <1>2 DEF Deliver, conns, StreamShape
<1>4. \A l \in Conns \ {k} : SameConn(l)
  BY <1>1, <1>3 DEF SameConn, HttpShape, StreamShape
<1>5. StreamShape'
  <2>1. Append(w, p[1]) \in Seq(PieceSet) /\ Tail(p) \in Seq(PieceSet)
    BY <1>3
  <2> QED
    BY <1>1, <1>3, <2>1 DEF StreamShape
<1>6. \A d \in Calls : SameCall(d)
  BY <1>3 DEF SameCall
<1>7. Resting(k)'
  <2>1. Resting(k) /\ pool[k] # None
    BY <1>1, <1>3 DEF StreamInv, Undialled
  <2>2. CASE pool[k] = "idle"
    <3>1. leftover[k] = <<>> /\ Silent(k)
      BY <1>3, <2>1, <2>2 DEF Resting
    <3>2. NoHead(wire'[k]) /\ ~open'[k]
      BY <1>1, <3>1, SilentDelivered
    <3>3. pool'[k] = "idle" /\ leftover'[k] = <<>>
      BY <1>3, <2>2, <3>1
    <3> QED
      BY <3>2, <3>3, NoneIsNone DEF Resting, NoHead
  <2>3. CASE pool[k] # "idle"
    BY <1>3, <2>1, <2>3 DEF Resting
  <2> QED
    BY <2>2, <2>3
<1>8. ASSUME NEW d \in Calls, Busy(d), got[d] = k PROVE CallOK(d)'
  <2>1. CallOK(d)
    BY DEF StreamInv, CallOK
  <2>2. pc'[d] = pc[d] /\ got'[d] = k /\ buf'[d] = buf[d] /\ answer'[d] = answer[d]
    BY <1>3, <1>8
  <2>3. Outcome(d)'
    BY <1>8, <2>1, <2>2 DEF CallOK, Outcome, Busy
  <2>4. CASE pc[d] = "write"
    <3>1. buf[d] = <<>> /\ Silent(k)
      BY <1>3, <1>8, <2>1, <2>4 DEF CallOK, Writing
    <3>2. NoHead(wire'[k]) /\ ~open'[k]
      BY <1>1, <3>1, SilentDelivered
    <3>3. Writing(d)' /\ Reading(d)'
      BY <2>2, <2>4, <3>1, <3>2 DEF Writing, Reading, NoHead
    <3> QED
      BY <2>3, <3>3 DEF CallOK
  <2>5. CASE pc[d] = "read"
    <3>1. Writing(d)'
      BY <2>2, <2>5 DEF Writing
    <3>2. CASE Asked(d, k)
      <4>1. buf[d] = <<>> /\ Silent(k)
        BY <3>2 DEF Asked
      <4>2. NoHead(wire'[k]) /\ ~open'[k]
        BY <1>1, <4>1, SilentDelivered
      <4>3. OwnHead(d, k)'
        BY <2>2, <4>1, <4>2 DEF OwnHead, NoHead
      <4>4. Reading(d)'
        BY <2>2, <4>2, <4>3 DEF Reading
      <4> QED
        BY <2>3, <3>1, <4>4 DEF CallOK
    <3>3. CASE Answered(d, k)
      <4>1. PICK b \in Seq(PieceSet) : b = buf[d]
        BY <1>1 DEF StreamShape
      <4>2. sent[k] = <<>> /\ \E f \in Framings : Parts(b, w, p, Response(d, f))
        BY <1>2, <3>3, <4>1 DEF Answered
      <4>3. PICK f \in Framings : Parts(b, w, p, Response(d, f))
        BY <4>2
      <4>4. PICK v \in Seq(PieceSet), q \in Seq(PieceSet) :
              v = Append(w, p[1]) /\ q = Tail(p) /\ Len(q) = Len(p) - 1 /\ Parts(b, v, q, Response(d, f))
        BY <1>3, <4>3, PartsDelivered
      <4>5. /\ wire'[k] = v /\ pending'[k] = q /\ sent'[k] = <<>> /\ buf'[d] = b
            /\ open'[k] = ~(Len(p) = 1 /\ p[1].frame \in {"close", "eof"})
        BY <1>1, <1>3, <2>2, <4>1, <4>2, <4>4 DEF HttpShape, StreamShape
      <4>6. CASE open'[k]
        <5>1. p[1].frame = f
          <6>1. PICK r : r = Response(d, f)
            OBVIOUS
          <6>2. Len(r) \in Nat /\ \A i \in 1..Len(r) : r[i].frame = f
            BY <6>1, ResponseShape
          <6>3. PICK nb \in Nat, nw \in Nat, np \in Nat :
                  nb = Len(b) /\ nw = Len(w) /\ np = Len(p) /\ np >= 1
            BY <1>3
          <6>4. nb + nw + np = Len(r) /\ \A i \in 1..np : p[i] = r[nb + nw + i]
            BY <4>3, <6>1, <6>3 DEF Parts
          <6>5. 1 \in 1..np /\ nb + nw + 1 \in 1..Len(r)
            BY <6>3, <6>4
          <6> QED
            BY <6>2, <6>4, <6>5
        <5>2. f \in {"close", "eof"} => Len(p) # 1
          BY <4>5, <4>6, <5>1
        <5>3. f \in {"close", "eof"} => q # <<>>
          <6>1. Len(p) \in Nat /\ Len(p) >= 1
            BY <1>3
          <6>2. ASSUME f \in {"close", "eof"} PROVE q # <<>>
            <7>1. Len(q) >= 1
              BY <4>4, <5>2, <6>1, <6>2
            <7> QED
              BY <7>1
          <6> QED
            BY <6>2
        <5>4. Answered(d, k)'
          BY <4>4, <4>5, <5>3 DEF Answered
        <5>5. Reading(d)'
          BY <2>2, <4>6, <5>4 DEF Reading
        <5> QED
          BY <2>3, <3>1, <5>5 DEF CallOK
      <4>7. CASE ~open'[k]
        <5>1. /\ \A i \in DOMAIN b : b[i].t = "head" => i = 1 /\ b[i].of = d
              /\ \A i \in DOMAIN v : v[i].t = "head" => i = 1 /\ b = <<>> /\ v[i].of = d
          <6>1. Parts(b, v, q, Response(d, f))
            BY <4>4
          <6> QED
            BY <6>1, PartsHead
        <5>2. OwnHead(d, k)'
          BY <4>5, <5>1 DEF OwnHead
        <5>3. Reading(d)'
          BY <2>2, <4>7, <5>2 DEF Reading
        <5> QED
          BY <2>3, <3>1, <5>3 DEF CallOK
      <4> QED
        BY <4>6, <4>7
    <3> QED
      BY <1>3, <1>8, <2>1, <2>5, <3>2, <3>3 DEF CallOK, Reading
  <2> QED
    BY <1>8, <2>4, <2>5 DEF Busy
<1> QED
  BY <1>1, <1>4, <1>5, <1>6, <1>7, <1>8, AboutOne

\* A close in the middle of a response leaves at most the reader's own head.
LEMMA PeerClosesKeepsStream ==
  ASSUME "bad" \notin Framings, SendInv, StreamInv, NEW k \in Conns, PeerCloses(k)
  PROVE  StreamInv'
<1>1. CheckedOut /\ HttpShape /\ StreamShape /\ Undialled
  BY DEF SendInv, StreamInv
<1>2. /\ open[k] /\ open' = [open EXCEPT ![k] = FALSE] /\ pending' = [pending EXCEPT ![k] = <<>>]
      /\ wire' = wire \/ wire' = [wire EXCEPT ![k] = <<>>]
      /\ UNCHANGED <<pc, got, buf, answer, pool, leftover, sent>>
  BY DEF PeerCloses, conns
<1>3. \A l \in Conns \ {k} : SameConn(l)
  BY <1>1, <1>2 DEF SameConn, HttpShape, StreamShape
<1>4. StreamShape'
  <2>1. <<>> \in Seq(PieceSet)
    OBVIOUS
  <2> QED
    BY <1>1, <1>2, <2>1 DEF StreamShape
<1>5. \A d \in Calls : SameCall(d)
  BY <1>2 DEF SameCall
<1>6. ~open'[k] /\ (wire'[k] = wire[k] \/ wire'[k] = <<>>)
  BY <1>1, <1>2 DEF HttpShape, StreamShape
<1>7. Resting(k)'
  <2>1. Resting(k) /\ pool[k] # None
    BY <1>1, <1>2 DEF StreamInv, Undialled
  <2> QED
    BY <1>2, <1>6, <2>1 DEF Resting, Silent, NoHead
<1>8. ASSUME NEW d \in Calls, Busy(d), got[d] = k PROVE CallOK(d)'
  <2>1. CallOK(d)
    BY DEF StreamInv, CallOK
  <2>2. pc'[d] = pc[d] /\ got'[d] = k /\ buf'[d] = buf[d] /\ answer'[d] = answer[d]
    BY <1>2, <1>8
  <2>3. Outcome(d)'
    BY <1>8, <2>1, <2>2 DEF CallOK, Outcome, Busy
  <2>4. Writing(d)'
    BY <1>2, <1>6, <1>8, <2>1, <2>2 DEF CallOK, Writing, Silent, NoHead
  <2>5. Reading(d)'
    <3>1. CASE pc[d] = "read"
      <4>1. OwnHead(d, k)
        BY <1>1, <1>2, <1>8, <2>1, <3>1, ClosedKeepsHead DEF CallOK, Reading
      <4>2. OwnHead(d, k)'
        BY <1>6, <2>2, <4>1 DEF OwnHead
      <4> QED
        BY <1>6, <2>2, <4>2 DEF Reading
    <3>2. CASE pc[d] # "read"
      BY <2>2, <3>2 DEF Reading
    <3> QED
      BY <3>1, <3>2
  <2> QED
    BY <2>3, <2>4, <2>5 DEF CallOK
<1> QED
  BY <1>1, <1>3, <1>4, <1>5, <1>7, <1>8, AboutOne
\* The stream invariant holds initially.
LEMMA StreamInit == Init => StreamInv
<1> SUFFICES ASSUME Init PROVE StreamInv
  OBVIOUS
<1>1. StreamShape
  <2>1. <<>> \in Seq(PieceSet)
    OBVIOUS
  <2> QED
    BY <2>1 DEF Init, StreamShape
<1>2. \A c \in Calls : Reading(c) /\ Writing(c) /\ Outcome(c)
  BY DEF Init, Reading, Writing, Outcome
<1>3. \A k \in Conns : Resting(k)
  BY NoneIsNone DEF Init, Resting
<1> QED
  BY <1>1, <1>2, <1>3 DEF StreamInv

\* Every step keeps it, when every chunk size the server sends parses.
LEMMA StreamStepInv ==
  ASSUME "bad" \notin Framings, SendInv, StreamInv, [Next]_vars
  PROVE  StreamInv'
<1>1. CASE UNCHANGED vars
  <2>1. \A l \in Conns : SameConn(l)
    BY <1>1 DEF vars, conns, server, SameConn
  <2>2. \A d \in Calls : SameCall(d)
    BY <1>1 DEF vars, SameCall
  <2>3. StreamShape' /\ CheckedOut
    BY <1>1 DEF vars, conns, server, StreamInv, StreamShape, SendInv
  <2> QED
    BY <2>1, <2>2, <2>3, AboutNone
<1>2. ASSUME NEW c \in Calls, Client(c) PROVE StreamInv'
  BY <1>2, QuietKeepsStream, CheckOutKeepsStream, ConnectKeepsStream, WriteAllKeepsStream,
     WriteFailsKeepsStream, ReadKeepsStream, ReadDoneKeepsStream, ReadFailsKeepsStream DEF Client
<1>3. ASSUME NEW k \in Conns, Server(k) \/ PeerCloses(k) PROVE StreamInv'
  BY <1>3, ExecuteKeepsStream, DeliverKeepsStream, PeerClosesKeepsStream DEF Server
<1> QED
  BY <1>1, <1>2, <1>3 DEF Next

\* A response is handed to the call whose request it answers, for any number
\* of calls and connections: whatever a connection carries when the pool hands
\* it on can not begin a response. The hypothesis is needed: read_http_response
\* returns at a chunk size that does not parse without marking the connection,
\* and the rest of that response is then the next call's.
THEOREM ResponsesAreOwn ==
  ASSUME "bad" \notin Framings
  PROVE  Spec => []OwnResponse
<1>1. Init => SendInv /\ StreamInv
  BY HttpInitInv, StreamInit
<1>2. SendInv /\ StreamInv /\ [Next]_vars => (SendInv /\ StreamInv)'
  BY SendStepInv, StreamStepInv
<1>3. SendInv /\ StreamInv => OwnResponse
  BY DEF StreamInv, Outcome, OwnResponse
<1> QED
  BY <1>1, <1>2, <1>3, PTL DEF Spec
-----------------------------------------------------------------------------
(***************************************************************************)
(* The slots of the http domain, and the types.                            *)
(***************************************************************************)
Admitted == {c \in Calls : pc[c] \in {"get", "write", "read"}}

\* A slot is held by each call between its admission and its return.
HeldCount == held = Cardinality(Admitted) /\ held <= Ceiling
CloseShape == close \in [Conns -> BOOLEAN]

\* The calls admitted after a step of call c.
LEMMA AdmittedAfter ==
  ASSUME HttpShape, NEW c \in Calls, NEW l, pc' = [pc EXCEPT ![c] = l]
  PROVE  /\ l \in {"get", "write", "read"} => Admitted' = Admitted \cup {c}
         /\ l = "done" => Admitted' = Admitted \ {c}
  BY DEF Admitted, HttpShape

\* The admitted calls are finitely many.
LEMMA AdmittedFinite == IsFiniteSet(Admitted)
<1>1. Admitted \subseteq Calls /\ IsFiniteSet(Calls)
  BY CallsType DEF Admitted
<1> QED
  BY <1>1, FS_Subset

\* acquire takes a slot under the ceiling, each return gives one back, and a
\* retry keeps the one it has.
LEMMA HeldStep ==
  ASSUME HttpShape, HeldCount, [Next]_vars
  PROVE  HeldCount'
<1>1. Cardinality(Admitted) \in Nat /\ Ceiling \in Nat
  BY AdmittedFinite, FS_CardinalityType, CallsType
<1>2. CASE UNCHANGED <<pc, held>>
  BY <1>2 DEF HeldCount, Admitted
<1>3. ASSUME NEW c \in Calls, pc[c] = "start", held < Ceiling, pc' = [pc EXCEPT ![c] = "get"], held' = held + 1
      PROVE  HeldCount'
  <2>1. c \notin Admitted /\ Admitted' = Admitted \cup {c}
    BY <1>3, AdmittedAfter DEF Admitted
  <2>2. Cardinality(Admitted') = Cardinality(Admitted) + 1
    BY <2>1, AdmittedFinite, FS_AddElement
  <2> QED
    BY <1>1, <1>3, <2>2 DEF HeldCount
<1>4. ASSUME NEW c \in Calls, c \in Admitted, pc' = [pc EXCEPT ![c] = "done"], held' = held - 1
      PROVE  HeldCount'
  <2>1. Admitted' = Admitted \ {c}
    BY <1>4, AdmittedAfter
  <2>2. Cardinality(Admitted') = Cardinality(Admitted) - 1
    BY <1>4, <2>1, AdmittedFinite, FS_RemoveElement
  <2> QED
    BY <1>1, <1>4, <2>2 DEF HeldCount
<1>5. ASSUME NEW c \in Calls, NEW l \in {"get", "write", "read"}, c \in Admitted,
             pc' = [pc EXCEPT ![c] = l], held' = held
      PROVE  HeldCount'
  <2>1. Admitted' = Admitted \cup {c}
    BY <1>5, AdmittedAfter
  <2> QED
    BY <1>5, <2>1, Admitted' = Admitted DEF HeldCount
<1>6. ASSUME NEW c \in Calls, pc[c] = "start", pc' = [pc EXCEPT ![c] = "done"], held' = held
      PROVE  HeldCount'
  <2>1. Admitted' = Admitted
    BY <1>6, AdmittedAfter DEF Admitted
  <2> QED
    BY <1>6, <2>1 DEF HeldCount
<1>7. ASSUME NEW c \in Calls, Client(c) PROVE HeldCount'
  <2>1. CASE Acquire(c)
    <3>1. CASE held >= Ceiling
      BY <1>6, <2>1, <3>1 DEF Acquire, Go
    <3>2. CASE ~(held >= Ceiling)
      <4>1. held < Ceiling
        BY <1>1, <3>2 DEF HeldCount
      <4> QED
        BY <1>3, <2>1, <3>2, <4>1 DEF Acquire, Go
    <3> QED
      BY <3>1, <3>2
  <2>2. CASE CheckOut(c)
    <3>1. c \in Admitted /\ held' = held /\ (pc' = pc \/ pc' = [pc EXCEPT ![c] = "write"])
      BY <2>2 DEF CheckOut, Go, Admitted
    <3> QED
      BY <1>2, <1>5, <3>1
  <2>3. CASE Connect(c)
    BY <1>5, <2>3 DEF Connect, Go, Admitted
  <2>4. CASE ConnectFails(c)
    BY <1>4, <2>4 DEF ConnectFails, Finish, Go, Admitted
  <2>5. CASE WriteAll(c)
    BY <1>5, <2>5 DEF WriteAll, Go, Admitted
  <2>6. CASE WriteFails(c)
    <3>1. CASE retried[c]
      BY <1>4, <2>6, <3>1 DEF WriteFails, Finish, Go, Admitted
    <3>2. CASE ~retried[c]
      BY <1>5, <2>6, <3>2 DEF WriteFails, Go, Admitted
    <3> QED
      BY <3>1, <3>2
  <2>7. CASE Read(c)
    BY <1>2, <2>7 DEF Read
  <2>8. CASE ReadDone(c)
    BY <1>4, <2>8 DEF ReadDone, Finish, Go, Admitted
  <2>9. CASE ReadFails(c)
    BY <1>4, <2>9 DEF ReadFails, Finish, Go, Admitted
  <2> QED
    BY <1>7, <2>1, <2>2, <2>3, <2>4, <2>5, <2>6, <2>7, <2>8, <2>9 DEF Client
<1>8. ASSUME NEW k \in Conns, Server(k) \/ PeerCloses(k) PROVE HeldCount'
  BY <1>2, <1>8 DEF Server, Execute, Deliver, PeerCloses
<1> QED
  BY <1>2, <1>7, <1>8 DEF Next, vars

\* should_close is only ever given a Boolean.
LEMMA CloseStep ==
  ASSUME "bad" \notin Framings, SendInv, StreamInv, CloseShape, [Next]_vars
  PROVE  CloseShape'
<1>1. CASE UNCHANGED close
  BY <1>1 DEF CloseShape
<1>2. HttpShape /\ StreamShape
  BY DEF SendInv, StreamInv
<1>3. ASSUME NEW k, NEW x \in BOOLEAN, PutBack(k, x) PROVE CloseShape'
  BY <1>3 DEF PutBack, CloseShape
<1>4. ASSUME NEW c \in Calls, Client(c) PROVE CloseShape'
  <2>1. CASE Acquire(c) \/ CheckOut(c) \/ Connect(c) \/ ConnectFails(c) \/ WriteAll(c) \/ Read(c)
    BY <1>1, <2>1 DEF Acquire, CheckOut, Connect, ConnectFails, WriteAll, Read, conns
  <2>2. CASE WriteFails(c)
    <3>1. (~retried[c]) \in BOOLEAN
      BY <1>2 DEF HttpShape
    <3> QED
      BY <1>3, <2>2, <3>1 DEF WriteFails
  <2>3. CASE ReadDone(c)
    <3>1. PICK b \in Seq(PieceSet) : b = buf[c]
      BY <1>2 DEF StreamShape
    <3>2. PICK e \in BOOLEAN : e = Eof(c)
      BY DEF Eof
    <3>3. PICK v : v = Parse(b, e)
      OBVIOUS
    <3>4. v.is = "response" /\ PutBack(got[c], v.close)
      BY <2>3, <3>1, <3>2, <3>3 DEF ReadDone
    <3>5. PICK n \in 1..Len(b) : v = Took(b, n)
      BY <3>3, <3>4, ParseTakes
    <3>6. v.close \in BOOLEAN
      BY <3>5 DEF Took
    <3> QED
      BY <1>3, <3>4, <3>6
  <2>4. CASE ReadFails(c)
    <3>1. got[c] \in Conns
      BY <2>4, Has DEF ReadFails, Busy
    <3>2. close[got[c]] \in BOOLEAN
      BY <3>1 DEF CloseShape
    <3> QED
      BY <1>3, <2>4, <3>2 DEF ReadFails
  <2> QED
    BY <1>4, <2>1, <2>2, <2>3, <2>4 DEF Client
<1>5. ASSUME NEW k \in Conns, Server(k) \/ PeerCloses(k) PROVE CloseShape'
  BY <1>1, <1>5 DEF Server, Execute, Deliver, PeerCloses, conns
<1> QED
  BY <1>1, <1>4, <1>5 DEF Next, vars, conns

\* Every variable of HttpClient keeps its type; in particular the slots of the
\* http domain never wrap below zero nor pass its ceiling, on any error path.
THEOREM HttpTyped ==
  ASSUME "bad" \notin Framings
  PROVE  Spec => []TypeOK
<1> DEFINE I == SendInv /\ StreamInv /\ HeldCount /\ CloseShape
<1>1. Init => I
  <2> SUFFICES ASSUME Init PROVE I
    OBVIOUS
  <2>1. SendInv /\ StreamInv
    BY HttpInitInv, StreamInit
  <2>2. Admitted = {} /\ held = 0 /\ Ceiling \in Nat
    BY CallsType DEF Init, Admitted
  <2>3. HeldCount
    BY <2>2, FS_EmptySet DEF HeldCount
  <2>4. CloseShape
    BY DEF Init, CloseShape
  <2> QED
    BY <2>1, <2>3, <2>4
<1>2. I /\ [Next]_vars => I'
  <2> SUFFICES ASSUME I, [Next]_vars PROVE I'
    OBVIOUS
  <2>1. SendInv' /\ StreamInv'
    BY SendStepInv, StreamStepInv
  <2>2. HeldCount'
    BY HeldStep DEF SendInv
  <2>3. CloseShape'
    BY CloseStep
  <2> QED
    BY <2>1, <2>2, <2>3
<1>3. I => TypeOK
  <2> SUFFICES ASSUME I PROVE TypeOK
    OBVIOUS
  <2>1. held \in 0..Ceiling
    BY AdmittedFinite, FS_CardinalityType, CallsType DEF HeldCount
  <2> QED
    BY <2>1 DEF SendInv, HttpShape, StreamInv, StreamShape, CloseShape, TypeOK
<1> QED
  BY <1>1, <1>2, <1>3, PTL DEF Spec
=============================================================================
