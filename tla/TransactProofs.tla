--------------------------- MODULE TransactProofs ---------------------------
(***************************************************************************)
(* Proofs about Transact, for every number of transactions, processes and  *)
(* sites, every set of builds and every retry bound. No assumption is made *)
(* on the instance lock: the theorems hold with any number of processes    *)
(* executing and replaying at the same time.                               *)
(*                                                                         *)
(* The properties are not inductive by themselves. What a replay does      *)
(* comes from the rows it scanned earlier (TodoDecided), what a retry loop *)
(* does from the branch that entered it (ExecDecided), and a live block    *)
(* that has not reached its branch must be alone with its transaction      *)
(* (EarlyAlone), or a late `verify` could contradict a running slot.       *)
(***************************************************************************)
EXTENDS Transact, TLAPS

Early  == {"verify", "begin", "branch"}
InSlot == {"call", "calling", "mark"}
Ats    == {"idle"} \cup Early \cup InSlot
Execs  == [at : Ats, slot : Slots \cup {"none"}, tries : 0..MaxAttempts]

\* verify chose slot s for t.
Decided(t, s) == verdict[t] = IF s = "commit" THEN "true" ELSE "false"
\* The row of t names slot s.
Logged(t, s) == row[t] \in IF s = "commit" THEN {"commit_pending", "committed", "stuck"}
                                           ELSE {"compensate_pending", "compensated", "stuck"}

\* A live block that has not reached its branch is alone with t, and has left
\* no trace of a slot.
Alone(p, t) ==
  /\ \A q \in Procs : q # p => At(q, t, "idle")
  /\ \A q \in Procs, s \in Slots : <<t, s>> \notin todo[q]
  /\ t \in net /\ tried[t] = {}
  /\ IF At(p, t, "verify") THEN verdict[t] = "none" ELSE verdict[t] \in Verdicts
  /\ IF At(p, t, "branch") THEN row[t] = "pending" \/ (row[t] = "none" /\ t \in badlog)
                           ELSE row[t] = "none"

EarlyAlone(t) == \A p \in Procs : exec[p][t].at \in Early => Alone(p, t)

ExecDecided(t) ==
  \A p \in Procs :
    /\ exec[p][t].at \in InSlot =>
         /\ exec[p][t].slot \in Slots
         /\ Decided(t, exec[p][t].slot)
         /\ t \in badlog \/ Logged(t, exec[p][t].slot)
    /\ At(p, t, "mark") => exec[p][t].slot \in done[t]
    /\ At(p, t, "calling") => exec[p][t].tries < MaxAttempts

TodoDecided(t) ==
  \A p \in Procs, s \in Slots : <<t, s>> \in todo[p] => Decided(t, s) /\ Logged(t, s)

RowDecided(t) ==
  /\ row[t] \in {"commit_pending", "committed"} => Decided(t, "commit")
  /\ row[t] \in {"compensate_pending", "compensated"} => Decided(t, "compensate")
  /\ row[t] # "none" => verdict[t] # "none"
  /\ t \notin net => verdict[t] = "none"

\* The three properties, for one transaction.
Safe(t) ==
  /\ \A s \in tried[t] : Decided(t, s) /\ (t \in badlog \/ Logged(t, s))
  /\ row[t] = "committed" => "commit" \in done[t]
  /\ row[t] = "compensated" => "compensate" \in done[t]

TxnInv(t) == EarlyAlone(t) /\ ExecDecided(t) /\ TodoDecided(t) /\ RowDecided(t) /\ Safe(t)
TxInv     == TypeOK /\ \A t \in Txns : TxnInv(t)

-----------------------------------------------------------------------------
(***************************************************************************)
(* What the three ways to write exec do.                                   *)
(***************************************************************************)
\* exec changes at p and t only, to a record with these fields.
Moves(p, t, l, s, n) ==
  /\ exec' \in [Procs -> [Txns -> Execs]]
  /\ exec'[p][t].at = l /\ exec'[p][t].slot = s /\ exec'[p][t].tries = n
  /\ \A q \in Procs, u \in Txns : (q # p \/ u # t) => exec'[q][u] = exec[q][u]

\* The type of exec, with the labels grouped.
LEMMA ExecType == TypeOK => exec \in [Procs -> [Txns -> Execs]]
  BY DEF TypeOK, Execs, Ats, Early, InSlot

\* One entry of exec is replaced.
LEMMA MovesTo ==
  ASSUME TypeOK, NEW p \in Procs, NEW t \in Txns, NEW l \in Ats,
         NEW s \in Slots \cup {"none"}, NEW n \in 0..MaxAttempts,
         exec' = [exec EXCEPT ![p][t] = [at |-> l, slot |-> s, tries |-> n]]
  PROVE  Moves(p, t, l, s, n)
<1> DEFINE e == [at |-> l, slot |-> s, tries |-> n]
<1>1. e \in Execs
  BY DEF Execs
<1>2. exec' \in [Procs -> [Txns -> Execs]] /\ exec'[p][t] = e
  BY <1>1, ExecType
<1>3. \A q \in Procs, u \in Txns : (q # p \/ u # t) => exec'[q][u] = exec[q][u]
  BY ExecType
<1> QED
  BY <1>2, <1>3 DEF Moves

\* Go changes the label and nothing else.
LEMMA GoMoves ==
  ASSUME TypeOK, NEW p \in Procs, NEW t \in Txns, NEW l \in Ats, Go(p, t, l)
  PROVE  Moves(p, t, l, exec[p][t].slot, exec[p][t].tries)
<1> DEFINE e == [at |-> l, slot |-> exec[p][t].slot, tries |-> exec[p][t].tries]
<1>1. exec[p][t] \in Execs
  BY ExecType
<1>2. [exec[p][t] EXCEPT !.at = l] = e
  BY <1>1 DEF Execs
<1>3. exec[p][t].slot \in Slots \cup {"none"} /\ exec[p][t].tries \in 0..MaxAttempts
  BY <1>1 DEF Execs
<1>4. exec' = [exec EXCEPT ![p][t] = e]
  BY <1>2 DEF Go
<1> QED
  BY <1>3, <1>4, MovesTo

\* Finish clears the entry.
LEMMA FinishMoves ==
  ASSUME TypeOK, NEW p \in Procs, NEW t \in Txns, Finish(p, t)
  PROVE  Moves(p, t, "idle", "none", 0)
<1>1. "idle" \in Ats /\ 0 \in 0..MaxAttempts
  BY Attempts DEF Ats
<1>2. exec' = [exec EXCEPT ![p][t] = [at |-> "idle", slot |-> "none", tries |-> 0]]
  BY DEF Finish, Idle
<1> QED
  BY <1>1, <1>2, MovesTo

\* Enter puts the retry loop at its start.
LEMMA EnterMoves ==
  ASSUME TypeOK, NEW p \in Procs, NEW t \in Txns, NEW s \in Slots, Enter(p, t, s)
  PROVE  Moves(p, t, "call", s, 0)
<1>1. "call" \in Ats /\ 0 \in 0..MaxAttempts
  BY Attempts DEF Ats, InSlot
<1>2. exec' = [exec EXCEPT ![p][t] = [at |-> "call", slot |-> s, tries |-> 0]]
  BY DEF Enter
<1> QED
  BY <1>1, <1>2, MovesTo

-----------------------------------------------------------------------------
(***************************************************************************)
(* A step is about one transaction; the others see nothing of it.          *)
(***************************************************************************)
\* Nothing about u has changed, but that rows of u may have left the scans.
Same(u) ==
  /\ \A q \in Procs : exec'[q][u] = exec[q][u]
  /\ \A q \in Procs, s \in Slots : <<u, s>> \in todo'[q] => <<u, s>> \in todo[q]
  /\ verdict'[u] = verdict[u] /\ row'[u] = row[u]
  /\ tried'[u] = tried[u] /\ done'[u] = done[u]
  /\ (u \in net') = (u \in net) /\ (u \in badlog') = (u \in badlog)

\* What is true of a transaction stays true of it when it is left alone.
LEMMA LeftAlone ==
  ASSUME NEW u \in Txns, TxnInv(u), Same(u) PROVE TxnInv(u)'
<1> USE DEF Same, TxnInv
<1>1. EarlyAlone(u)'
  BY DEF EarlyAlone, Alone, At
<1>2. ExecDecided(u)'
  BY DEF ExecDecided, Decided, Logged, At
<1>3. TodoDecided(u)'
  BY DEF TodoDecided, Decided, Logged
<1>4. RowDecided(u)'
  BY DEF RowDecided, Decided
<1>5. Safe(u)'
  BY DEF Safe, Decided, Logged
<1> QED
  BY <1>1, <1>2, <1>3, <1>4, <1>5

\* So a step of t need only be looked at for t.
LEMMA OneTxn ==
  ASSUME TxInv, NEW t \in Txns, TypeOK', TxnInv(t)', \A u \in Txns : u # t => Same(u)
  PROVE  TxInv'
  BY LeftAlone DEF TxInv

\* No process runs and no row exists: Init establishes the invariant.
LEMMA TxInitInv == Init => TxInv
<1> SUFFICES ASSUME Init PROVE TxInv
  OBVIOUS
<1>1. Idle \in [at : {"idle", "verify", "begin", "branch", "call", "calling", "mark"},
                slot : Slots \cup {"none"}, tries : 0..MaxAttempts]
  BY Attempts DEF Idle
<1>2. TypeOK
  BY <1>1 DEF Init, TypeOK
<1>3. ASSUME NEW t \in Txns PROVE TxnInv(t)
  <2>1. \A p \in Procs : exec[p][t].at = "idle"
    BY DEF Init, Idle
  <2> QED
    BY <2>1 DEF Init, TxnInv, EarlyAlone, ExecDecided, TodoDecided, RowDecided, Safe, At, Early, InSlot
<1> QED
  BY <1>2, <1>3 DEF TxInv

-----------------------------------------------------------------------------
(***************************************************************************)
(* The retry loop.                                                         *)
(***************************************************************************)
\* Nobody executes t before its branch, and nobody starts to.
LEMMA StaysLate ==
  ASSUME NEW p \in Procs, NEW t \in Txns, NEW l, NEW s, NEW n, Moves(p, t, l, s, n),
         \A q \in Procs : exec[q][t].at \notin Early, l \notin Early
  PROVE  EarlyAlone(t)'
  BY DEF Moves, EarlyAlone

\* A process in a slot of t excludes a block of t before its branch.
LEMMA SlotIsLate ==
  ASSUME NEW p \in Procs, NEW t \in Txns, EarlyAlone(t), exec[p][t].at \in InSlot
  PROVE  \A q \in Procs : exec[q][t].at \notin Early
  BY DEF EarlyAlone, Alone, At, Early, InSlot

\* An attempt of the slot is about to be made, for t's decision.
LEMMA AttemptStep ==
  ASSUME TxInv, NEW p \in Procs, NEW t \in Txns, Attempt(p, t)
  PROVE  TxInv'
<1> DEFINE s == exec[p][t].slot
<1>1. TypeOK /\ EarlyAlone(t) /\ ExecDecided(t) /\ TodoDecided(t) /\ RowDecided(t) /\ Safe(t)
  BY DEF TxInv, TxnInv
<1>2. exec[p][t].at = "call" /\ exec[p][t].tries < MaxAttempts
  BY DEF Attempt, At
<1>3. Moves(p, t, "calling", s, exec[p][t].tries)
  BY <1>1, GoMoves DEF Attempt, Ats, InSlot
<1>4. s \in Slots /\ Decided(t, s) /\ (t \in badlog \/ Logged(t, s))
  BY <1>1, <1>2 DEF ExecDecided, InSlot
<1>5. UNCHANGED <<phase, build, hold, lockTable, todo, site, verdict, row, net, done, badlog>>
  BY DEF Attempt, process
<1>6. tried' = [tried EXCEPT ![t] = @ \cup {s}] /\ tried \in [Txns -> SUBSET Slots]
  BY <1>1 DEF Attempt, TypeOK
<1>7. TypeOK'
  BY <1>1, <1>3, <1>4, <1>5, <1>6 DEF TypeOK, Moves, Execs, Ats, Early, InSlot
<1>8. EarlyAlone(t)'
  BY <1>1, <1>2, <1>3, SlotIsLate, StaysLate DEF Early, InSlot
<1>9. ExecDecided(t)'
  BY <1>1, <1>2, <1>3, <1>4, <1>5 DEF ExecDecided, Decided, Logged, Moves, At
<1>10. TodoDecided(t)' /\ RowDecided(t)'
  BY <1>1, <1>5 DEF TodoDecided, RowDecided, Decided, Logged
<1>11. Safe(t)'
  BY <1>1, <1>4, <1>5, <1>6 DEF Safe, Decided, Logged
<1>12. \A u \in Txns : u # t => Same(u)
  BY <1>3, <1>5, <1>6 DEF Same, Moves
<1> QED
  BY <1>7, <1>8, <1>9, <1>10, <1>11, <1>12, OneTxn DEF TxnInv

\* The slot succeeded.
LEMMA AttemptOkStep ==
  ASSUME TxInv, NEW p \in Procs, NEW t \in Txns, AttemptOk(p, t)
  PROVE  TxInv'
<1> DEFINE s == exec[p][t].slot
<1>1. TypeOK /\ EarlyAlone(t) /\ ExecDecided(t) /\ TodoDecided(t) /\ RowDecided(t) /\ Safe(t)
  BY DEF TxInv, TxnInv
<1>2. exec[p][t].at = "calling"
  BY DEF AttemptOk, At
<1>3. Moves(p, t, "mark", s, exec[p][t].tries)
  BY <1>1, GoMoves DEF AttemptOk, Ats, InSlot
<1>4. s \in Slots /\ Decided(t, s) /\ (t \in badlog \/ Logged(t, s))
  BY <1>1, <1>2 DEF ExecDecided, InSlot
<1>5. UNCHANGED <<phase, build, hold, lockTable, todo, site, verdict, row, net, tried, badlog>>
  BY DEF AttemptOk, process
<1>6. done' = [done EXCEPT ![t] = @ \cup {s}] /\ done \in [Txns -> SUBSET Slots]
  BY <1>1 DEF AttemptOk, TypeOK
<1>7. TypeOK'
  BY <1>1, <1>3, <1>4, <1>5, <1>6 DEF TypeOK, Moves, Execs, Ats, Early, InSlot
<1>8. EarlyAlone(t)'
  BY <1>1, <1>2, <1>3, SlotIsLate, StaysLate DEF Early, InSlot
<1>9. ExecDecided(t)'
  BY <1>1, <1>2, <1>3, <1>4, <1>5, <1>6 DEF ExecDecided, Decided, Logged, Moves, At
<1>10. TodoDecided(t)' /\ RowDecided(t)'
  BY <1>1, <1>5 DEF TodoDecided, RowDecided, Decided, Logged
<1>11. Safe(t)'
  BY <1>1, <1>5, <1>6 DEF Safe, Decided, Logged
<1>12. \A u \in Txns : u # t => Same(u)
  BY <1>3, <1>5, <1>6 DEF Same, Moves
<1> QED
  BY <1>7, <1>8, <1>9, <1>10, <1>11, <1>12, OneTxn DEF TxnInv

\* The slot failed and will be tried again.
LEMMA AttemptErrStep ==
  ASSUME TxInv, NEW p \in Procs, NEW t \in Txns, AttemptErr(p, t)
  PROVE  TxInv'
<1> DEFINE s == exec[p][t].slot
           n == exec[p][t].tries + 1
<1>1. TypeOK /\ EarlyAlone(t) /\ ExecDecided(t) /\ TodoDecided(t) /\ RowDecided(t) /\ Safe(t)
  BY DEF TxInv, TxnInv
<1>2. exec[p][t].at = "calling"
  BY DEF AttemptErr, At
<1>3. s \in Slots /\ Decided(t, s) /\ (t \in badlog \/ Logged(t, s))
  BY <1>1, <1>2 DEF ExecDecided, InSlot
<1>4. exec \in [Procs -> [Txns -> Execs]]
  BY <1>1, ExecType
<1>5. n \in 0..MaxAttempts /\ "call" \in Ats
  BY <1>1, <1>2, <1>4, Attempts DEF ExecDecided, At, Execs, Ats, InSlot
<1>6. exec' = [exec EXCEPT ![p][t] = [at |-> "call", slot |-> s, tries |-> n]]
  BY <1>4 DEF AttemptErr
<1>7. Moves(p, t, "call", s, n)
  BY <1>1, <1>3, <1>5, <1>6, MovesTo
<1>8. UNCHANGED <<phase, build, hold, lockTable, todo, site, verdict, row, net, tried, done, badlog>>
  BY DEF AttemptErr, process
<1>9. TypeOK'
  BY <1>1, <1>7, <1>8 DEF TypeOK, Moves, Execs, Ats, Early, InSlot
<1>10. EarlyAlone(t)'
  BY <1>1, <1>2, <1>7, SlotIsLate, StaysLate DEF Early, InSlot
<1>11. ExecDecided(t)'
  BY <1>1, <1>3, <1>7, <1>8 DEF ExecDecided, Decided, Logged, Moves, At
<1>12. TodoDecided(t)' /\ RowDecided(t)' /\ Safe(t)'
  BY <1>1, <1>8 DEF TodoDecided, RowDecided, Safe, Decided, Logged
<1>13. \A u \in Txns : u # t => Same(u)
  BY <1>7, <1>8 DEF Same, Moves
<1> QED
  BY <1>9, <1>10, <1>11, <1>12, <1>13, OneTxn DEF TxnInv

\* A step that only ends p's execution of t: the attempts are used up, or
\* there is nothing to compensate.
LEMMA EndStep ==
  ASSUME TxInv, NEW p \in Procs, NEW t \in Txns, Finish(p, t),
         UNCHANGED <<process, site, verdict, row, net, tried, done, badlog>>
  PROVE  TxInv'
<1>1. TypeOK /\ EarlyAlone(t) /\ ExecDecided(t) /\ TodoDecided(t) /\ RowDecided(t) /\ Safe(t)
  BY DEF TxInv, TxnInv
<1>2. Moves(p, t, "idle", "none", 0)
  BY <1>1, FinishMoves
<1>3. UNCHANGED <<phase, build, hold, lockTable, todo, site, verdict, row, net, tried, done, badlog>>
  BY DEF process
<1>4. TypeOK'
  BY <1>1, <1>2, <1>3 DEF TypeOK, Moves, Execs, Ats, Early, InSlot
<1>5. EarlyAlone(t)'
  BY <1>1, <1>2, <1>3 DEF EarlyAlone, Alone, Moves, At, Early
<1>6. ExecDecided(t)'
  BY <1>1, <1>2, <1>3 DEF ExecDecided, Decided, Logged, Moves, At, InSlot
<1>7. TodoDecided(t)' /\ RowDecided(t)' /\ Safe(t)'
  BY <1>1, <1>3 DEF TodoDecided, RowDecided, Safe, Decided, Logged
<1>8. \A u \in Txns : u # t => Same(u)
  BY <1>2, <1>3 DEF Same, Moves
<1> QED
  BY <1>4, <1>5, <1>6, <1>7, <1>8, OneTxn DEF TxnInv

\* What a write that may fail does to the log.
LEMMA Writes ==
  ASSUME TypeOK, NEW t \in Txns, NEW w \in {"none", "pending"} \cup Pending \cup Terminal,
         Write(t, w)
  PROVE  /\ row' \in [Txns -> {"none", "pending"} \cup Pending \cup Terminal]
         /\ badlog' \subseteq Txns /\ badlog \subseteq badlog'
         /\ \/ row'[t] = w /\ badlog' = badlog
            \/ row'[t] = row[t] /\ t \in badlog'
         /\ \A u \in Txns : u # t => row'[u] = row[u] /\ (u \in badlog') = (u \in badlog)
<1>1. row \in [Txns -> {"none", "pending"} \cup Pending \cup Terminal] /\ badlog \subseteq Txns
  BY DEF TypeOK
<1>2. CASE row' = [row EXCEPT ![t] = w] /\ badlog' = badlog
  BY <1>1, <1>2
<1>3. CASE badlog' = badlog \cup {t} /\ row' = row
  BY <1>1, <1>3
<1> QED
  BY <1>2, <1>3 DEF Write

\* A slot's success is recorded in the row, if there is one.
LEMMA MarkDoneStep ==
  ASSUME TxInv, NEW p \in Procs, NEW t \in Txns, MarkDone(p, t)
  PROVE  TxInv'
<1> DEFINE s == exec[p][t].slot
           w == IF row[t] = "none" THEN "none"
                ELSE IF s = "commit" THEN "committed" ELSE "compensated"
<1>1. TypeOK /\ EarlyAlone(t) /\ ExecDecided(t) /\ TodoDecided(t) /\ RowDecided(t) /\ Safe(t)
  BY DEF TxInv, TxnInv
<1>2. exec[p][t].at = "mark"
  BY DEF MarkDone, At
<1>3. s \in Slots /\ Decided(t, s) /\ (t \in badlog \/ Logged(t, s)) /\ s \in done[t]
  BY <1>1, <1>2 DEF ExecDecided, InSlot, At
<1>4. Moves(p, t, "idle", "none", 0)
  BY <1>1, FinishMoves DEF MarkDone
<1>5. UNCHANGED <<phase, build, hold, lockTable, todo, site, verdict, net, tried, done>>
  BY DEF MarkDone, process
<1>6. /\ row' \in [Txns -> {"none", "pending"} \cup Pending \cup Terminal]
      /\ badlog' \subseteq Txns /\ badlog \subseteq badlog'
      /\ \/ row'[t] = w /\ badlog' = badlog
         \/ row'[t] = row[t] /\ t \in badlog'
      /\ \A u \in Txns : u # t => row'[u] = row[u] /\ (u \in badlog') = (u \in badlog)
  <2>1. w \in {"none", "pending"} \cup Pending \cup Terminal /\ Write(t, w)
    BY DEF MarkDone, Update, Terminal
  <2> QED
    BY <1>1, <2>1, Writes
<1>7. TypeOK'
  BY <1>1, <1>4, <1>5, <1>6 DEF TypeOK, Moves, Execs, Ats, Early, InSlot
<1>8. EarlyAlone(t)'
  BY <1>1, <1>2, <1>4, SlotIsLate, StaysLate DEF Early, InSlot
<1>9. \A r \in Slots : Decided(t, r) => r = s
  BY <1>3 DEF Decided, Slots
<1>10. \A r \in Slots : Logged(t, r) /\ Decided(t, r) => Logged(t, r)'
  BY <1>6, <1>9 DEF Logged, Slots
<1>11. \A r \in Slots : (t \in badlog \/ Logged(t, r)) /\ Decided(t, r) => (t \in badlog' \/ Logged(t, r)')
  BY <1>6, <1>10
<1>12. \A r \in Slots : Decided(t, r) => Decided(t, r)'
  BY <1>5 DEF Decided
<1>13. ExecDecided(t)'
  BY <1>1, <1>4, <1>5, <1>11, <1>12 DEF ExecDecided, Moves, At, InSlot
<1>14. TodoDecided(t)'
  BY <1>1, <1>5, <1>10, <1>12 DEF TodoDecided
<1>15. RowDecided(t)'
  BY <1>1, <1>3, <1>5, <1>6 DEF RowDecided, Decided, Slots
<1>16. Safe(t)'
  <2>1. tried[t] \subseteq Slots
    BY <1>1 DEF TypeOK
  <2>2. \A r \in tried'[t] : Decided(t, r)' /\ (t \in badlog' \/ Logged(t, r)')
    BY <1>1, <1>5, <1>11, <1>12, <2>1 DEF Safe
  <2>3. row'[t] = "committed" => "commit" \in done'[t]
    BY <1>1, <1>3, <1>5, <1>6 DEF Safe, Slots
  <2>4. row'[t] = "compensated" => "compensate" \in done'[t]
    BY <1>1, <1>3, <1>5, <1>6 DEF Safe, Slots
  <2> QED
    BY <2>2, <2>3, <2>4 DEF Safe
<1>17. \A u \in Txns : u # t => Same(u)
  BY <1>4, <1>5, <1>6 DEF Same, Moves
<1> QED
  BY <1>7, <1>8, <1>13, <1>14, <1>15, <1>16, <1>17, OneTxn DEF TxnInv

-----------------------------------------------------------------------------
(***************************************************************************)
(* The live block, up to its branch.                                       *)
(***************************************************************************)
\* A transaction that has not begun has left nothing anywhere.
LEMMA NetworkStep ==
  ASSUME TxInv, NEW p \in Procs, NEW t \in Txns, NEW x \in Sites, Network(p, t, x)
  PROVE  TxInv'
<1>1. TypeOK /\ EarlyAlone(t) /\ ExecDecided(t) /\ TodoDecided(t) /\ RowDecided(t) /\ Safe(t)
  BY DEF TxInv, TxnInv
<1>2. verdict[t] = "none" /\ row[t] = "none" /\ t \notin net
  BY <1>1 DEF Network, RowDecided
<1>3. \A s \in Slots : ~Decided(t, s)
  BY <1>2 DEF Decided
<1>4. \A q \in Procs : exec[q][t].at = "idle"
  <2>1. \A q \in Procs : exec[q][t].at \in Ats
    BY <1>1, ExecType DEF Execs
  <2> QED
    BY <1>1, <1>2, <1>3, <2>1 DEF EarlyAlone, Alone, ExecDecided, Ats
<1>5. \A q \in Procs, s \in Slots : <<t, s>> \notin todo[q]
  BY <1>1, <1>3 DEF TodoDecided
<1>6. tried[t] = {}
  BY <1>1, <1>3 DEF Safe, TypeOK
<1>7. Moves(p, t, "verify", exec[p][t].slot, exec[p][t].tries)
  BY <1>1, GoMoves DEF Network, Ats, Early
<1>8. /\ UNCHANGED <<phase, build, hold, lockTable, todo, verdict, row, tried, done, badlog>>
      /\ net' = net \cup {t} /\ site' = [site EXCEPT ![t] = x]
  BY DEF Network, process
<1>9. TypeOK'
  BY <1>1, <1>7, <1>8 DEF TypeOK, Moves, Execs, Ats, Early, InSlot
<1>10. EarlyAlone(t)'
  BY <1>2, <1>4, <1>5, <1>6, <1>7, <1>8 DEF EarlyAlone, Alone, Moves, At, Early
<1>11. ExecDecided(t)'
  BY <1>4, <1>7 DEF ExecDecided, Moves, At, InSlot
<1>12. TodoDecided(t)' /\ RowDecided(t)' /\ Safe(t)'
  BY <1>2, <1>5, <1>6, <1>8 DEF TodoDecided, RowDecided, Safe
<1>13. \A u \in Txns : u # t => Same(u)
  BY <1>7, <1>8 DEF Same, Moves
<1> QED
  BY <1>9, <1>10, <1>11, <1>12, <1>13, OneTxn DEF TxnInv

\* Nothing has acted on a verdict before verify gives it.
LEMMA VerifyStep ==
  ASSUME TxInv, NEW p \in Procs, NEW t \in Txns, NEW v \in Verdicts, Verify(p, t, v)
  PROVE  TxInv'
<1>1. TypeOK /\ EarlyAlone(t) /\ ExecDecided(t) /\ TodoDecided(t) /\ RowDecided(t) /\ Safe(t)
  BY DEF TxInv, TxnInv
<1>2. exec[p][t].at = "verify" /\ Alone(p, t) /\ row[t] = "none"
  BY <1>1 DEF Verify, EarlyAlone, Alone, At, Early
<1>3. Moves(p, t, "begin", exec[p][t].slot, exec[p][t].tries)
  BY <1>1, GoMoves DEF Verify, Ats, Early
<1>4. /\ UNCHANGED <<phase, build, hold, lockTable, todo, site, row, net, tried, done, badlog>>
      /\ verdict' = [verdict EXCEPT ![t] = v] /\ verdict \in [Txns -> Verdicts \cup {"none"}]
  BY <1>1 DEF Verify, process, TypeOK
<1>5. TypeOK'
  BY <1>1, <1>3, <1>4 DEF TypeOK, Moves, Execs, Ats, Early, InSlot
<1>6. EarlyAlone(t)'
  BY <1>2, <1>3, <1>4 DEF EarlyAlone, Alone, Moves, At, Early
<1>7. ExecDecided(t)'
  BY <1>2, <1>3 DEF ExecDecided, Alone, Moves, At, InSlot
<1>8. TodoDecided(t)' /\ RowDecided(t)' /\ Safe(t)'
  BY <1>2, <1>4 DEF TodoDecided, RowDecided, Safe, Alone
<1>9. \A u \in Txns : u # t => Same(u)
  BY <1>3, <1>4 DEF Same, Moves
<1> QED
  BY <1>5, <1>6, <1>7, <1>8, <1>9, OneTxn DEF TxnInv

\* The row is inserted, or the log write fails.
LEMMA BeginStep ==
  ASSUME TxInv, NEW p \in Procs, NEW t \in Txns, nir_transact_begin(p, t)
  PROVE  TxInv'
<1>1. TypeOK /\ EarlyAlone(t) /\ ExecDecided(t) /\ TodoDecided(t) /\ RowDecided(t) /\ Safe(t)
  BY DEF TxInv, TxnInv
<1>2. exec[p][t].at = "begin" /\ Alone(p, t) /\ row[t] = "none" /\ verdict[t] \in Verdicts
  BY <1>1 DEF nir_transact_begin, EarlyAlone, Alone, At, Early
<1>3. Moves(p, t, "branch", exec[p][t].slot, exec[p][t].tries)
  BY <1>1, GoMoves DEF nir_transact_begin, Ats, Early
<1>4. UNCHANGED <<phase, build, hold, lockTable, todo, site, verdict, net, tried, done>>
  BY DEF nir_transact_begin, process
<1>5. /\ row' \in [Txns -> {"none", "pending"} \cup Pending \cup Terminal]
      /\ badlog' \subseteq Txns /\ badlog \subseteq badlog'
      /\ \/ row'[t] = "pending" /\ badlog' = badlog
         \/ row'[t] = row[t] /\ t \in badlog'
      /\ \A u \in Txns : u # t => row'[u] = row[u] /\ (u \in badlog') = (u \in badlog)
  <2>1. "pending" \in {"none", "pending"} \cup Pending \cup Terminal /\ Write(t, "pending")
    BY DEF nir_transact_begin
  <2> QED
    BY <1>1, <2>1, Writes
<1>6. TypeOK'
  BY <1>1, <1>3, <1>4, <1>5 DEF TypeOK, Moves, Execs, Ats, Early, InSlot
<1>7. EarlyAlone(t)'
  BY <1>2, <1>3, <1>4, <1>5 DEF EarlyAlone, Alone, Moves, At, Early
<1>8. ExecDecided(t)'
  BY <1>2, <1>3 DEF ExecDecided, Alone, Moves, At, InSlot
<1>9. TodoDecided(t)' /\ RowDecided(t)' /\ Safe(t)'
  BY <1>2, <1>4, <1>5 DEF TodoDecided, RowDecided, Safe, Alone, Verdicts
<1>10. \A u \in Txns : u # t => Same(u)
  BY <1>3, <1>4, <1>5 DEF Same, Moves
<1> QED
  BY <1>6, <1>7, <1>8, <1>9, <1>10, OneTxn DEF TxnInv

\* mark_commit_pending and mark_compensate_pending: the slot verify chose is
\* logged and entered.
LEMMA BranchStep ==
  ASSUME TxInv, NEW p \in Procs, NEW t \in Txns, NEW s \in Slots,
         At(p, t, "branch"), Decided(t, s), Enter(p, t, s),
         Update(t, IF s = "commit" THEN "commit_pending" ELSE "compensate_pending"),
         UNCHANGED <<process, site, verdict, net, tried, done>>
  PROVE  TxInv'
<1> DEFINE w == IF row[t] = "none" THEN "none"
                ELSE IF s = "commit" THEN "commit_pending" ELSE "compensate_pending"
<1>1. TypeOK /\ EarlyAlone(t) /\ ExecDecided(t) /\ TodoDecided(t) /\ RowDecided(t) /\ Safe(t)
  BY DEF TxInv, TxnInv
<1>2. /\ row[t] = "pending" \/ (row[t] = "none" /\ t \in badlog)
      /\ Alone(p, t)
  BY <1>1 DEF EarlyAlone, Alone, At, Early
<1>3. Moves(p, t, "call", s, 0)
  BY <1>1, EnterMoves
<1>4. UNCHANGED <<phase, build, hold, lockTable, todo, site, verdict, net, tried, done>>
  BY DEF process
<1>5. /\ row' \in [Txns -> {"none", "pending"} \cup Pending \cup Terminal]
      /\ badlog' \subseteq Txns /\ badlog \subseteq badlog'
      /\ \/ row'[t] = w /\ badlog' = badlog
         \/ row'[t] = row[t] /\ t \in badlog'
      /\ \A u \in Txns : u # t => row'[u] = row[u] /\ (u \in badlog') = (u \in badlog)
  <2>1. w \in {"none", "pending"} \cup Pending \cup Terminal /\ Write(t, w)
    BY DEF Update, Pending
  <2> QED
    BY <1>1, <2>1, Writes
<1>6. TypeOK'
  BY <1>1, <1>3, <1>4, <1>5 DEF TypeOK, Moves, Execs, Ats, Early, InSlot
<1>7. EarlyAlone(t)'
  BY <1>2, <1>3 DEF EarlyAlone, Alone, Moves, At, Early
<1>8. Decided(t, s)' /\ (t \in badlog' \/ Logged(t, s)')
  BY <1>2, <1>4, <1>5 DEF Decided, Logged
<1>9. ExecDecided(t)'
  BY <1>2, <1>3, <1>8 DEF ExecDecided, Alone, Moves, At, InSlot
<1>10. TodoDecided(t)'
  BY <1>2, <1>4 DEF TodoDecided, Alone
<1>11. RowDecided(t)'
  BY <1>1, <1>2, <1>4, <1>5 DEF RowDecided, Decided, Slots
<1>12. Safe(t)'
  BY <1>2, <1>4, <1>5 DEF Safe, Alone
<1>13. \A u \in Txns : u # t => Same(u)
  BY <1>3, <1>4, <1>5 DEF Same, Moves
<1> QED
  BY <1>6, <1>7, <1>9, <1>10, <1>11, <1>12, <1>13, OneTxn DEF TxnInv

-----------------------------------------------------------------------------
(***************************************************************************)
(* Start, replay and crash.                                                *)
(***************************************************************************)
\* What a scan finds is decided and logged, and nobody is before the branch of
\* a transaction it finds.
LEMMA StartStep ==
  ASSUME TxInv, NEW p \in Procs, NEW b \in Builds, NEW rows \in {scan_pending_rows, {}},
         Start(p, b, rows)
  PROVE  TxInv'
<1>1. TypeOK /\ \A t \in Txns : TxnInv(t)
  BY DEF TxInv
<1>2. UNCHANGED <<exec, site, verdict, row, net, tried, done, badlog>>
  BY DEF Start
<1>3. /\ phase' = [phase EXCEPT ![p] = "replaying"] /\ build' = [build EXCEPT ![p] = b]
      /\ todo' = [todo EXCEPT ![p] = rows]
      /\ hold' = [hold EXCEPT ![p] = IF lockTable THEN "shared" ELSE "exclusive"]
      /\ lockTable' = TRUE
  BY DEF Start, Acquire
<1>4. \A t \in Txns, s \in Slots : <<t, s>> \in rows =>
         \/ s = "commit" /\ row[t] = "commit_pending"
         \/ s = "compensate" /\ row[t] = "compensate_pending"
  BY DEF scan_pending_rows, Pending
<1>5. rows \subseteq Txns \X Slots
  BY DEF scan_pending_rows, Slots
<1>6. TypeOK'
  <2>1. b \subseteq Sites
    BY SitesOk
  <2> QED
    BY <1>1, <1>2, <1>3, <1>5, <2>1 DEF TypeOK
<1>7. \A q \in Procs : todo'[q] = IF q = p THEN rows ELSE todo[q]
  BY <1>1, <1>3 DEF TypeOK
<1>8. ASSUME NEW t \in Txns PROVE TxnInv(t)'
  <2>1. EarlyAlone(t) /\ ExecDecided(t) /\ TodoDecided(t) /\ RowDecided(t) /\ Safe(t)
    BY <1>1 DEF TxnInv
  <2>2. TodoDecided(t)'
    BY <1>2, <1>4, <1>7, <2>1 DEF TodoDecided, RowDecided, Decided, Logged
  <2>3. EarlyAlone(t)'
    <3> SUFFICES ASSUME NEW q \in Procs, exec[q][t].at \in Early PROVE Alone(q, t)'
      BY <1>2 DEF EarlyAlone
    <3>1. Alone(q, t) /\ row[t] \in {"none", "pending"}
      BY <2>1 DEF EarlyAlone, Alone
    <3>2. \A o \in Procs, s \in Slots : <<t, s>> \notin todo'[o]
      BY <1>4, <1>7, <3>1 DEF Alone
    <3> QED
      BY <1>2, <3>1, <3>2 DEF Alone, At
  <2>4. ExecDecided(t)' /\ RowDecided(t)' /\ Safe(t)'
    BY <1>2, <2>1 DEF ExecDecided, RowDecided, Safe, Decided, Logged, At
  <2> QED
    BY <2>2, <2>3, <2>4 DEF TxnInv
<1> QED
  BY <1>6, <1>8 DEF TxInv

\* Replay enters the slot the scanned row asked for.
LEMMA ReplayRowStep ==
  ASSUME TxInv, NEW p \in Procs, NEW t \in Txns, NEW s \in Slots, ReplayRow(p, t, s)
  PROVE  TxInv'
<1>1. TypeOK /\ EarlyAlone(t) /\ ExecDecided(t) /\ TodoDecided(t) /\ RowDecided(t) /\ Safe(t)
  BY DEF TxInv, TxnInv
<1>2. <<t, s>> \in todo[p] /\ todo' = [todo EXCEPT ![p] = @ \ {<<t, s>>}]
  BY DEF ReplayRow, NextRow
<1>3. Decided(t, s) /\ Logged(t, s)
  BY <1>1, <1>2 DEF TodoDecided
<1>4. \A q \in Procs : exec[q][t].at \notin Early
  BY <1>1, <1>2 DEF EarlyAlone, Alone
<1>5. Moves(p, t, "call", s, 0)
  BY <1>1, EnterMoves DEF ReplayRow
<1>6. UNCHANGED <<phase, build, hold, lockTable, site, verdict, row, net, tried, done, badlog>>
  BY DEF ReplayRow
<1>7. todo' \in [Procs -> SUBSET (Txns \X Slots)] /\ \A q \in Procs : todo'[q] \subseteq todo[q]
  BY <1>1, <1>2 DEF TypeOK
<1>8. TypeOK'
  BY <1>1, <1>5, <1>6, <1>7 DEF TypeOK, Moves, Execs, Ats, Early, InSlot
<1>9. EarlyAlone(t)'
  BY <1>4, <1>5, StaysLate DEF Early
<1>10. ExecDecided(t)'
  BY <1>1, <1>3, <1>5, <1>6 DEF ExecDecided, Decided, Logged, Moves, At
<1>11. TodoDecided(t)' /\ RowDecided(t)' /\ Safe(t)'
  BY <1>1, <1>6, <1>7 DEF TodoDecided, RowDecided, Safe, Decided, Logged
<1>12. \A u \in Txns : u # t => Same(u)
  BY <1>5, <1>6, <1>7 DEF Same, Moves
<1> QED
  BY <1>8, <1>9, <1>10, <1>11, <1>12, OneTxn DEF TxnInv

\* A row of an unknown site is put aside; what may still run for it stays true.
LEMMA ReplayUnknownStep ==
  ASSUME TxInv, NEW p \in Procs, NEW t \in Txns, NEW s \in Slots, ReplayUnknown(p, t, s)
  PROVE  TxInv'
<1> DEFINE w == IF row[t] = "none" THEN "none" ELSE "stuck"
<1>1. TypeOK /\ EarlyAlone(t) /\ ExecDecided(t) /\ TodoDecided(t) /\ RowDecided(t) /\ Safe(t)
  BY DEF TxInv, TxnInv
<1>2. <<t, s>> \in todo[p] /\ todo' = [todo EXCEPT ![p] = @ \ {<<t, s>>}]
  BY DEF ReplayUnknown, NextRow
<1>3. Logged(t, s) /\ row[t] # "none"
  BY <1>1, <1>2 DEF TodoDecided, Logged
<1>4. \A q \in Procs : exec[q][t].at \notin Early
  BY <1>1, <1>2 DEF EarlyAlone, Alone
<1>5. UNCHANGED <<phase, build, hold, lockTable, exec, site, verdict, net, tried, done>>
  BY DEF ReplayUnknown
<1>6. /\ row' \in [Txns -> {"none", "pending"} \cup Pending \cup Terminal]
      /\ badlog' \subseteq Txns /\ badlog \subseteq badlog'
      /\ \/ row'[t] = w /\ badlog' = badlog
         \/ row'[t] = row[t] /\ t \in badlog'
      /\ \A u \in Txns : u # t => row'[u] = row[u] /\ (u \in badlog') = (u \in badlog)
  <2>1. w \in {"none", "pending"} \cup Pending \cup Terminal /\ Write(t, w)
    BY DEF ReplayUnknown, Update, Terminal
  <2> QED
    BY <1>1, <2>1, Writes
<1>7. todo' \in [Procs -> SUBSET (Txns \X Slots)] /\ \A q \in Procs : todo'[q] \subseteq todo[q]
  BY <1>1, <1>2 DEF TypeOK
<1>8. TypeOK'
  BY <1>1, <1>5, <1>6, <1>7 DEF TypeOK
<1>9. EarlyAlone(t)'
  BY <1>4, <1>5 DEF EarlyAlone
<1>10. \A r \in Slots : Logged(t, r) => Logged(t, r)'
  BY <1>3, <1>6 DEF Logged
<1>11. \A r \in Slots : Decided(t, r) => Decided(t, r)'
  BY <1>5 DEF Decided
<1>12. ExecDecided(t)'
  BY <1>1, <1>5, <1>6, <1>10, <1>11 DEF ExecDecided, At
<1>13. TodoDecided(t)'
  BY <1>1, <1>7, <1>10, <1>11 DEF TodoDecided
<1>14. RowDecided(t)'
  BY <1>1, <1>3, <1>5, <1>6 DEF RowDecided, Decided
<1>15. Safe(t)'
  <2>1. tried[t] \subseteq Slots
    BY <1>1 DEF TypeOK
  <2> QED
    BY <1>1, <1>5, <1>6, <1>10, <1>11, <2>1 DEF Safe
<1>16. \A u \in Txns : u # t => Same(u)
  BY <1>5, <1>6, <1>7 DEF Same
<1> QED
  BY <1>8, <1>9, <1>12, <1>13, <1>14, <1>15, <1>16, OneTxn DEF TxnInv

\* A crash forgets what the process was doing and nothing else.
LEMMA CrashStep ==
  ASSUME TxInv, NEW p \in Procs, Crash(p)
  PROVE  TxInv'
<1>1. TypeOK /\ \A t \in Txns : TxnInv(t)
  BY DEF TxInv
<1>2. UNCHANGED <<lockTable, site, verdict, row, net, tried, done, badlog>>
  BY DEF Crash
<1>3. /\ phase' = [phase EXCEPT ![p] = "down"] /\ build' = [build EXCEPT ![p] = {}]
      /\ todo' = [todo EXCEPT ![p] = {}] /\ hold' = [hold EXCEPT ![p] = "none"]
      /\ exec' = [exec EXCEPT ![p] = [t \in Txns |-> Idle]]
  BY DEF Crash
<1>4. Idle \in Execs /\ Idle.at = "idle"
  BY Attempts DEF Idle, Execs, Ats
<1>5. exec' \in [Procs -> [Txns -> Execs]]
  BY <1>1, <1>3, <1>4, ExecType
<1>6. \A q \in Procs, t \in Txns : exec'[q][t] = IF q = p THEN Idle ELSE exec[q][t]
  BY <1>1, <1>3, ExecType
<1>7. \A q \in Procs : todo'[q] \subseteq todo[q]
  BY <1>1, <1>3 DEF TypeOK
<1>8. TypeOK'
  BY <1>1, <1>2, <1>3, <1>5 DEF TypeOK, Execs, Ats, Early, InSlot
<1>9. ASSUME NEW t \in Txns PROVE TxnInv(t)'
  <2>1. EarlyAlone(t) /\ ExecDecided(t) /\ TodoDecided(t) /\ RowDecided(t) /\ Safe(t)
    BY <1>1 DEF TxnInv
  <2>2. EarlyAlone(t)'
    BY <1>2, <1>4, <1>6, <1>7, <2>1 DEF EarlyAlone, Alone, At, Early
  <2>3. ExecDecided(t)'
    BY <1>2, <1>4, <1>6, <2>1 DEF ExecDecided, Decided, Logged, At, InSlot
  <2>4. TodoDecided(t)' /\ RowDecided(t)' /\ Safe(t)'
    BY <1>2, <1>7, <2>1 DEF TodoDecided, RowDecided, Safe, Decided, Logged
  <2> QED
    BY <2>2, <2>3, <2>4 DEF TxnInv
<1> QED
  BY <1>8, <1>9 DEF TxInv

\* The end of the replay touches no transaction.
LEMMA ReplayDoneStep ==
  ASSUME TxInv, NEW p \in Procs, ReplayDone(p)
  PROVE  TxInv'
<1>1. TypeOK'
  BY DEF ReplayDone, TxInv, TypeOK
<1>2. \A u \in Txns : Same(u)
  BY DEF ReplayDone, Same
<1> QED
  BY <1>1, <1>2, LeftAlone DEF TxInv

-----------------------------------------------------------------------------
(***************************************************************************)
(* The invariant, and what follows from it.                                *)
(***************************************************************************)
\* Every step of a live block or a retry loop preserves the invariant.
LEMMA RunStep ==
  ASSUME TxInv, NEW p \in Procs, NEW t \in Txns, Run(p, t)
  PROVE  TxInv'
<1>1. CASE \E v \in Verdicts : Verify(p, t, v)
  BY <1>1, VerifyStep
<1>2. CASE nir_transact_begin(p, t)
  BY <1>2, BeginStep
<1>3. CASE mark_commit_pending(p, t)
  BY <1>3, BranchStep DEF mark_commit_pending, Decided, Slots
<1>4. CASE mark_compensate_pending(p, t)
  BY <1>4, BranchStep DEF mark_compensate_pending, Decided, Slots
<1>5. CASE NothingToCompensate(p, t)
  BY <1>5, EndStep DEF NothingToCompensate
<1>6. CASE Attempt(p, t)
  BY <1>6, AttemptStep
<1>7. CASE AttemptOk(p, t)
  BY <1>7, AttemptOkStep
<1>8. CASE AttemptErr(p, t)
  BY <1>8, AttemptErrStep
<1>9. CASE Exhausted(p, t)
  BY <1>9, EndStep DEF Exhausted
<1>10. CASE MarkDone(p, t)
  BY <1>10, MarkDoneStep
<1> QED
  BY <1>1, <1>2, <1>3, <1>4, <1>5, <1>6, <1>7, <1>8, <1>9, <1>10 DEF Run

\* The invariant is inductive.
LEMMA TxStepInv == TxInv /\ [Next]_vars => TxInv'
<1> SUFFICES ASSUME TxInv, [Next]_vars PROVE TxInv'
  OBVIOUS
<1>1. CASE UNCHANGED vars
  <2>1. TypeOK'
    BY <1>1 DEF vars, process, TxInv, TypeOK
  <2>2. \A u \in Txns : Same(u)
    BY <1>1 DEF vars, process, Same
  <2> QED
    BY <2>1, <2>2, LeftAlone DEF TxInv
<1>2. ASSUME NEW p \in Procs, NEW b \in Builds, NEW rows \in {scan_pending_rows, {}},
             Start(p, b, rows)
      PROVE  TxInv'
  BY <1>2, StartStep
<1>3. ASSUME NEW p \in Procs, Replay(p) PROVE TxInv'
  BY <1>3, ReplayRowStep, ReplayUnknownStep DEF Replay
<1>4. ASSUME NEW p \in Procs, ReplayDone(p) \/ Crash(p) PROVE TxInv'
  BY <1>4, ReplayDoneStep, CrashStep
<1>5. ASSUME NEW p \in Procs, NEW t \in Txns, Run(p, t) PROVE TxInv'
  BY <1>5, RunStep
<1>6. ASSUME NEW p \in Procs, NEW t \in Txns, NEW x \in Sites, Network(p, t, x) PROVE TxInv'
  BY <1>6, NetworkStep
<1> QED
  BY <1>1, <1>2, <1>3, <1>4, <1>5, <1>6 DEF Next

\* The invariant holds in every reachable state, however many processes
\* execute, replay and crash.
THEOREM TransactInvariance == Spec => []TxInv
  BY TxInitInv, TxStepInv, PTL DEF Spec

\* Every variable has its type; a slot is never attempted more than
\* MaxAttempts times in one execution of the retry loop.
THEOREM TransactTyped == Spec => []TypeOK
<1>1. TxInv => TypeOK
  BY DEF TxInv
<1> QED
  BY <1>1, TransactInvariance, PTL

\* A slot that is called, live or in a replay, is the one verify chose: a
\* transaction never both commits and compensates.
THEOREM OutcomeUnique == Spec => []OneOutcome
<1>1. TxInv => OneOutcome
  BY DEF TxInv, TxnInv, Safe, Decided, OneOutcome
<1> QED
  BY <1>1, TransactInvariance, PTL

\* A row that mark_committed (mark_compensated) has written is right.
THEOREM RowsTrue == Spec => []TerminalRowIsTrue
<1>1. TxInv => TerminalRowIsTrue
  BY DEF TxInv, TxnInv, Safe, TerminalRowIsTrue
<1> QED
  BY <1>1, TransactInvariance, PTL

\* When no log write of a transaction failed, a crash at any point after the
\* first call of a slot leaves a row that names the slot.
THEOREM DecisionDurable == Spec => []DecisionSurvives
<1>1. TxInv => DecisionSurvives
  BY DEF TxInv, TxnInv, Safe, Logged, DecisionSurvives
<1> QED
  BY <1>1, TransactInvariance, PTL

\* One log write of a transaction whose row is terminal keeps it terminal, and
\* keeps its outcome.
LEMMA RowKeepsOutcome ==
  ASSUME TxInv, Next, NEW t \in Txns, row[t] \in Terminal
  PROVE  row'[t] \in Terminal /\ {row[t], row'[t]} # {"committed", "compensated"}
<1>1. TypeOK /\ EarlyAlone(t) /\ ExecDecided(t) /\ RowDecided(t)
  BY DEF TxInv, TxnInv
<1>2. CASE row' = row
  BY <1>2
<1>3. ASSUME NEW u \in Txns, u # t, NEW w, Write(u, w)
      PROVE  row'[t] = row[t]
  BY <1>1, <1>3 DEF Write, TypeOK
<1>4. ASSUME NEW w, Write(t, w) PROVE row'[t] = w \/ row'[t] = row[t]
  BY <1>1, <1>4 DEF Write, TypeOK
<1>5. ASSUME NEW p \in Procs, At(p, t, "begin") \/ At(p, t, "branch") PROVE FALSE
  BY <1>1, <1>5 DEF EarlyAlone, Alone, At, Early, Terminal
<1>6. ASSUME NEW p \in Procs, NEW u \in Txns, nir_transact_begin(p, u)
      PROVE  row'[t] = row[t]
  BY <1>3, <1>5, <1>6 DEF nir_transact_begin
<1>7. ASSUME NEW p \in Procs, NEW u \in Txns,
             mark_commit_pending(p, u) \/ mark_compensate_pending(p, u)
      PROVE  row'[t] = row[t]
  BY <1>3, <1>5, <1>7 DEF mark_commit_pending, mark_compensate_pending, Update
<1>8. ASSUME NEW p \in Procs, NEW u \in Txns, NEW s \in Slots, ReplayUnknown(p, u, s)
      PROVE  row'[t] = row[t] \/ row'[t] = "stuck"
  BY <1>3, <1>4, <1>8 DEF ReplayUnknown, Update, Terminal
<1>9. ASSUME NEW p \in Procs, NEW u \in Txns, MarkDone(p, u)
      PROVE  \/ row'[t] = row[t]
             \/ row'[t] = "committed" /\ row[t] # "compensated"
             \/ row'[t] = "compensated" /\ row[t] # "committed"
  <2>1. CASE u # t
    BY <1>3, <1>9, <2>1 DEF MarkDone, Update
  <2>2. CASE u = t
    <3>1. exec[p][t].slot \in Slots /\ Decided(t, exec[p][t].slot)
      BY <1>1, <1>9, <2>2 DEF MarkDone, ExecDecided, At, InSlot
    <3>2. \/ row'[t] = row[t]
          \/ row'[t] = IF exec[p][t].slot = "commit" THEN "committed" ELSE "compensated"
      BY <1>4, <1>9, <2>2 DEF MarkDone, Update, Terminal
    <3> QED
      BY <1>1, <3>1, <3>2 DEF RowDecided, Decided, Slots
  <2> QED
    BY <2>1, <2>2
<1>10. \/ row' = row
       \/ \E p \in Procs, u \in Txns :
            \/ nir_transact_begin(p, u) \/ mark_commit_pending(p, u)
            \/ mark_compensate_pending(p, u) \/ MarkDone(p, u)
            \/ \E s \in Slots : ReplayUnknown(p, u, s)
  <2>1. ASSUME NEW p \in Procs, NEW u \in Txns, Run(p, u)
        PROVE  \/ row' = row \/ nir_transact_begin(p, u) \/ mark_commit_pending(p, u)
               \/ mark_compensate_pending(p, u) \/ MarkDone(p, u)
    BY <2>1 DEF Run, Verify, NothingToCompensate, Attempt, AttemptOk, AttemptErr, Exhausted
  <2>2. ASSUME NEW p \in Procs, Replay(p)
        PROVE  row' = row \/ \E u \in Txns, s \in Slots : ReplayUnknown(p, u, s)
    BY <2>2 DEF Replay, ReplayRow
  <2> QED
    BY <2>1, <2>2 DEF Next, Start, ReplayDone, Crash, Network
<1> QED
  BY <1>2, <1>6, <1>7, <1>8, <1>9, <1>10 DEF Terminal

\* No late mark, second process or replay reopens a finished row or changes
\* which outcome it records.
THEOREM FinishedIsFinal == Spec => FinishedStaysFinished
<1> DEFINE Keeps == \A t \in Txns : row[t] \in Terminal =>
                      /\ row'[t] \in Terminal
                      /\ {row[t], row'[t]} # {"committed", "compensated"}
<1>1. TxInv /\ [Next]_vars => [Keeps]_vars
  <2> SUFFICES ASSUME TxInv, Next PROVE Keeps
    OBVIOUS
  <2> QED
    BY RowKeepsOutcome
<1> QED
  BY <1>1, TransactInvariance, PTL DEF Spec, FinishedStaysFinished

=============================================================================
