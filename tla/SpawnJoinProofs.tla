--------------------------- MODULE SpawnJoinProofs ---------------------------
(***************************************************************************)
(* What module SpawnJoin's invariants rest on, for every set of threads,   *)
(* of channels and every ceiling.                                          *)
(*                                                                         *)
(* CountersExact is not inductive: that a join takes exactly one job out   *)
(* of STALL.live needs to know that no other call is about the same job,   *)
(* and where in its life the job is. IInv adds just that: what the call of *)
(* each participant is about (ArgShape, ArgUnique), the life of each job   *)
(* (Lifecycle), how a call and the job it is about fit (CallShape,         *)
(* UnbornShape), and who has seen a stall (StallSeenByOne). CleanExit, at  *)
(* the end, adds who answers for each job that is not joined (Guardians).  *)
(***************************************************************************)
EXTENDS SpawnJoin, FiniteSetTheorems, TLAPS

PlainLabels == {"unborn", "queued", "run", "trap", "returning", "done"}
SpawnPrep   == {"sp_start", "sp_submit", "sp_undo_live", "sp_undo_admit"}

ArgShape ==
  \A p \in Procs :
    /\ pc[p] \in PlainLabels <=> arg[p] = None
    /\ pc[p] \in SpawnLabels \cup JoinLabels => arg[p] \in Threads

ArgUnique ==
  \A p, q \in Procs : arg[p] \in Threads /\ arg[p] = arg[q] => p = q

Lifecycle ==
  \A t \in Threads :
    /\ t \in pending <=> pc[t] \notin {"unborn", "done"}
    /\ pc[t] = "unborn" => box[t] \in {"none", "empty"}
    /\ pc[t] = "done" => box[t] \in {"none", "full"}
    /\ pc[t] = "returning" => box[t] = "full"
    /\ pc[t] \notin {"unborn", "done", "returning"} => box[t] = "empty"
    /\ t \in table => pc[t] # "unborn" /\ box[t] # "none"

CallShape ==
  \A p \in Procs, t \in Threads : arg[p] = t =>
    /\ t \notin table
    /\ pc[p] \in SpawnPrep => pc[t] = "unborn" /\ box[t] = "empty"
    /\ pc[p] \notin SpawnPrep => pc[t] # "unborn"
    /\ pc[p] \notin SpawnPrep \cup {"j_release"} => box[t] # "none"
    /\ pc[p] \in {"j_finish", "j_read", "w_unreg", "w_uncount"} => pc[t] = "done"
    /\ pc[p] = "j_release" => pc[t] = "done" /\ box[t] = "none"

UnbornShape ==
  \A t \in Threads : pc[t] = "unborn" /\ box[t] # "none" => InCall(t, SpawnPrep)

StallSeenByOne ==
  /\ blocked >= live => \E p \in Procs : pc[p] \in ReportLabels
  /\ reported <=> \E p \in Procs : pc[p] = "reporting"
  /\ (\E p \in Procs : pc[p] = "parked") => reported
  /\ pc[Main] # "unborn"

Shape == ArgShape /\ ArgUnique /\ Lifecycle /\ CallShape /\ UnbornShape

\* No handle twice in a mailbox: what HandleResolves needs to be inductive.
HandlesUnique ==
  /\ HandleResolves
  /\ \A c \in Chans : \A i, k \in DOMAIN queue[c] :
       queue[c][i] \in Threads /\ queue[c][i] = queue[c][k] => i = k

IInv == TypeOK /\ Shape /\ CountersExact /\ StallSeenByOne /\ HandlesUnique

\* What every step lemma below expands.
USE DEF Procs, At, Running, Goto, Call, stall, handles, mail, vars, Labels,
        SpawnLabels, WaitLabels, ReportLabels, JoinLabels

\* The types of what the calls and the jobs are made of.
StepTyped ==
  /\ pc' \in [Procs -> Labels]
  /\ arg' \in [Procs -> Threads \cup Chans \cup {None}]
  /\ box' \in [Threads -> {"none", "empty", "full"}]
  /\ table' \subseteq Threads /\ pending' \subseteq Threads

\* The other types, the counters' weakened to integers.
StepTypedRest ==
  /\ ops' \in 0..MaxOps
  /\ holder' \in [Threads -> Procs \cup Chans \cup {None, Lost}]
  /\ open' \subseteq Chans
  /\ queue' \in [Chans -> Seq(Threads \cup {Word})]
  /\ live' \in Int /\ blocked' \in Int /\ held' \in Int /\ max' \in Ceilings
  /\ registry' \in [Procs -> Threads \cup Chans \cup {None}]
  /\ reported' \in BOOLEAN /\ aborted' \in BOOLEAN /\ escaped' \in BOOLEAN

\* Two participants change their label in one step.
LEMMA TwoLabels ==
  ASSUME NEW f \in [Procs -> Labels], NEW p \in Procs, NEW q \in Procs,
         NEW l \in Labels, NEW m \in Labels
  PROVE  [f EXCEPT ![p] = l, ![q] = m] \in [Procs -> Labels]
OBVIOUS

\* Every step keeps the types of the calls and of the jobs.
LEMMA StepType ==
  ASSUME TypeOK, Shape, [Next]_vars
  PROVE  StepTyped
<1> USE Distinct DEF TypeOK, Shape, ArgShape, ArgUnique, Lifecycle, CallShape,
         PlainLabels, SpawnPrep, StepTyped
<1>1. ASSUME NEW p \in Procs, Program(p)
      PROVE  StepTyped
  <2>1. CASE \E c \in Chans : nir_chan_new(p, c) BY <2>1 DEF nir_chan_new
  <2>2. CASE \E c \in Chans : nir_chan_recv(p, c) BY <2>2 DEF nir_chan_recv
  <2>3. CASE \E c \in Chans : RecvMustWait(p, c) BY <2>3 DEF RecvMustWait
  <2>4. CASE \E c \in Chans, v \in Threads \cup {Word} : nir_chan_send(p, c, v)
    BY <2>4 DEF nir_chan_send
  <2>5. CASE \E t \in Threads : nir_thread_spawn(p, t) BY <2>5 DEF nir_thread_spawn
  <2>6. CASE \E t \in Threads : SpawnDenied(p, t) BY <2>6 DEF SpawnDenied
  <2>7. CASE \E t \in Threads : nir_thread_join(p, t) BY <2>7 DEF nir_thread_join
  <2>8. ASSUME NEW given \in Threads \cup {None}, SpawnSubmit(p, given)
        PROVE  StepTyped
    <3>1. arg[p] \in Threads /\ arg[p] \in Procs BY <2>8 DEF SpawnSubmit
    <3>2. "sp_insert" \in Labels /\ "queued" \in Labels OBVIOUS
    <3>3. pc' = [pc EXCEPT ![p] = "sp_insert", ![arg[p]] = "queued"] BY <2>8 DEF SpawnSubmit
    <3>4. pc \in [Procs -> Labels] OBVIOUS
    <3>5. pc' \in [Procs -> Labels]
      <4> HIDE DEF Labels, Procs, TypeOK, Shape, ArgShape, ArgUnique, Lifecycle, CallShape
      <4> QED BY <3>1, <3>2, <3>3, <3>4, TwoLabels
    <3>6. arg' = arg /\ box' = box /\ table' = table /\ pending' = pending \cup {arg[p]}
      BY <2>8 DEF SpawnSubmit
    <3>7. pending' \subseteq Threads BY <3>1, <3>6
    <3> QED BY <3>5, <3>6, <3>7
  <2>9. CASE SpawnRefused(p) BY <2>9 DEF SpawnRefused
  <2>10. CASE \E keep \in BOOLEAN : JoinRead(p, keep) BY <2>10 DEF JoinRead
  <2> QED BY <1>1, <2>1, <2>2, <2>3, <2>4, <2>5, <2>6, <2>7, <2>8, <2>9, <2>10
         DEF Program
<1>2. ASSUME NEW p \in Procs, Kernel(p)
      PROVE  StepTyped
  <2>1. CASE RecvWake(p) BY <2>1 DEF RecvWake
  <2>2. CASE WaitRegister(p) BY <2>2 DEF WaitRegister
  <2>3. CASE register_wait_and_check_stall(p) BY <2>3 DEF register_wait_and_check_stall
  <2>4. CASE ClaimReport(p) BY <2>4 DEF ClaimReport
  <2>5. CASE ReportAndAbort(p) BY <2>5 DEF ReportAndAbort
  <2>6. CASE WaitUnregister(p) BY <2>6 DEF WaitUnregister
  <2>7. CASE RecvUncount(p) BY <2>7 DEF RecvUncount
  <2>8. CASE JoinUncount(p) BY <2>8 DEF JoinUncount
  <2>9. CASE SpawnStarted(p) BY <2>9 DEF SpawnStarted
  <2>10. CASE SpawnUndoLive(p) BY <2>10 DEF SpawnUndoLive
  <2>11. CASE SpawnUndoAdmit(p) BY <2>11 DEF SpawnUndoAdmit
  <2>12. CASE SpawnInsert(p) BY <2>12 DEF SpawnInsert
  <2>13. CASE Trap(p) BY <2>13 DEF Trap
  <2>14. CASE already_done(p) BY <2>14 DEF already_done
  <2>15. CASE JoinWake(p) BY <2>15 DEF JoinWake
  <2>16. CASE JoinFinish(p) BY <2>16 DEF JoinFinish
  <2>17. CASE JoinRelease(p) BY <2>17 DEF JoinRelease
  <2> QED BY <1>2, <2>1, <2>2, <2>3, <2>4, <2>5, <2>6, <2>7, <2>8, <2>9, <2>10, <2>11,
         <2>12, <2>13, <2>14, <2>15, <2>16, <2>17 DEF Kernel
<1>3. ASSUME NEW t \in Threads, Job(t)
      PROVE  StepTyped
  <2>1. CASE JobStart(t) BY <2>1 DEF JobStart
  <2>2. CASE JobReturn(t) BY <2>2 DEF JobReturn
  <2>3. CASE ScopeDecrement(t) BY <2>3 DEF ScopeDecrement
  <2> QED BY <1>3, <2>1, <2>2, <2>3 DEF Job
<1>4. CASE MainReturn BY <1>4 DEF MainReturn
<1>5. CASE UNCHANGED vars BY <1>5
<1> QED BY <1>1, <1>2, <1>3, <1>4, <1>5 DEF Next

\* Every step keeps the other types; that the counters stay natural numbers
\* follows only once they are known to count something.
LEMMA StepTypeRest ==
  ASSUME TypeOK, Shape, [Next]_vars
  PROVE  StepTypedRest
<1> USE Distinct, Bounds, Typing DEF TypeOK, Shape, ArgShape, ArgUnique, Lifecycle,
         CallShape, PlainLabels, SpawnPrep, StepTypedRest
<1>1. ASSUME NEW p \in Procs, Program(p)
      PROVE  StepTypedRest
  <2>1. CASE \E c \in Chans : nir_chan_new(p, c) BY <2>1 DEF nir_chan_new
  <2>2. CASE \E c \in Chans : nir_chan_recv(p, c) BY <2>2 DEF nir_chan_recv, SpendOp, TakeMessage
  <2>3. CASE \E c \in Chans : RecvMustWait(p, c) BY <2>3 DEF RecvMustWait, SpendOp
  <2>4. CASE \E c \in Chans, v \in Threads \cup {Word} : nir_chan_send(p, c, v)
    BY <2>4 DEF nir_chan_send, SpendOp, Payloads, Owned
  <2>5. CASE \E t \in Threads : nir_thread_spawn(p, t) BY <2>5 DEF nir_thread_spawn
  <2>6. CASE \E t \in Threads : SpawnDenied(p, t) BY <2>6 DEF SpawnDenied
  <2>7. CASE \E t \in Threads : nir_thread_join(p, t) BY <2>7 DEF nir_thread_join
  <2>8. CASE \E given \in Threads \cup {None} : SpawnSubmit(p, given) BY <2>8 DEF SpawnSubmit
  <2>9. CASE SpawnRefused(p) BY <2>9 DEF SpawnRefused
  <2>10. CASE \E keep \in BOOLEAN : JoinRead(p, keep) BY <2>10 DEF JoinRead
  <2> QED BY <1>1, <2>1, <2>2, <2>3, <2>4, <2>5, <2>6, <2>7, <2>8, <2>9, <2>10
         DEF Program
<1>2. ASSUME NEW p \in Procs, Kernel(p)
      PROVE  StepTypedRest
  <2>1. CASE RecvWake(p) BY <2>1 DEF RecvWake, TakeMessage
  <2>2. CASE WaitRegister(p) BY <2>2 DEF WaitRegister
  <2>3. CASE register_wait_and_check_stall(p) BY <2>3 DEF register_wait_and_check_stall
  <2>4. CASE ClaimReport(p) BY <2>4 DEF ClaimReport
  <2>5. CASE ReportAndAbort(p) BY <2>5 DEF ReportAndAbort
  <2>6. CASE WaitUnregister(p) BY <2>6 DEF WaitUnregister
  <2>7. CASE RecvUncount(p) BY <2>7 DEF RecvUncount
  <2>8. CASE JoinUncount(p) BY <2>8 DEF JoinUncount
  <2>9. CASE SpawnStarted(p) BY <2>9 DEF SpawnStarted
  <2>10. CASE SpawnUndoLive(p) BY <2>10 DEF SpawnUndoLive
  <2>11. CASE SpawnUndoAdmit(p) BY <2>11 DEF SpawnUndoAdmit
  <2>12. CASE SpawnInsert(p) BY <2>12 DEF SpawnInsert
  <2>13. CASE Trap(p) BY <2>13 DEF Trap
  <2>14. CASE already_done(p) BY <2>14 DEF already_done
  <2>15. CASE JoinWake(p) BY <2>15 DEF JoinWake
  <2>16. CASE JoinFinish(p) BY <2>16 DEF JoinFinish
  <2>17. CASE JoinRelease(p) BY <2>17 DEF JoinRelease
  <2> QED BY <1>2, <2>1, <2>2, <2>3, <2>4, <2>5, <2>6, <2>7, <2>8, <2>9, <2>10, <2>11,
         <2>12, <2>13, <2>14, <2>15, <2>16, <2>17 DEF Kernel
<1>3. ASSUME NEW t \in Threads, Job(t)
      PROVE  StepTypedRest
  <2>1. CASE JobStart(t) BY <2>1 DEF JobStart
  <2>2. CASE JobReturn(t) BY <2>2 DEF JobReturn
  <2>3. CASE ScopeDecrement(t) BY <2>3 DEF ScopeDecrement
  <2> QED BY <1>3, <2>1, <2>2, <2>3 DEF Job
<1>4. CASE MainReturn BY <1>4 DEF MainReturn
<1>5. CASE UNCHANGED vars BY <1>5
<1> QED BY <1>1, <1>2, <1>3, <1>4, <1>5 DEF Next

\* No two calls are ever about the same thread: spawn takes a fresh one, join
\* takes it out of thread_table first.
LEMMA StepArg ==
  ASSUME TypeOK, Shape, [Next]_vars
  PROVE  ArgShape' /\ ArgUnique'
<1> USE Distinct DEF TypeOK, Shape, ArgShape, ArgUnique, Lifecycle, CallShape,
         PlainLabels, SpawnPrep
<1>1. ASSUME NEW p \in Procs, Program(p)
      PROVE  ArgShape' /\ ArgUnique'
  <2>1. CASE \E c \in Chans : nir_chan_new(p, c) BY <2>1 DEF nir_chan_new
  <2>2. CASE \E c \in Chans : nir_chan_recv(p, c) BY <2>2 DEF nir_chan_recv
  <2>3. CASE \E c \in Chans : RecvMustWait(p, c) BY <2>3 DEF RecvMustWait
  <2>4. CASE \E c \in Chans, v \in Threads \cup {Word} : nir_chan_send(p, c, v)
    BY <2>4 DEF nir_chan_send
  <2>5. CASE \E t \in Threads : nir_thread_spawn(p, t) BY <2>5 DEF nir_thread_spawn
  <2>6. CASE \E t \in Threads : SpawnDenied(p, t) BY <2>6 DEF SpawnDenied
  <2>7. CASE \E t \in Threads : nir_thread_join(p, t) BY <2>7 DEF nir_thread_join
  <2>8. CASE \E given \in Threads \cup {None} : SpawnSubmit(p, given) BY <2>8 DEF SpawnSubmit
  <2>9. CASE SpawnRefused(p) BY <2>9 DEF SpawnRefused
  <2>10. CASE \E keep \in BOOLEAN : JoinRead(p, keep) BY <2>10 DEF JoinRead
  <2> QED BY <1>1, <2>1, <2>2, <2>3, <2>4, <2>5, <2>6, <2>7, <2>8, <2>9, <2>10
         DEF Program
<1>2. ASSUME NEW p \in Procs, Kernel(p)
      PROVE  ArgShape' /\ ArgUnique'
  <2>1. CASE RecvWake(p) BY <2>1 DEF RecvWake
  <2>2. CASE WaitRegister(p) BY <2>2 DEF WaitRegister
  <2>3. CASE register_wait_and_check_stall(p) BY <2>3 DEF register_wait_and_check_stall
  <2>4. CASE ClaimReport(p) BY <2>4 DEF ClaimReport
  <2>5. CASE ReportAndAbort(p) BY <2>5 DEF ReportAndAbort
  <2>6. CASE WaitUnregister(p) BY <2>6 DEF WaitUnregister
  <2>7. CASE RecvUncount(p) BY <2>7 DEF RecvUncount
  <2>8. CASE JoinUncount(p) BY <2>8 DEF JoinUncount
  <2>9. CASE SpawnStarted(p) BY <2>9 DEF SpawnStarted
  <2>10. CASE SpawnUndoLive(p) BY <2>10 DEF SpawnUndoLive
  <2>11. CASE SpawnUndoAdmit(p) BY <2>11 DEF SpawnUndoAdmit
  <2>12. CASE SpawnInsert(p) BY <2>12 DEF SpawnInsert
  <2>13. CASE Trap(p) BY <2>13 DEF Trap
  <2>14. CASE already_done(p) BY <2>14 DEF already_done
  <2>15. CASE JoinWake(p) BY <2>15 DEF JoinWake
  <2>16. CASE JoinFinish(p) BY <2>16 DEF JoinFinish
  <2>17. CASE JoinRelease(p) BY <2>17 DEF JoinRelease
  <2> QED BY <1>2, <2>1, <2>2, <2>3, <2>4, <2>5, <2>6, <2>7, <2>8, <2>9, <2>10, <2>11,
         <2>12, <2>13, <2>14, <2>15, <2>16, <2>17 DEF Kernel
<1>3. ASSUME NEW t \in Threads, Job(t)
      PROVE  ArgShape' /\ ArgUnique'
  <2>1. CASE JobStart(t) BY <2>1 DEF JobStart
  <2>2. CASE JobReturn(t) BY <2>2 DEF JobReturn
  <2>3. CASE ScopeDecrement(t) BY <2>3 DEF ScopeDecrement
  <2> QED BY <1>3, <2>1, <2>2, <2>3 DEF Job
<1>4. CASE MainReturn BY <1>4 DEF MainReturn
<1>5. CASE UNCHANGED vars BY <1>5
<1> QED BY <1>1, <1>2, <1>3, <1>4, <1>5 DEF Next

\* A job runs once, and its box follows it: allocated before it is submitted,
\* written once, freed by the join.
LEMMA StepLife ==
  ASSUME TypeOK, Shape, [Next]_vars
  PROVE  Lifecycle'
<1> USE Distinct DEF TypeOK, Shape, ArgShape, ArgUnique, Lifecycle, CallShape,
         PlainLabels, SpawnPrep
<1>1. ASSUME NEW p \in Procs, Program(p)
      PROVE  Lifecycle'
  <2>1. CASE \E c \in Chans : nir_chan_new(p, c) BY <2>1 DEF nir_chan_new
  <2>2. CASE \E c \in Chans : nir_chan_recv(p, c) BY <2>2 DEF nir_chan_recv
  <2>3. CASE \E c \in Chans : RecvMustWait(p, c) BY <2>3 DEF RecvMustWait
  <2>4. CASE \E c \in Chans, v \in Threads \cup {Word} : nir_chan_send(p, c, v)
    BY <2>4 DEF nir_chan_send
  <2>5. CASE \E t \in Threads : nir_thread_spawn(p, t) BY <2>5 DEF nir_thread_spawn
  <2>6. CASE \E t \in Threads : SpawnDenied(p, t) BY <2>6 DEF SpawnDenied
  <2>7. CASE \E t \in Threads : nir_thread_join(p, t) BY <2>7 DEF nir_thread_join
  <2>8. CASE \E given \in Threads \cup {None} : SpawnSubmit(p, given) BY <2>8 DEF SpawnSubmit
  <2>9. CASE SpawnRefused(p) BY <2>9 DEF SpawnRefused
  <2>10. CASE \E keep \in BOOLEAN : JoinRead(p, keep) BY <2>10 DEF JoinRead
  <2> QED BY <1>1, <2>1, <2>2, <2>3, <2>4, <2>5, <2>6, <2>7, <2>8, <2>9, <2>10
         DEF Program
<1>2. ASSUME NEW p \in Procs, Kernel(p)
      PROVE  Lifecycle'
  <2>1. CASE RecvWake(p) BY <2>1 DEF RecvWake
  <2>2. CASE WaitRegister(p) BY <2>2 DEF WaitRegister
  <2>3. CASE register_wait_and_check_stall(p) BY <2>3 DEF register_wait_and_check_stall
  <2>4. CASE ClaimReport(p) BY <2>4 DEF ClaimReport
  <2>5. CASE ReportAndAbort(p) BY <2>5 DEF ReportAndAbort
  <2>6. CASE WaitUnregister(p) BY <2>6 DEF WaitUnregister
  <2>7. CASE RecvUncount(p) BY <2>7 DEF RecvUncount
  <2>8. CASE JoinUncount(p) BY <2>8 DEF JoinUncount
  <2>9. CASE SpawnStarted(p) BY <2>9 DEF SpawnStarted
  <2>10. CASE SpawnUndoLive(p) BY <2>10 DEF SpawnUndoLive
  <2>11. CASE SpawnUndoAdmit(p) BY <2>11 DEF SpawnUndoAdmit
  <2>12. CASE SpawnInsert(p) BY <2>12 DEF SpawnInsert
  <2>13. CASE Trap(p) BY <2>13 DEF Trap
  <2>14. CASE already_done(p) BY <2>14 DEF already_done
  <2>15. CASE JoinWake(p) BY <2>15 DEF JoinWake
  <2>16. CASE JoinFinish(p) BY <2>16 DEF JoinFinish
  <2>17. CASE JoinRelease(p) BY <2>17 DEF JoinRelease
  <2> QED BY <1>2, <2>1, <2>2, <2>3, <2>4, <2>5, <2>6, <2>7, <2>8, <2>9, <2>10, <2>11,
         <2>12, <2>13, <2>14, <2>15, <2>16, <2>17 DEF Kernel
<1>3. ASSUME NEW t \in Threads, Job(t)
      PROVE  Lifecycle'
  <2>1. CASE JobStart(t) BY <2>1 DEF JobStart
  <2>2. CASE JobReturn(t) BY <2>2 DEF JobReturn
  <2>3. CASE ScopeDecrement(t) BY <2>3 DEF ScopeDecrement
  <2> QED BY <1>3, <2>1, <2>2, <2>3 DEF Job
<1>4. CASE MainReturn BY <1>4 DEF MainReturn
<1>5. CASE UNCHANGED vars BY <1>5
<1> QED BY <1>1, <1>2, <1>3, <1>4, <1>5 DEF Next

\* A call stays in step with the job it is about.
LEMMA StepCall ==
  ASSUME TypeOK, Shape, [Next]_vars
  PROVE  CallShape'
<1> USE Distinct DEF TypeOK, Shape, ArgShape, ArgUnique, Lifecycle, CallShape,
         PlainLabels, SpawnPrep
<1>1. ASSUME NEW p \in Procs, Program(p)
      PROVE  CallShape'
  <2>1. CASE \E c \in Chans : nir_chan_new(p, c) BY <2>1 DEF nir_chan_new
  <2>2. CASE \E c \in Chans : nir_chan_recv(p, c) BY <2>2 DEF nir_chan_recv
  <2>3. CASE \E c \in Chans : RecvMustWait(p, c) BY <2>3 DEF RecvMustWait
  <2>4. CASE \E c \in Chans, v \in Threads \cup {Word} : nir_chan_send(p, c, v)
    BY <2>4 DEF nir_chan_send
  <2>5. CASE \E t \in Threads : nir_thread_spawn(p, t) BY <2>5 DEF nir_thread_spawn
  <2>6. CASE \E t \in Threads : SpawnDenied(p, t) BY <2>6 DEF SpawnDenied
  <2>7. CASE \E t \in Threads : nir_thread_join(p, t) BY <2>7 DEF nir_thread_join
  <2>8. CASE \E given \in Threads \cup {None} : SpawnSubmit(p, given) BY <2>8 DEF SpawnSubmit
  <2>9. CASE SpawnRefused(p) BY <2>9 DEF SpawnRefused
  <2>10. CASE \E keep \in BOOLEAN : JoinRead(p, keep) BY <2>10 DEF JoinRead
  <2> QED BY <1>1, <2>1, <2>2, <2>3, <2>4, <2>5, <2>6, <2>7, <2>8, <2>9, <2>10
         DEF Program
<1>2. ASSUME NEW p \in Procs, Kernel(p)
      PROVE  CallShape'
  <2>1. CASE RecvWake(p) BY <2>1 DEF RecvWake
  <2>2. CASE WaitRegister(p) BY <2>2 DEF WaitRegister
  <2>3. CASE register_wait_and_check_stall(p) BY <2>3 DEF register_wait_and_check_stall
  <2>4. CASE ClaimReport(p) BY <2>4 DEF ClaimReport
  <2>5. CASE ReportAndAbort(p) BY <2>5 DEF ReportAndAbort
  <2>6. CASE WaitUnregister(p) BY <2>6 DEF WaitUnregister
  <2>7. CASE RecvUncount(p) BY <2>7 DEF RecvUncount
  <2>8. CASE JoinUncount(p) BY <2>8 DEF JoinUncount
  <2>9. CASE SpawnStarted(p) BY <2>9 DEF SpawnStarted
  <2>10. CASE SpawnUndoLive(p) BY <2>10 DEF SpawnUndoLive
  <2>11. CASE SpawnUndoAdmit(p) BY <2>11 DEF SpawnUndoAdmit
  <2>12. CASE SpawnInsert(p) BY <2>12 DEF SpawnInsert
  <2>13. CASE Trap(p) BY <2>13 DEF Trap
  <2>14. CASE already_done(p) BY <2>14 DEF already_done
  <2>15. CASE JoinWake(p) BY <2>15 DEF JoinWake
  <2>16. CASE JoinFinish(p) BY <2>16 DEF JoinFinish
  <2>17. CASE JoinRelease(p) BY <2>17 DEF JoinRelease
  <2> QED BY <1>2, <2>1, <2>2, <2>3, <2>4, <2>5, <2>6, <2>7, <2>8, <2>9, <2>10, <2>11,
         <2>12, <2>13, <2>14, <2>15, <2>16, <2>17 DEF Kernel
<1>3. ASSUME NEW t \in Threads, Job(t)
      PROVE  CallShape'
  <2>1. CASE JobStart(t) BY <2>1 DEF JobStart
  <2>2. CASE JobReturn(t) BY <2>2 DEF JobReturn
  <2>3. CASE ScopeDecrement(t) BY <2>3 DEF ScopeDecrement
  <2> QED BY <1>3, <2>1, <2>2, <2>3 DEF Job
<1>4. CASE MainReturn BY <1>4 DEF MainReturn
<1>5. CASE UNCHANGED vars BY <1>5
<1> QED BY <1>1, <1>2, <1>3, <1>4, <1>5 DEF Next

\* A box without a job belongs to a spawn under way.
LEMMA StepUnborn ==
  ASSUME TypeOK, Shape, [Next]_vars
  PROVE  UnbornShape'
<1> USE Distinct DEF TypeOK, Shape, ArgShape, ArgUnique, Lifecycle, CallShape,
         PlainLabels, SpawnPrep, UnbornShape, InCall
<1>1. ASSUME NEW p \in Procs, Program(p)
      PROVE  UnbornShape'
  <2>1. CASE \E c \in Chans : nir_chan_new(p, c) BY <2>1 DEF nir_chan_new
  <2>2. CASE \E c \in Chans : nir_chan_recv(p, c) BY <2>2 DEF nir_chan_recv
  <2>3. CASE \E c \in Chans : RecvMustWait(p, c) BY <2>3 DEF RecvMustWait
  <2>4. CASE \E c \in Chans, v \in Threads \cup {Word} : nir_chan_send(p, c, v)
    BY <2>4 DEF nir_chan_send
  <2>5. CASE \E t \in Threads : nir_thread_spawn(p, t) BY <2>5 DEF nir_thread_spawn
  <2>6. CASE \E t \in Threads : SpawnDenied(p, t) BY <2>6 DEF SpawnDenied
  <2>7. CASE \E t \in Threads : nir_thread_join(p, t) BY <2>7 DEF nir_thread_join
  <2>8. ASSUME NEW given \in Threads \cup {None}, SpawnSubmit(p, given)
        PROVE  UnbornShape'
    <3>1. ASSUME NEW u \in Threads, pc'[u] = "unborn", box'[u] # "none"
          PROVE  \E q \in Procs : arg'[q] = u /\ pc'[q] \in SpawnPrep
      <4>1. u # arg[p] /\ u # p /\ pc[u] = "unborn" /\ box[u] # "none"
        BY <2>8, <3>1 DEF SpawnSubmit
      <4>2. PICK q \in Procs : arg[q] = u /\ pc[q] \in SpawnPrep
        BY <4>1
      <4>3. q # p /\ q # arg[p]
        BY <2>8, <4>1, <4>2 DEF SpawnSubmit
      <4> QED BY <2>8, <4>2, <4>3 DEF SpawnSubmit
    <3> QED BY <3>1
  <2>9. CASE SpawnRefused(p) BY <2>9 DEF SpawnRefused
  <2>10. CASE \E keep \in BOOLEAN : JoinRead(p, keep) BY <2>10 DEF JoinRead
  <2> QED BY <1>1, <2>1, <2>2, <2>3, <2>4, <2>5, <2>6, <2>7, <2>8, <2>9, <2>10
         DEF Program
<1>2. ASSUME NEW p \in Procs, Kernel(p)
      PROVE  UnbornShape'
  <2>1. CASE RecvWake(p) BY <2>1 DEF RecvWake
  <2>2. CASE WaitRegister(p) BY <2>2 DEF WaitRegister
  <2>3. CASE register_wait_and_check_stall(p) BY <2>3 DEF register_wait_and_check_stall
  <2>4. CASE ClaimReport(p) BY <2>4 DEF ClaimReport
  <2>5. CASE ReportAndAbort(p) BY <2>5 DEF ReportAndAbort
  <2>6. CASE WaitUnregister(p) BY <2>6 DEF WaitUnregister
  <2>7. CASE RecvUncount(p) BY <2>7 DEF RecvUncount
  <2>8. CASE JoinUncount(p) BY <2>8 DEF JoinUncount
  <2>9. CASE SpawnStarted(p) BY <2>9 DEF SpawnStarted
  <2>10. CASE SpawnUndoLive(p) BY <2>10 DEF SpawnUndoLive
  <2>11. CASE SpawnUndoAdmit(p) BY <2>11 DEF SpawnUndoAdmit
  <2>12. CASE SpawnInsert(p) BY <2>12 DEF SpawnInsert
  <2>13. CASE Trap(p) BY <2>13 DEF Trap
  <2>14. CASE already_done(p) BY <2>14 DEF already_done
  <2>15. CASE JoinWake(p) BY <2>15 DEF JoinWake
  <2>16. CASE JoinFinish(p) BY <2>16 DEF JoinFinish
  <2>17. CASE JoinRelease(p) BY <2>17 DEF JoinRelease
  <2> QED BY <1>2, <2>1, <2>2, <2>3, <2>4, <2>5, <2>6, <2>7, <2>8, <2>9, <2>10, <2>11,
         <2>12, <2>13, <2>14, <2>15, <2>16, <2>17 DEF Kernel
<1>3. ASSUME NEW t \in Threads, Job(t)
      PROVE  UnbornShape'
  <2>1. CASE JobStart(t) BY <2>1 DEF JobStart
  <2>2. CASE JobReturn(t) BY <2>2 DEF JobReturn
  <2>3. CASE ScopeDecrement(t) BY <2>3 DEF ScopeDecrement
  <2> QED BY <1>3, <2>1, <2>2, <2>3 DEF Job
<1>4. CASE MainReturn BY <1>4 DEF MainReturn
<1>5. CASE UNCHANGED vars BY <1>5
<1> QED BY <1>1, <1>2, <1>3, <1>4, <1>5 DEF Next

\* STALL.live and the set it counts change in three steps only.
LEMMA LiveFrame ==
  ASSUME TypeOK, Shape,
         \A p \in Procs : ~(SpawnStarted(p) \/ SpawnUndoLive(p) \/ JoinFinish(p)), [Next]_vars
  PROVE  LiveJobs' = LiveJobs /\ live' = live
<1> USE Distinct DEF TypeOK, Shape, ArgShape, ArgUnique, Lifecycle, CallShape,
         PlainLabels, SpawnPrep, LiveJobs, InCall
<1>1. ASSUME NEW p \in Procs, Program(p)
      PROVE  LiveJobs' = LiveJobs /\ live' = live
  <2>1. CASE \E c \in Chans : nir_chan_new(p, c) BY <2>1 DEF nir_chan_new
  <2>2. CASE \E c \in Chans : nir_chan_recv(p, c) BY <2>2 DEF nir_chan_recv
  <2>3. CASE \E c \in Chans : RecvMustWait(p, c) BY <2>3 DEF RecvMustWait
  <2>4. CASE \E c \in Chans, v \in Threads \cup {Word} : nir_chan_send(p, c, v)
    BY <2>4 DEF nir_chan_send
  <2>5. CASE \E t \in Threads : nir_thread_spawn(p, t) BY <2>5 DEF nir_thread_spawn
  <2>6. CASE \E t \in Threads : SpawnDenied(p, t) BY <2>6 DEF SpawnDenied
  <2>7. CASE \E t \in Threads : nir_thread_join(p, t) BY <2>7 DEF nir_thread_join
  <2>8. CASE \E given \in Threads \cup {None} : SpawnSubmit(p, given) BY <2>8 DEF SpawnSubmit
  <2>9. CASE SpawnRefused(p) BY <2>9 DEF SpawnRefused
  <2>10. CASE \E keep \in BOOLEAN : JoinRead(p, keep) BY <2>10 DEF JoinRead
  <2> QED BY <1>1, <2>1, <2>2, <2>3, <2>4, <2>5, <2>6, <2>7, <2>8, <2>9, <2>10
         DEF Program
<1>2. ASSUME NEW p \in Procs, Kernel(p)
      PROVE  LiveJobs' = LiveJobs /\ live' = live
  <2>1. CASE RecvWake(p) BY <2>1 DEF RecvWake
  <2>2. CASE WaitRegister(p) BY <2>2 DEF WaitRegister
  <2>3. CASE register_wait_and_check_stall(p) BY <2>3 DEF register_wait_and_check_stall
  <2>4. CASE ClaimReport(p) BY <2>4 DEF ClaimReport
  <2>5. CASE ReportAndAbort(p) BY <2>5 DEF ReportAndAbort
  <2>6. CASE WaitUnregister(p) BY <2>6 DEF WaitUnregister
  <2>7. CASE RecvUncount(p) BY <2>7 DEF RecvUncount
  <2>8. CASE JoinUncount(p) BY <2>8 DEF JoinUncount
  <2>9. CASE SpawnStarted(p) BY <2>9 DEF SpawnStarted
  <2>10. CASE SpawnUndoLive(p) BY <2>10 DEF SpawnUndoLive
  <2>11. CASE SpawnUndoAdmit(p) BY <2>11 DEF SpawnUndoAdmit
  <2>12. CASE SpawnInsert(p) BY <2>12 DEF SpawnInsert
  <2>13. CASE Trap(p) BY <2>13 DEF Trap
  <2>14. CASE already_done(p) BY <2>14 DEF already_done
  <2>15. CASE JoinWake(p) BY <2>15 DEF JoinWake
  <2>16. CASE JoinFinish(p) BY <2>16 DEF JoinFinish
  <2>17. CASE JoinRelease(p) BY <2>17 DEF JoinRelease
  <2> QED BY <1>2, <2>1, <2>2, <2>3, <2>4, <2>5, <2>6, <2>7, <2>8, <2>9, <2>10, <2>11,
         <2>12, <2>13, <2>14, <2>15, <2>16, <2>17 DEF Kernel
<1>3. ASSUME NEW t \in Threads, Job(t)
      PROVE  LiveJobs' = LiveJobs /\ live' = live
  <2>1. CASE JobStart(t) BY <2>1 DEF JobStart
  <2>2. CASE JobReturn(t) BY <2>2 DEF JobReturn
  <2>3. CASE ScopeDecrement(t) BY <2>3 DEF ScopeDecrement
  <2> QED BY <1>3, <2>1, <2>2, <2>3 DEF Job
<1>4. CASE MainReturn BY <1>4 DEF MainReturn
<1>5. CASE UNCHANGED vars BY <1>5
<1> QED BY <1>1, <1>2, <1>3, <1>4, <1>5 DEF Next

\* The admission count and the set it counts change in three steps only.
LEMMA SlotFrame ==
  ASSUME TypeOK, Shape,
         \A p \in Procs : /\ ~SpawnUndoAdmit(p) /\ ~JoinRelease(p)
                          /\ \A t \in Threads : ~nir_thread_spawn(p, t), [Next]_vars
  PROVE  SlotHolders' = SlotHolders /\ held' = held /\ max' = max
<1> USE Distinct DEF TypeOK, Shape, ArgShape, ArgUnique, Lifecycle, CallShape,
         PlainLabels, SpawnPrep, SlotHolders, InCall
<1>1. ASSUME NEW p \in Procs, Program(p)
      PROVE  SlotHolders' = SlotHolders /\ held' = held /\ max' = max
  <2>1. CASE \E c \in Chans : nir_chan_new(p, c) BY <2>1 DEF nir_chan_new
  <2>2. CASE \E c \in Chans : nir_chan_recv(p, c) BY <2>2 DEF nir_chan_recv
  <2>3. CASE \E c \in Chans : RecvMustWait(p, c) BY <2>3 DEF RecvMustWait
  <2>4. CASE \E c \in Chans, v \in Threads \cup {Word} : nir_chan_send(p, c, v)
    BY <2>4 DEF nir_chan_send
  <2>5. ASSUME NEW t \in Threads, nir_thread_spawn(p, t)
        PROVE  SlotHolders' = SlotHolders /\ held' = held /\ max' = max
    BY <2>5
  <2>6. CASE \E t \in Threads : SpawnDenied(p, t) BY <2>6 DEF SpawnDenied
  <2>7. CASE \E t \in Threads : nir_thread_join(p, t) BY <2>7 DEF nir_thread_join
  <2>8. CASE \E given \in Threads \cup {None} : SpawnSubmit(p, given) BY <2>8, SMTT(30) DEF SpawnSubmit
  <2>9. CASE SpawnRefused(p) BY <2>9 DEF SpawnRefused
  <2>10. CASE \E keep \in BOOLEAN : JoinRead(p, keep) BY <2>10 DEF JoinRead
  <2> QED BY <1>1, <2>1, <2>2, <2>3, <2>4, <2>5, <2>6, <2>7, <2>8, <2>9, <2>10
         DEF Program
<1>2. ASSUME NEW p \in Procs, Kernel(p)
      PROVE  SlotHolders' = SlotHolders /\ held' = held /\ max' = max
  <2>1. CASE RecvWake(p) BY <2>1 DEF RecvWake
  <2>2. CASE WaitRegister(p) BY <2>2 DEF WaitRegister
  <2>3. CASE register_wait_and_check_stall(p) BY <2>3 DEF register_wait_and_check_stall
  <2>4. CASE ClaimReport(p) BY <2>4 DEF ClaimReport
  <2>5. CASE ReportAndAbort(p) BY <2>5 DEF ReportAndAbort
  <2>6. CASE WaitUnregister(p) BY <2>6 DEF WaitUnregister
  <2>7. CASE RecvUncount(p) BY <2>7 DEF RecvUncount
  <2>8. CASE JoinUncount(p) BY <2>8 DEF JoinUncount
  <2>9. CASE SpawnStarted(p) BY <2>9 DEF SpawnStarted
  <2>10. CASE SpawnUndoLive(p) BY <2>10 DEF SpawnUndoLive
  <2>11. CASE SpawnUndoAdmit(p) BY <2>11 DEF SpawnUndoAdmit
  <2>12. CASE SpawnInsert(p) BY <2>12 DEF SpawnInsert
  <2>13. CASE Trap(p) BY <2>13 DEF Trap
  <2>14. CASE already_done(p) BY <2>14 DEF already_done
  <2>15. CASE JoinWake(p) BY <2>15 DEF JoinWake
  <2>16. CASE JoinFinish(p) BY <2>16 DEF JoinFinish
  <2>17. CASE JoinRelease(p) BY <2>17 DEF JoinRelease
  <2> QED BY <1>2, <2>1, <2>2, <2>3, <2>4, <2>5, <2>6, <2>7, <2>8, <2>9, <2>10, <2>11,
         <2>12, <2>13, <2>14, <2>15, <2>16, <2>17 DEF Kernel
<1>3. ASSUME NEW t \in Threads, Job(t)
      PROVE  SlotHolders' = SlotHolders /\ held' = held /\ max' = max
  <2>1. CASE JobStart(t) BY <2>1 DEF JobStart
  <2>2. CASE JobReturn(t) BY <2>2 DEF JobReturn
  <2>3. CASE ScopeDecrement(t) BY <2>3 DEF ScopeDecrement
  <2> QED BY <1>3, <2>1, <2>2, <2>3 DEF Job
<1>4. CASE MainReturn BY <1>4 DEF MainReturn
<1>5. CASE UNCHANGED vars BY <1>5
<1> QED BY <1>1, <1>2, <1>3, <1>4, <1>5 DEF Next

\* STALL.blocked and the set it counts change in three steps only.
LEMMA BlockedFrame ==
  ASSUME TypeOK, Shape,
         \A p \in Procs : ~(\/ register_wait_and_check_stall(p)
                            \/ RecvUncount(p) \/ JoinUncount(p)), [Next]_vars
  PROVE  BlockedProcs' = BlockedProcs /\ blocked' = blocked
<1> USE Distinct DEF TypeOK, Shape, ArgShape, ArgUnique, Lifecycle, CallShape,
         PlainLabels, SpawnPrep, BlockedProcs, Registered
<1>1. ASSUME NEW p \in Procs, Program(p)
      PROVE  BlockedProcs' = BlockedProcs /\ blocked' = blocked
  <2>1. CASE \E c \in Chans : nir_chan_new(p, c) BY <2>1 DEF nir_chan_new
  <2>2. CASE \E c \in Chans : nir_chan_recv(p, c) BY <2>2 DEF nir_chan_recv
  <2>3. CASE \E c \in Chans : RecvMustWait(p, c) BY <2>3 DEF RecvMustWait
  <2>4. CASE \E c \in Chans, v \in Threads \cup {Word} : nir_chan_send(p, c, v)
    BY <2>4 DEF nir_chan_send
  <2>5. CASE \E t \in Threads : nir_thread_spawn(p, t) BY <2>5 DEF nir_thread_spawn
  <2>6. CASE \E t \in Threads : SpawnDenied(p, t) BY <2>6 DEF SpawnDenied
  <2>7. CASE \E t \in Threads : nir_thread_join(p, t) BY <2>7 DEF nir_thread_join
  <2>8. CASE \E given \in Threads \cup {None} : SpawnSubmit(p, given) BY <2>8 DEF SpawnSubmit
  <2>9. CASE SpawnRefused(p) BY <2>9 DEF SpawnRefused
  <2>10. CASE \E keep \in BOOLEAN : JoinRead(p, keep) BY <2>10 DEF JoinRead
  <2> QED BY <1>1, <2>1, <2>2, <2>3, <2>4, <2>5, <2>6, <2>7, <2>8, <2>9, <2>10
         DEF Program
<1>2. ASSUME NEW p \in Procs, Kernel(p)
      PROVE  BlockedProcs' = BlockedProcs /\ blocked' = blocked
  <2>1. CASE RecvWake(p) BY <2>1 DEF RecvWake
  <2>2. CASE WaitRegister(p) BY <2>2 DEF WaitRegister
  <2>3. CASE register_wait_and_check_stall(p) BY <2>3 DEF register_wait_and_check_stall
  <2>4. CASE ClaimReport(p) BY <2>4 DEF ClaimReport
  <2>5. CASE ReportAndAbort(p) BY <2>5 DEF ReportAndAbort
  <2>6. CASE WaitUnregister(p) BY <2>6 DEF WaitUnregister
  <2>7. CASE RecvUncount(p) BY <2>7 DEF RecvUncount
  <2>8. CASE JoinUncount(p) BY <2>8 DEF JoinUncount
  <2>9. CASE SpawnStarted(p) BY <2>9 DEF SpawnStarted
  <2>10. CASE SpawnUndoLive(p) BY <2>10 DEF SpawnUndoLive
  <2>11. CASE SpawnUndoAdmit(p) BY <2>11 DEF SpawnUndoAdmit
  <2>12. CASE SpawnInsert(p) BY <2>12 DEF SpawnInsert
  <2>13. CASE Trap(p) BY <2>13 DEF Trap
  <2>14. CASE already_done(p) BY <2>14 DEF already_done
  <2>15. CASE JoinWake(p) BY <2>15 DEF JoinWake
  <2>16. CASE JoinFinish(p) BY <2>16 DEF JoinFinish
  <2>17. CASE JoinRelease(p) BY <2>17 DEF JoinRelease
  <2> QED BY <1>2, <2>1, <2>2, <2>3, <2>4, <2>5, <2>6, <2>7, <2>8, <2>9, <2>10, <2>11,
         <2>12, <2>13, <2>14, <2>15, <2>16, <2>17 DEF Kernel
<1>3. ASSUME NEW t \in Threads, Job(t)
      PROVE  BlockedProcs' = BlockedProcs /\ blocked' = blocked
  <2>1. CASE JobStart(t) BY <2>1 DEF JobStart
  <2>2. CASE JobReturn(t) BY <2>2 DEF JobReturn
  <2>3. CASE ScopeDecrement(t) BY <2>3 DEF ScopeDecrement
  <2> QED BY <1>3, <2>1, <2>2, <2>3 DEF Job
<1>4. CASE MainReturn BY <1>4 DEF MainReturn
<1>5. CASE UNCHANGED vars BY <1>5
<1> QED BY <1>1, <1>2, <1>3, <1>4, <1>5 DEF Next

\* A handle is in one place at a time: in one binding, or once in one mailbox.
LEMMA StepHandles ==
  ASSUME TypeOK, Shape, HandlesUnique, [Next]_vars
  PROVE  HandlesUnique'
<1> USE Distinct, Typing DEF TypeOK, Shape, ArgShape, CallShape, PlainLabels, SpawnPrep,
         HandlesUnique, HandleResolves, Owned
<1>1. ASSUME NEW p \in Procs, Program(p)
      PROVE  HandlesUnique'
  <2>1. CASE \E c \in Chans : nir_chan_new(p, c) BY <2>1 DEF nir_chan_new
  <2>2. CASE \E c \in Chans : nir_chan_recv(p, c) BY <2>2 DEF nir_chan_recv, TakeMessage
  <2>3. CASE \E c \in Chans : RecvMustWait(p, c) BY <2>3 DEF RecvMustWait
  <2>4. CASE \E c \in Chans, v \in Threads \cup {Word} : nir_chan_send(p, c, v)
    BY <2>4 DEF nir_chan_send, Payloads
  <2>5. CASE \E t \in Threads : nir_thread_spawn(p, t) BY <2>5 DEF nir_thread_spawn
  <2>6. CASE \E t \in Threads : SpawnDenied(p, t) BY <2>6 DEF SpawnDenied
  <2>7. CASE \E t \in Threads : nir_thread_join(p, t) BY <2>7 DEF nir_thread_join
  <2>8. CASE \E given \in Threads \cup {None} : SpawnSubmit(p, given) BY <2>8 DEF SpawnSubmit
  <2>9. CASE SpawnRefused(p) BY <2>9 DEF SpawnRefused
  <2>10. CASE \E keep \in BOOLEAN : JoinRead(p, keep) BY <2>10 DEF JoinRead
  <2> QED BY <1>1, <2>1, <2>2, <2>3, <2>4, <2>5, <2>6, <2>7, <2>8, <2>9, <2>10
         DEF Program
<1>2. ASSUME NEW p \in Procs, Kernel(p)
      PROVE  HandlesUnique'
  <2>1. CASE RecvWake(p) BY <2>1 DEF RecvWake, TakeMessage
  <2>2. CASE WaitRegister(p) BY <2>2 DEF WaitRegister
  <2>3. CASE register_wait_and_check_stall(p) BY <2>3 DEF register_wait_and_check_stall
  <2>4. CASE ClaimReport(p) BY <2>4 DEF ClaimReport
  <2>5. CASE ReportAndAbort(p) BY <2>5 DEF ReportAndAbort
  <2>6. CASE WaitUnregister(p) BY <2>6 DEF WaitUnregister
  <2>7. CASE RecvUncount(p) BY <2>7 DEF RecvUncount
  <2>8. CASE JoinUncount(p) BY <2>8 DEF JoinUncount
  <2>9. CASE SpawnStarted(p) BY <2>9 DEF SpawnStarted
  <2>10. CASE SpawnUndoLive(p) BY <2>10 DEF SpawnUndoLive
  <2>11. CASE SpawnUndoAdmit(p) BY <2>11 DEF SpawnUndoAdmit
  <2>12. CASE SpawnInsert(p) BY <2>12 DEF SpawnInsert
  <2>13. CASE Trap(p) BY <2>13 DEF Trap
  <2>14. CASE already_done(p) BY <2>14 DEF already_done
  <2>15. CASE JoinWake(p) BY <2>15 DEF JoinWake
  <2>16. CASE JoinFinish(p) BY <2>16 DEF JoinFinish
  <2>17. CASE JoinRelease(p) BY <2>17 DEF JoinRelease
  <2> QED BY <1>2, <2>1, <2>2, <2>3, <2>4, <2>5, <2>6, <2>7, <2>8, <2>9, <2>10, <2>11,
         <2>12, <2>13, <2>14, <2>15, <2>16, <2>17 DEF Kernel
<1>3. ASSUME NEW t \in Threads, Job(t)
      PROVE  HandlesUnique'
  <2>1. CASE JobStart(t) BY <2>1 DEF JobStart
  <2>2. CASE JobReturn(t) BY <2>2 DEF JobReturn
  <2>3. CASE ScopeDecrement(t) BY <2>3 DEF ScopeDecrement
  <2> QED BY <1>3, <2>1, <2>2, <2>3 DEF Job
<1>4. CASE MainReturn BY <1>4 DEF MainReturn
<1>5. CASE UNCHANGED vars BY <1>5
<1> QED BY <1>1, <1>2, <1>3, <1>4, <1>5 DEF Next

-----------------------------------------------------------------------------
\* One participant more or less in a finite set: what each counter counts.
LEMMA OneMore ==
  ASSUME NEW S, IsFiniteSet(S), NEW x, x \notin S
  PROVE  Cardinality(S \cup {x}) = Cardinality(S) + 1
BY FS_AddElement

\* The same for one leaving.
LEMMA OneLess ==
  ASSUME NEW S, IsFiniteSet(S), NEW x \in S
  PROVE  Cardinality(S \ {x}) = Cardinality(S) - 1
BY FS_RemoveElement

\* The counted sets are finite, in this state and in the next.
LEMMA CountedFinite ==
  /\ IsFiniteSet(Procs)
  /\ IsFiniteSet(LiveJobs) /\ IsFiniteSet(LiveJobs')
  /\ IsFiniteSet(SlotHolders) /\ IsFiniteSet(SlotHolders')
  /\ IsFiniteSet(BlockedProcs) /\ IsFiniteSet(BlockedProcs')
<1>1. IsFiniteSet(Procs)
  BY ThreadsFinite, FS_AddElement
<1>2. /\ LiveJobs \subseteq Threads /\ LiveJobs' \subseteq Threads
      /\ SlotHolders \subseteq Threads /\ SlotHolders' \subseteq Threads
      /\ BlockedProcs \subseteq Procs /\ BlockedProcs' \subseteq Procs
  BY DEF LiveJobs, SlotHolders, BlockedProcs
<1> QED BY <1>1, <1>2, ThreadsFinite, FS_Subset

\* STALL.live stays exact: one job enters with concurrency_thread_started and
\* leaves with concurrency_thread_finished, called by its joiner or by the
\* rollback of a refused spawn.
LEMMA StepLive ==
  ASSUME TypeOK, Shape, live = 1 + Cardinality(LiveJobs), [Next]_vars
  PROVE  live' = 1 + Cardinality(LiveJobs')
<1>1. ASSUME NEW p \in Procs, SpawnStarted(p)
      PROVE  live' = 1 + Cardinality(LiveJobs')
  <2>1. arg[p] \notin LiveJobs /\ LiveJobs' = LiveJobs \cup {arg[p]}
    BY <1>1, Distinct
    DEF SpawnStarted, LiveJobs, TypeOK, Shape, ArgShape, ArgUnique, Lifecycle, CallShape,
        PlainLabels, SpawnPrep, InCall
  <2>2. live' = live + 1 /\ live \in Nat
    BY <1>1 DEF SpawnStarted, TypeOK
  <2>3. Cardinality(LiveJobs') = Cardinality(LiveJobs) + 1 /\ Cardinality(LiveJobs) \in Nat
    BY <2>1, OneMore, CountedFinite, FS_CardinalityType
  <2> QED BY <2>2, <2>3
<1>2. ASSUME NEW p \in Procs, SpawnUndoLive(p)
      PROVE  live' = 1 + Cardinality(LiveJobs')
  <2>1. arg[p] \in LiveJobs /\ LiveJobs' = LiveJobs \ {arg[p]}
    BY <1>2, Distinct
    DEF SpawnUndoLive, LiveJobs, TypeOK, Shape, ArgShape, ArgUnique, Lifecycle, CallShape,
        PlainLabels, SpawnPrep, InCall
  <2>2. live' = live - 1 /\ live \in Nat
    BY <1>2 DEF SpawnUndoLive, TypeOK
  <2>3. Cardinality(LiveJobs') = Cardinality(LiveJobs) - 1 /\ Cardinality(LiveJobs) \in Nat
    BY <2>1, OneLess, CountedFinite, FS_CardinalityType
  <2> QED BY <2>2, <2>3
<1>3. ASSUME NEW p \in Procs, JoinFinish(p)
      PROVE  live' = 1 + Cardinality(LiveJobs')
  <2>1. arg[p] \in LiveJobs /\ LiveJobs' = LiveJobs \ {arg[p]}
    BY <1>3, Distinct
    DEF JoinFinish, LiveJobs, TypeOK, Shape, ArgShape, ArgUnique, Lifecycle, CallShape,
        PlainLabels, SpawnPrep, InCall
  <2>2. live' = live - 1 /\ live \in Nat
    BY <1>3 DEF JoinFinish, TypeOK
  <2>3. Cardinality(LiveJobs') = Cardinality(LiveJobs) - 1 /\ Cardinality(LiveJobs) \in Nat
    BY <2>1, OneLess, CountedFinite, FS_CardinalityType
  <2> QED BY <2>2, <2>3
<1>4. CASE \A p \in Procs : ~(SpawnStarted(p) \/ SpawnUndoLive(p) \/ JoinFinish(p))
  <2>1. LiveJobs' = LiveJobs /\ live' = live
    BY <1>4, LiveFrame
  <2> QED BY <2>1
<1> QED BY <1>1, <1>2, <1>3, <1>4

\* STALL.blocked stays exact.
LEMMA StepBlocked ==
  ASSUME TypeOK, Shape, blocked = Cardinality(BlockedProcs), [Next]_vars
  PROVE  blocked' = Cardinality(BlockedProcs')
<1>1. ASSUME NEW p \in Procs, register_wait_and_check_stall(p)
      PROVE  blocked' = Cardinality(BlockedProcs')
  <2>1. p \notin BlockedProcs /\ BlockedProcs' = BlockedProcs \cup {p}
    BY <1>1, Distinct
    DEF register_wait_and_check_stall, TypeOK, Registered, BlockedProcs
  <2>2. blocked' = blocked + 1 /\ blocked \in Nat
    BY <1>1 DEF register_wait_and_check_stall, TypeOK
  <2>3. Cardinality(BlockedProcs') = Cardinality(BlockedProcs) + 1 /\ Cardinality(BlockedProcs) \in Nat
    BY <2>1, OneMore, CountedFinite, FS_CardinalityType
  <2> QED BY <2>2, <2>3
<1>2. ASSUME NEW p \in Procs, RecvUncount(p) \/ JoinUncount(p)
      PROVE  blocked' = Cardinality(BlockedProcs')
  <2>1. p \in BlockedProcs /\ BlockedProcs' = BlockedProcs \ {p}
    BY <1>2, Distinct
    DEF RecvUncount, JoinUncount, TypeOK, Registered, BlockedProcs
  <2>2. blocked' = blocked - 1 /\ blocked \in Nat
    BY <1>2 DEF RecvUncount, JoinUncount, TypeOK
  <2>3. Cardinality(BlockedProcs') = Cardinality(BlockedProcs) - 1 /\ Cardinality(BlockedProcs) \in Nat
    BY <2>1, OneLess, CountedFinite, FS_CardinalityType
  <2> QED BY <2>2, <2>3
<1>3. CASE \A p \in Procs : ~(register_wait_and_check_stall(p) \/ RecvUncount(p) \/ JoinUncount(p))
  <2>1. BlockedProcs' = BlockedProcs /\ blocked' = blocked
    BY <1>3, BlockedFrame
  <2> QED BY <2>1
<1> QED BY <1>1, <1>2, <1>3

\* The admission count stays exact and within the ceiling: a slot is taken by
\* spawn and given back by join or by the rollback of a refused spawn.
LEMMA StepSlots ==
  ASSUME TypeOK, Shape, held = Cardinality(SlotHolders), held <= max, [Next]_vars
  PROVE  held' = Cardinality(SlotHolders') /\ held' <= max'
<1>1. ASSUME NEW p \in Procs, NEW t \in Threads, nir_thread_spawn(p, t)
      PROVE  held' = Cardinality(SlotHolders') /\ held' <= max'
  <2>1. t \notin SlotHolders /\ SlotHolders' = SlotHolders \cup {t}
    BY <1>1, Distinct
    DEF nir_thread_spawn, SlotHolders, TypeOK, Shape, ArgShape, ArgUnique, Lifecycle, CallShape,
        PlainLabels, SpawnPrep, InCall
  <2>2. held' = held + 1 /\ held \in Nat /\ max' = max /\ held < max
    BY <1>1 DEF nir_thread_spawn, TypeOK
  <2>3. Cardinality(SlotHolders') = Cardinality(SlotHolders) + 1 /\ Cardinality(SlotHolders) \in Nat
    BY <2>1, OneMore, CountedFinite, FS_CardinalityType
  <2> QED BY <2>2, <2>3, Bounds DEF TypeOK
<1>2. ASSUME NEW p \in Procs, SpawnUndoAdmit(p)
      PROVE  held' = Cardinality(SlotHolders') /\ held' <= max'
  <2>1. arg[p] \in SlotHolders /\ SlotHolders' = SlotHolders \ {arg[p]}
    BY <1>2, Distinct
    DEF SpawnUndoAdmit, SlotHolders, TypeOK, Shape, ArgShape, ArgUnique, Lifecycle, CallShape,
        PlainLabels, SpawnPrep, InCall
  <2>2. held' = held - 1 /\ held \in Nat /\ max' = max
    BY <1>2 DEF SpawnUndoAdmit, TypeOK
  <2>3. Cardinality(SlotHolders') = Cardinality(SlotHolders) - 1 /\ Cardinality(SlotHolders) \in Nat
    BY <2>1, OneLess, CountedFinite, FS_CardinalityType
  <2> QED BY <2>2, <2>3, Bounds DEF TypeOK
<1>3. ASSUME NEW p \in Procs, JoinRelease(p)
      PROVE  held' = Cardinality(SlotHolders') /\ held' <= max'
  <2>1. arg[p] \in SlotHolders /\ SlotHolders' = SlotHolders \ {arg[p]}
    BY <1>3, Distinct
    DEF JoinRelease, SlotHolders, TypeOK, Shape, ArgShape, ArgUnique, Lifecycle, CallShape,
        PlainLabels, SpawnPrep, InCall
  <2>2. held' = held - 1 /\ held \in Nat /\ max' = max
    BY <1>3 DEF JoinRelease, TypeOK
  <2>3. Cardinality(SlotHolders') = Cardinality(SlotHolders) - 1 /\ Cardinality(SlotHolders) \in Nat
    BY <2>1, OneLess, CountedFinite, FS_CardinalityType
  <2> QED BY <2>2, <2>3, Bounds DEF TypeOK
<1>4. CASE \A p \in Procs : /\ ~SpawnUndoAdmit(p) /\ ~JoinRelease(p)
                            /\ \A t \in Threads : ~nir_thread_spawn(p, t)
  <2>1. SlotHolders' = SlotHolders /\ held' = held /\ max' = max
    BY <1>4, SlotFrame
  <2> QED BY <2>1
<1> QED BY <1>1, <1>2, <1>3, <1>4

-----------------------------------------------------------------------------
\* A registered participant is main or a job STALL.live counts.
LEMMA BlockedAreLive ==
  ASSUME TypeOK, Shape
  PROVE  BlockedProcs \subseteq LiveJobs \cup {Main}
BY Distinct DEF TypeOK, Shape, Lifecycle, CallShape, SpawnPrep, BlockedProcs,
                LiveJobs, InCall, Registered

\* One live participant that is not blocked keeps the threshold out of reach.
LEMMA NotAllBlocked ==
  ASSUME NEW L, IsFiniteSet(L), Main \notin L,
         NEW B, B \subseteq L \cup {Main}, NEW p \in L \cup {Main}, p \notin B
  PROVE  Cardinality(B) < 1 + Cardinality(L)
<1>1. IsFiniteSet(L \cup {Main}) /\ Cardinality(L \cup {Main}) = Cardinality(L) + 1
  BY FS_AddElement
<1>2. /\ IsFiniteSet((L \cup {Main}) \ {p})
      /\ Cardinality((L \cup {Main}) \ {p}) = Cardinality(L \cup {Main}) - 1
  BY <1>1, FS_RemoveElement
<1>3. B \subseteq (L \cup {Main}) \ {p}
  OBVIOUS
<1>4. IsFiniteSet(B) /\ Cardinality(B) <= Cardinality((L \cup {Main}) \ {p})
  BY <1>2, <1>3, FS_Subset
<1> QED BY <1>1, <1>2, <1>4, FS_CardinalityType

\* Whoever takes a job out of STALL.live is itself live and not blocked, so
\* the threshold is crossed by a registration only, and the participant that
\* registers sees it.
LEMMA FinishKeepsOneUnblocked ==
  ASSUME TypeOK, Shape, CountersExact, NEW p \in Procs,
         pc[p] \in {"j_finish", "sp_undo_live"}
  PROVE  blocked < live - 1
<1> DEFINE t == arg[p]
<1>1. /\ t \in LiveJobs /\ t \notin BlockedProcs
      /\ p \in (LiveJobs \ {t}) \cup {Main} /\ p \notin BlockedProcs
  BY Distinct DEF TypeOK, Shape, ArgShape, ArgUnique, Lifecycle, CallShape, PlainLabels,
                  SpawnPrep, BlockedProcs, LiveJobs, InCall, Registered
<1>2. BlockedProcs \subseteq (LiveJobs \ {t}) \cup {Main}
  BY <1>1, BlockedAreLive
<1>3. IsFiniteSet(LiveJobs \ {t}) /\ Cardinality(LiveJobs \ {t}) = Cardinality(LiveJobs) - 1
  BY <1>1, CountedFinite, FS_RemoveElement
<1>4. Main \notin LiveJobs \ {t}
  BY Distinct DEF LiveJobs
<1>5. Cardinality(BlockedProcs) < 1 + Cardinality(LiveJobs \ {t})
  BY <1>1, <1>2, <1>3, <1>4, NotAllBlocked
<1> QED BY <1>3, <1>5, CountedFinite, FS_CardinalityType DEF CountersExact

\* Some participant has seen every stall there is, and one of those aborts.
LEMMA StepStallSeen ==
  ASSUME TypeOK, Shape, CountersExact, StallSeenByOne, [Next]_vars
  PROVE  StallSeenByOne'
<1> USE Distinct DEF TypeOK, StallSeenByOne
<1>1. ASSUME NEW p \in Procs, Program(p)
      PROVE  StallSeenByOne'
  <2>1. CASE \E c \in Chans : nir_chan_new(p, c) BY <2>1 DEF nir_chan_new
  <2>2. CASE \E c \in Chans : nir_chan_recv(p, c) BY <2>2 DEF nir_chan_recv
  <2>3. CASE \E c \in Chans : RecvMustWait(p, c) BY <2>3 DEF RecvMustWait
  <2>4. CASE \E c \in Chans, v \in Threads \cup {Word} : nir_chan_send(p, c, v)
    BY <2>4 DEF nir_chan_send
  <2>5. CASE \E t \in Threads : nir_thread_spawn(p, t) BY <2>5 DEF nir_thread_spawn
  <2>6. CASE \E t \in Threads : SpawnDenied(p, t) BY <2>6 DEF SpawnDenied
  <2>7. CASE \E t \in Threads : nir_thread_join(p, t) BY <2>7 DEF nir_thread_join
  <2>8. ASSUME NEW given \in Threads \cup {None}, SpawnSubmit(p, given)
        PROVE  StallSeenByOne'
    <3>1. arg[p] \in Threads /\ pc[arg[p]] = "unborn"
      BY <2>8, Distinct DEF SpawnSubmit, Shape, ArgShape, CallShape, SpawnPrep
    <3>2. \A q \in Procs : pc[q] \in ReportLabels <=> pc'[q] = pc[q] /\ pc'[q] \in ReportLabels
      BY <2>8, <3>1 DEF SpawnSubmit
    <3>3. /\ live' = live /\ blocked' = blocked /\ reported' = reported
          /\ \A q \in Procs : pc'[q] \in ReportLabels => pc'[q] = pc[q]
          /\ pc'[Main] # "unborn"
      BY <2>8, <3>1, Distinct DEF SpawnSubmit
    <3> QED BY <3>2, <3>3
  <2>9. CASE SpawnRefused(p) BY <2>9 DEF SpawnRefused
  <2>10. CASE \E keep \in BOOLEAN : JoinRead(p, keep) BY <2>10 DEF JoinRead
  <2> QED BY <1>1, <2>1, <2>2, <2>3, <2>4, <2>5, <2>6, <2>7, <2>8, <2>9, <2>10
         DEF Program
<1>2. ASSUME NEW p \in Procs, Kernel(p)
      PROVE  StallSeenByOne'
  <2>1. CASE RecvWake(p) BY <2>1 DEF RecvWake
  <2>2. CASE WaitRegister(p) BY <2>2 DEF WaitRegister
  <2>3. CASE register_wait_and_check_stall(p)
    BY <2>3 DEF register_wait_and_check_stall, StallSeen
  <2>4. CASE ClaimReport(p) BY <2>4 DEF ClaimReport
  <2>5. CASE ReportAndAbort(p) BY <2>5 DEF ReportAndAbort
  <2>6. CASE WaitUnregister(p) BY <2>6 DEF WaitUnregister
  <2>7. CASE RecvUncount(p) BY <2>7 DEF RecvUncount
  <2>8. CASE JoinUncount(p) BY <2>8 DEF JoinUncount
  <2>9. CASE SpawnStarted(p) BY <2>9 DEF SpawnStarted
  <2>10. CASE SpawnUndoLive(p)
    BY <2>10, FinishKeepsOneUnblocked DEF SpawnUndoLive
  <2>11. CASE SpawnUndoAdmit(p) BY <2>11 DEF SpawnUndoAdmit
  <2>12. CASE SpawnInsert(p) BY <2>12 DEF SpawnInsert
  <2>13. CASE Trap(p) BY <2>13 DEF Trap
  <2>14. CASE already_done(p) BY <2>14 DEF already_done
  <2>15. CASE JoinWake(p) BY <2>15 DEF JoinWake
  <2>16. CASE JoinFinish(p)
    BY <2>16, FinishKeepsOneUnblocked DEF JoinFinish
  <2>17. CASE JoinRelease(p) BY <2>17 DEF JoinRelease
  <2> QED BY <1>2, <2>1, <2>2, <2>3, <2>4, <2>5, <2>6, <2>7, <2>8, <2>9, <2>10, <2>11,
         <2>12, <2>13, <2>14, <2>15, <2>16, <2>17 DEF Kernel
<1>3. ASSUME NEW t \in Threads, Job(t)
      PROVE  StallSeenByOne'
  <2>1. CASE JobStart(t) BY <2>1 DEF JobStart
  <2>2. CASE JobReturn(t) BY <2>2 DEF JobReturn
  <2>3. CASE ScopeDecrement(t) BY <2>3 DEF ScopeDecrement
  <2> QED BY <1>3, <2>1, <2>2, <2>3 DEF Job
<1>4. CASE MainReturn BY <1>4 DEF MainReturn
<1>5. CASE UNCHANGED vars BY <1>5
<1> QED BY <1>1, <1>2, <1>3, <1>4, <1>5 DEF Next

\* Nothing but register_wait_and_check_stall takes a participant to a report.
LEMMA OnlyRegisteringDetects ==
  ASSUME TypeOK, Shape, NEW r \in Procs, pc[r] = "w_count", pc'[r] = "detected", [Next]_vars
  PROVE  register_wait_and_check_stall(r)
<1> USE Distinct DEF TypeOK, Shape, ArgShape, ArgUnique, Lifecycle, CallShape,
         PlainLabels, SpawnPrep
<1>1. ASSUME NEW p \in Procs, Program(p)
      PROVE  register_wait_and_check_stall(r)
  <2>1. CASE \E c \in Chans : nir_chan_new(p, c) BY <2>1 DEF nir_chan_new
  <2>2. CASE \E c \in Chans : nir_chan_recv(p, c) BY <2>2 DEF nir_chan_recv
  <2>3. CASE \E c \in Chans : RecvMustWait(p, c) BY <2>3 DEF RecvMustWait
  <2>4. CASE \E c \in Chans, v \in Threads \cup {Word} : nir_chan_send(p, c, v)
    BY <2>4 DEF nir_chan_send
  <2>5. CASE \E t \in Threads : nir_thread_spawn(p, t) BY <2>5 DEF nir_thread_spawn
  <2>6. CASE \E t \in Threads : SpawnDenied(p, t) BY <2>6 DEF SpawnDenied
  <2>7. CASE \E t \in Threads : nir_thread_join(p, t) BY <2>7 DEF nir_thread_join
  <2>8. CASE \E given \in Threads \cup {None} : SpawnSubmit(p, given) BY <2>8 DEF SpawnSubmit
  <2>9. CASE SpawnRefused(p) BY <2>9 DEF SpawnRefused
  <2>10. CASE \E keep \in BOOLEAN : JoinRead(p, keep) BY <2>10 DEF JoinRead
  <2> QED BY <1>1, <2>1, <2>2, <2>3, <2>4, <2>5, <2>6, <2>7, <2>8, <2>9, <2>10
         DEF Program
<1>2. ASSUME NEW p \in Procs, Kernel(p)
      PROVE  register_wait_and_check_stall(r)
  <2>1. CASE RecvWake(p) BY <2>1 DEF RecvWake
  <2>2. CASE WaitRegister(p) BY <2>2 DEF WaitRegister
  <2>3. CASE register_wait_and_check_stall(p) BY <2>3 DEF register_wait_and_check_stall
  <2>4. CASE ClaimReport(p) BY <2>4 DEF ClaimReport
  <2>5. CASE ReportAndAbort(p) BY <2>5 DEF ReportAndAbort
  <2>6. CASE WaitUnregister(p) BY <2>6 DEF WaitUnregister
  <2>7. CASE RecvUncount(p) BY <2>7 DEF RecvUncount
  <2>8. CASE JoinUncount(p) BY <2>8 DEF JoinUncount
  <2>9. CASE SpawnStarted(p) BY <2>9 DEF SpawnStarted
  <2>10. CASE SpawnUndoLive(p) BY <2>10 DEF SpawnUndoLive
  <2>11. CASE SpawnUndoAdmit(p) BY <2>11 DEF SpawnUndoAdmit
  <2>12. CASE SpawnInsert(p) BY <2>12 DEF SpawnInsert
  <2>13. CASE Trap(p) BY <2>13 DEF Trap
  <2>14. CASE already_done(p) BY <2>14 DEF already_done
  <2>15. CASE JoinWake(p) BY <2>15 DEF JoinWake
  <2>16. CASE JoinFinish(p) BY <2>16 DEF JoinFinish
  <2>17. CASE JoinRelease(p) BY <2>17 DEF JoinRelease
  <2> QED BY <1>2, <2>1, <2>2, <2>3, <2>4, <2>5, <2>6, <2>7, <2>8, <2>9, <2>10, <2>11,
         <2>12, <2>13, <2>14, <2>15, <2>16, <2>17 DEF Kernel
<1>3. ASSUME NEW t \in Threads, Job(t)
      PROVE  register_wait_and_check_stall(r)
  <2>1. CASE JobStart(t) BY <2>1 DEF JobStart
  <2>2. CASE JobReturn(t) BY <2>2 DEF JobReturn
  <2>3. CASE ScopeDecrement(t) BY <2>3 DEF ScopeDecrement
  <2> QED BY <1>3, <2>1, <2>2, <2>3 DEF Job
<1>4. CASE MainReturn BY <1>4 DEF MainReturn
<1>5. CASE UNCHANGED vars BY <1>5
<1> QED BY <1>1, <1>2, <1>3, <1>4, <1>5 DEF Next

-----------------------------------------------------------------------------
\* The initial state satisfies the inductive invariant.
THEOREM InitIInv == Init => IInv
<1> SUFFICES ASSUME Init PROVE IInv
  OBVIOUS
<1> USE Distinct, Bounds DEF Init
<1>1. TypeOK
  <2>1. queue \in [Chans -> Seq(Threads \cup {Word})]
    OBVIOUS
  <2>2. pc \in [Procs -> Labels]
    OBVIOUS
  <2>3. /\ ops \in 0..MaxOps /\ max \in Ceilings
        /\ live \in Nat /\ blocked \in Nat /\ held \in Nat
    OBVIOUS
  <2>4. /\ holder \in [Threads -> Procs \cup Chans \cup {None, Lost}]
        /\ box \in [Threads -> {"none", "empty", "full"}]
        /\ arg \in [Procs -> Threads \cup Chans \cup {None}]
        /\ registry \in [Procs -> Threads \cup Chans \cup {None}]
    OBVIOUS
  <2>5. /\ table \subseteq Threads /\ pending \subseteq Threads /\ open \subseteq Chans
        /\ reported \in BOOLEAN /\ aborted \in BOOLEAN /\ escaped \in BOOLEAN
    OBVIOUS
  <2> HIDE DEF Init
  <2> QED BY <2>1, <2>2, <2>3, <2>4, <2>5 DEF TypeOK
<1>2. Shape
  BY DEF Shape, ArgShape, ArgUnique, Lifecycle, CallShape, UnbornShape, PlainLabels
<1>3. LiveJobs = {} /\ SlotHolders = {} /\ BlockedProcs = {}
  BY DEF LiveJobs, SlotHolders, BlockedProcs, Registered, InCall
<1>4. CountersExact
  BY <1>3, FS_EmptySet DEF CountersExact
<1>5. StallSeenByOne
  <2>1. \A p \in Procs : pc[p] \notin ReportLabels
    OBVIOUS
  <2>2. ~(blocked >= live) /\ ~reported
    OBVIOUS
  <2> QED BY <2>1, <2>2 DEF StallSeenByOne
<1>6. HandlesUnique
  BY DEF HandlesUnique, HandleResolves
<1> QED BY <1>1, <1>2, <1>4, <1>5, <1>6 DEF IInv

\* Every step preserves it.
THEOREM StepIInv == IInv /\ [Next]_vars => IInv'
<1> SUFFICES ASSUME IInv, [Next]_vars PROVE IInv'
  OBVIOUS
<1>1. TypeOK /\ Shape /\ CountersExact
  BY DEF IInv
<1>2. Shape'
  BY <1>1, StepArg, StepLife, StepCall, StepUnborn DEF Shape
<1>3. CountersExact'
  BY <1>1, StepLive, StepBlocked, StepSlots DEF CountersExact
<1>4. live' \in Nat /\ blocked' \in Nat /\ held' \in Nat
  BY <1>3, CountedFinite, FS_CardinalityType DEF CountersExact
<1>5. TypeOK'
  BY <1>1, <1>4, StepType, StepTypeRest DEF TypeOK, StepTyped, StepTypedRest
<1>6. StallSeenByOne'
  BY <1>1, StepStallSeen DEF IInv
<1>7. HandlesUnique'
  BY <1>1, StepHandles DEF IInv
<1> QED BY <1>2, <1>3, <1>5, <1>6, <1>7 DEF IInv

\* Every reachable state satisfies it.
THEOREM Invariance == Spec => []IInv
BY InitIInv, StepIInv, PTL DEF Spec

\* Every variable keeps its type, for any number of threads and channels.
THEOREM TypeCorrect == Spec => []TypeOK
<1>1. IInv => TypeOK
  BY DEF IInv
<1> QED BY <1>1, Invariance, PTL

\* STALL.live, STALL.blocked and the thread domain's admission count are exact
\* at every lock boundary, and the ceiling is never exceeded, for any number of
\* threads: a refused spawn, a join that never blocked and a join that did all
\* give back exactly what they took.
THEOREM CountersCorrect == Spec => []CountersExact
<1>1. IInv => CountersExact
  BY DEF IInv
<1> QED BY <1>1, Invariance, PTL

\* The raw result pointer is never written after it was freed nor read before
\* it was written.
THEOREM ResultBoxCorrect == Spec => []ResultBoxSafe
<1>1. IInv => ResultBoxSafe
  BY DEF IInv, TypeOK, Shape, ArgShape, Lifecycle, CallShape, PlainLabels, SpawnPrep,
         ResultBoxSafe
<1> QED BY <1>1, Invariance, PTL

\* Send, spawn and join move a thread handle: one that somebody holds, or that
\* sits in a mailbox, has its entry, so no join ever meets a handle another
\* join has used up.
THEOREM HandlesCorrect == Spec => []HandleResolves
<1>1. IInv => HandleResolves
  BY DEF IInv, HandlesUnique
<1> QED BY <1>1, Invariance, PTL

\* A stall in which every job is still running is always reported.
THEOREM StallDetected == Spec => []StallIsDetected
<1>1. IInv => StallIsDetected
  <2> SUFFICES ASSUME IInv, Running, \A p \in Procs : ~CanMove(p),
                      \A t \in LiveJobs : pc[t] # "done"
               PROVE  FALSE
    BY DEF StallIsDetected
  <2>1. \A p \in Procs : pc[p] \in {"unborn", "done", "parked", "waiting"}
    BY DEF CanMove
  <2>2. LiveJobs \cup {Main} \subseteq BlockedProcs
    <3>1. \A t \in LiveJobs : pc[t] # "unborn"
      BY <2>1 DEF IInv, Shape, UnbornShape, InCall, SpawnPrep, LiveJobs
    <3>2. pc[Main] # "unborn"
      BY DEF IInv, StallSeenByOne
    <3> QED BY <2>1, <3>1, <3>2 DEF LiveJobs, BlockedProcs, Registered
  <2>3. blocked >= live
    <3>1. Main \notin LiveJobs
      BY Distinct DEF LiveJobs
    <3>2. Cardinality(LiveJobs \cup {Main}) = Cardinality(LiveJobs) + 1
      BY <3>1, OneMore, CountedFinite
    <3>3. Cardinality(LiveJobs \cup {Main}) <= Cardinality(BlockedProcs)
      BY <2>2, CountedFinite, FS_Subset
    <3> QED BY <3>2, <3>3, CountedFinite, FS_CardinalityType DEF IInv, CountersExact
  <2>4. PICK p \in Procs : pc[p] = "reporting"
    BY <2>1, <2>3 DEF IInv, StallSeenByOne
  <2> QED BY <2>1, <2>4
<1> QED BY <1>1, Invariance, PTL

\* A report is exact as far as joins go: all participants are registered, and
\* none of them waits for a job that is already over.
THEOREM DetectorCorrect == Spec => DetectorExactForJoins
<1> DEFINE Exact == \A p \in Procs : (pc[p] = "w_count" /\ pc'[p] = "detected") =>
                      \A q \in LiveJobs \cup {Main} :
                        /\ pc'[q] \in Registered
                        /\ arg[q] \in Threads => arg[q] \in pending
<1>1. ASSUME IInv, [Next]_vars PROVE [Exact]_vars
  <2> SUFFICES ASSUME NEW p \in Procs, pc[p] = "w_count", pc'[p] = "detected",
                      NEW q \in LiveJobs \cup {Main}
               PROVE  /\ pc'[q] \in Registered
                      /\ arg[q] \in Threads => arg[q] \in pending
    OBVIOUS
  <2>1. register_wait_and_check_stall(p)
    BY <1>1, OnlyRegisteringDetects DEF IInv
  <2>2. BlockedProcs' = LiveJobs \cup {Main}
    <3>1. BlockedProcs' = BlockedProcs \cup {p}
      BY <1>1, <2>1 DEF register_wait_and_check_stall, BlockedProcs, Registered, IInv, TypeOK
    <3>2. p \in LiveJobs \cup {Main}
      BY <1>1, <2>1, Distinct DEF IInv, TypeOK, Shape, Lifecycle, CallShape, SpawnPrep, LiveJobs,
             InCall, register_wait_and_check_stall
    <3>3. BlockedProcs' \subseteq LiveJobs \cup {Main}
      BY <1>1, <3>1, <3>2, BlockedAreLive DEF IInv
    <3>4. blocked' >= live /\ blocked' = Cardinality(BlockedProcs')
      <4>1. blocked + 1 >= live /\ blocked' = blocked + 1
        BY <1>1, <2>1 DEF register_wait_and_check_stall, StallSeen, IInv, TypeOK
      <4>2. CountersExact'
        BY <1>1, StepIInv DEF IInv
      <4> QED BY <4>1, <4>2 DEF CountersExact
    <3>5. /\ IsFiniteSet(LiveJobs \cup {Main})
          /\ Cardinality(LiveJobs \cup {Main}) = live
      <4>1. Main \notin LiveJobs
        BY Distinct DEF LiveJobs
      <4> QED BY <1>1, <4>1, CountedFinite, FS_AddElement, FS_CardinalityType
             DEF IInv, CountersExact
    <3> QED BY <3>3, <3>4, <3>5, FS_Subset, FS_CardinalityType
  <2>3. pc'[q] \in Registered
    BY <2>2 DEF BlockedProcs
  <2>4. ASSUME arg[q] \in Threads, arg[q] \notin pending PROVE FALSE
    <3>1. pc[q] \in Registered \cup {"w_count"}
      BY <1>1, <2>1, <2>3 DEF register_wait_and_check_stall, IInv, TypeOK, LiveJobs
    <3>2. pc[arg[q]] = "done" /\ arg[q] \in LiveJobs
      BY <1>1, <2>4, <3>1, Distinct DEF IInv, TypeOK, Shape, ArgShape, ArgUnique,
             Lifecycle, CallShape, PlainLabels, SpawnPrep, LiveJobs, InCall, Registered
    <3>3. pc'[arg[q]] = "done"
      BY <1>1, <2>1, <3>2 DEF register_wait_and_check_stall, IInv, TypeOK
    <3>4. pc'[arg[q]] \in Registered
      BY <2>2, <3>2 DEF BlockedProcs
    <3> QED BY <3>3, <3>4 DEF Registered
  <2> QED BY <2>3, <2>4
<1> QED BY <1>1, Invariance, PTL DEF Spec, DetectorExactForJoins
-----------------------------------------------------------------------------
(***************************************************************************)
(* What a program leaves behind. CleanExit needs to know who answers for   *)
(* each job that has not been joined: as long as no handle has escaped,    *)
(* the one participant that has its handle or is in a call about it, which *)
(* has not returned, and, guardian by guardian, in the end main.           *)
(***************************************************************************)
Guardian(q, t) == holder[t] = q \/ arg[q] = t
HeldByActive ==
  \A t \in Threads : /\ holder[t] \in Procs \cup {None}
                     /\ holder[t] # None => pc[holder[t]] \notin {"unborn", "returning", "done"}
Guarded == \A t \in Threads : box[t] # "none" => \E q \in Procs : Guardian(q, t)

\* No set of jobs has all its guardians among its own.
Anchored ==
  \A S \in SUBSET Threads : S # {} /\ (\A t \in S : box[t] # "none") =>
    \E t \in S : \A q \in S : ~Guardian(q, t)
Guardians == ~escaped => HeldByActive /\ Guarded /\ Anchored

\* A step that makes no new job and leaves each job its guardian.
GuardiansStay ==
  \A t \in Threads : box'[t] # "none" =>
    box[t] # "none" /\ \A q \in Procs : Guardian(q, t)' <=> Guardian(q, t)

Spawning == \E p \in Procs : \/ \E t \in Threads : nir_thread_spawn(p, t)
                             \/ \E given \in Threads \cup {None} : SpawnSubmit(p, given)

\* Handles are only ever with a participant that has not returned: it joins
\* or, as its result, lets escape every handle it has before it does.
LEMMA StepHeld ==
  ASSUME TypeOK, Shape, HandlesUnique, HeldByActive, ~escaped, ~escaped', [Next]_vars
  PROVE  HeldByActive' \/ Spawning
<1> USE Distinct, Typing DEF TypeOK, Shape, ArgShape, CallShape, PlainLabels, SpawnPrep,
         HandlesUnique, HandleResolves, Owned, HeldByActive, Spawning
<1>1. ASSUME NEW p \in Procs, Program(p)
      PROVE  HeldByActive' \/ Spawning
  <2>1. CASE \E c \in Chans : nir_chan_new(p, c) BY <2>1 DEF nir_chan_new
  <2>2. CASE \E c \in Chans : nir_chan_recv(p, c) BY <2>2 DEF nir_chan_recv, TakeMessage
  <2>3. CASE \E c \in Chans : RecvMustWait(p, c) BY <2>3 DEF RecvMustWait
  <2>4. ASSUME NEW c \in Chans, NEW v \in Threads \cup {Word}, nir_chan_send(p, c, v)
        PROVE  HeldByActive' \/ Spawning
    <3>1. v \in Threads => escaped'
      <4> HIDE DEF TypeOK
      <4> QED BY <2>4, Zenon DEF nir_chan_send
    <3>2. v \notin Threads BY <3>1
    <3>3. UNCHANGED <<pc, arg, box>> /\ holder' = [t \in Threads |-> IF t = v THEN c ELSE holder[t]]
      BY <2>4 DEF nir_chan_send
    <3>4. holder' = holder BY <3>2, <3>3
    <3> QED BY <3>3, <3>4
  <2>6. CASE \E t \in Threads : SpawnDenied(p, t) BY <2>6 DEF SpawnDenied
  <2>7. CASE \E t \in Threads : nir_thread_join(p, t) BY <2>7 DEF nir_thread_join
  <2>9. CASE SpawnRefused(p) BY <2>9 DEF SpawnRefused
  <2>10. CASE \E keep \in BOOLEAN : JoinRead(p, keep) BY <2>10 DEF JoinRead
  <2>5. CASE \E t \in Threads : nir_thread_spawn(p, t) BY <2>5
  <2>8. CASE \E given \in Threads \cup {None} : SpawnSubmit(p, given) BY <2>8
  <2> QED BY <1>1, <2>1, <2>2, <2>3, <2>4, <2>5, <2>6, <2>7, <2>8, <2>9, <2>10
         DEF Program
<1>2. ASSUME NEW p \in Procs, Kernel(p)
      PROVE  HeldByActive' \/ Spawning
  <2>1. CASE RecvWake(p) BY <2>1 DEF RecvWake, TakeMessage
  <2>2. CASE WaitRegister(p) BY <2>2 DEF WaitRegister
  <2>3. CASE register_wait_and_check_stall(p) BY <2>3 DEF register_wait_and_check_stall
  <2>4. CASE ClaimReport(p) BY <2>4 DEF ClaimReport
  <2>5. CASE ReportAndAbort(p) BY <2>5 DEF ReportAndAbort
  <2>6. CASE WaitUnregister(p) BY <2>6 DEF WaitUnregister
  <2>7. CASE RecvUncount(p) BY <2>7 DEF RecvUncount
  <2>8. CASE JoinUncount(p) BY <2>8 DEF JoinUncount
  <2>9. CASE SpawnStarted(p) BY <2>9 DEF SpawnStarted
  <2>10. CASE SpawnUndoLive(p) BY <2>10 DEF SpawnUndoLive
  <2>11. CASE SpawnUndoAdmit(p) BY <2>11 DEF SpawnUndoAdmit
  <2>12. CASE SpawnInsert(p) BY <2>12 DEF SpawnInsert
  <2>13. CASE Trap(p) BY <2>13 DEF Trap
  <2>14. CASE already_done(p) BY <2>14 DEF already_done
  <2>15. CASE JoinWake(p) BY <2>15 DEF JoinWake
  <2>16. CASE JoinFinish(p) BY <2>16 DEF JoinFinish
  <2>17. CASE JoinRelease(p) BY <2>17 DEF JoinRelease
  <2> QED BY <1>2, <2>1, <2>2, <2>3, <2>4, <2>5, <2>6, <2>7, <2>8, <2>9, <2>10, <2>11,
         <2>12, <2>13, <2>14, <2>15, <2>16, <2>17 DEF Kernel
<1>3. ASSUME NEW t \in Threads, Job(t)
      PROVE  HeldByActive' \/ Spawning
  <2>1. CASE JobStart(t) BY <2>1 DEF JobStart
  <2>2. CASE JobReturn(t) BY <2>2 DEF JobReturn
  <2>3. CASE ScopeDecrement(t) BY <2>3 DEF ScopeDecrement
  <2> QED BY <1>3, <2>1, <2>2, <2>3 DEF Job
<1>4. CASE MainReturn BY <1>4 DEF MainReturn
<1>5. CASE UNCHANGED vars BY <1>5
<1> QED BY <1>1, <1>2, <1>3, <1>4, <1>5 DEF Next

\* Every step but the two halves of a spawn leaves each job its guardian: an
\* insert and a join pass it from the call to the binding and back.
LEMMA StepGuardian ==
  ASSUME TypeOK, Shape, HandlesUnique, HeldByActive, ~escaped, ~escaped', [Next]_vars
  PROVE  GuardiansStay \/ Spawning
<1> USE Distinct, Typing DEF TypeOK, Shape, ArgShape, ArgUnique, CallShape, Lifecycle, PlainLabels,
         SpawnPrep, HandlesUnique, HandleResolves, Owned, HeldByActive, GuardiansStay, Guardian, Spawning
<1>1. ASSUME NEW p \in Procs, Program(p)
      PROVE  GuardiansStay \/ Spawning
  <2>1. CASE \E c \in Chans : nir_chan_new(p, c) BY <2>1 DEF nir_chan_new
  <2>2. CASE \E c \in Chans : nir_chan_recv(p, c) BY <2>2 DEF nir_chan_recv, TakeMessage
  <2>3. CASE \E c \in Chans : RecvMustWait(p, c) BY <2>3 DEF RecvMustWait
  <2>4. ASSUME NEW c \in Chans, NEW v \in Threads \cup {Word}, nir_chan_send(p, c, v)
        PROVE  GuardiansStay \/ Spawning
    <3>1. v \in Threads => escaped'
      <4> HIDE DEF TypeOK
      <4> QED BY <2>4, Zenon DEF nir_chan_send
    <3>2. v \notin Threads BY <3>1
    <3>3. UNCHANGED <<pc, arg, box>> /\ holder' = [t \in Threads |-> IF t = v THEN c ELSE holder[t]]
      BY <2>4 DEF nir_chan_send
    <3>4. holder' = holder BY <3>2, <3>3
    <3> QED BY <3>3, <3>4
  <2>6. CASE \E t \in Threads : SpawnDenied(p, t) BY <2>6 DEF SpawnDenied
  <2>7. CASE \E t \in Threads : nir_thread_join(p, t) BY <2>7 DEF nir_thread_join
  <2>9. CASE SpawnRefused(p) BY <2>9 DEF SpawnRefused
  <2>10. CASE \E keep \in BOOLEAN : JoinRead(p, keep) BY <2>10 DEF JoinRead
  <2>5. CASE \E t \in Threads : nir_thread_spawn(p, t) BY <2>5
  <2>8. CASE \E given \in Threads \cup {None} : SpawnSubmit(p, given) BY <2>8
  <2> QED BY <1>1, <2>1, <2>2, <2>3, <2>4, <2>5, <2>6, <2>7, <2>8, <2>9, <2>10
         DEF Program
<1>2. ASSUME NEW p \in Procs, Kernel(p)
      PROVE  GuardiansStay \/ Spawning
  <2>1. CASE RecvWake(p) BY <2>1 DEF RecvWake, TakeMessage
  <2>2. CASE WaitRegister(p) BY <2>2 DEF WaitRegister
  <2>3. CASE register_wait_and_check_stall(p) BY <2>3 DEF register_wait_and_check_stall
  <2>4. CASE ClaimReport(p) BY <2>4 DEF ClaimReport
  <2>5. CASE ReportAndAbort(p) BY <2>5 DEF ReportAndAbort
  <2>6. CASE WaitUnregister(p) BY <2>6 DEF WaitUnregister
  <2>7. CASE RecvUncount(p) BY <2>7 DEF RecvUncount
  <2>8. CASE JoinUncount(p) BY <2>8 DEF JoinUncount
  <2>9. CASE SpawnStarted(p) BY <2>9 DEF SpawnStarted
  <2>10. CASE SpawnUndoLive(p) BY <2>10 DEF SpawnUndoLive
  <2>11. CASE SpawnUndoAdmit(p) BY <2>11 DEF SpawnUndoAdmit
  <2>12. CASE SpawnInsert(p) BY <2>12 DEF SpawnInsert
  <2>13. CASE Trap(p) BY <2>13 DEF Trap
  <2>14. CASE already_done(p) BY <2>14 DEF already_done
  <2>15. CASE JoinWake(p) BY <2>15 DEF JoinWake
  <2>16. CASE JoinFinish(p) BY <2>16 DEF JoinFinish
  <2>17. CASE JoinRelease(p) BY <2>17 DEF JoinRelease
  <2> QED BY <1>2, <2>1, <2>2, <2>3, <2>4, <2>5, <2>6, <2>7, <2>8, <2>9, <2>10, <2>11,
         <2>12, <2>13, <2>14, <2>15, <2>16, <2>17 DEF Kernel
<1>3. ASSUME NEW t \in Threads, Job(t)
      PROVE  GuardiansStay \/ Spawning
  <2>1. CASE JobStart(t) BY <2>1 DEF JobStart
  <2>2. CASE JobReturn(t) BY <2>2 DEF JobReturn
  <2>3. CASE ScopeDecrement(t) BY <2>3 DEF ScopeDecrement
  <2> QED BY <1>3, <2>1, <2>2, <2>3 DEF Job
<1>4. CASE MainReturn BY <1>4 DEF MainReturn
<1>5. CASE UNCHANGED vars BY <1>5
<1> QED BY <1>1, <1>2, <1>3, <1>4, <1>5 DEF Next
\* A step that leaves each job its guardian leaves each set of jobs anchored.
LEMMA StayKeepsAnchors ==
  ASSUME Guarded, Anchored, GuardiansStay
  PROVE  Guarded' /\ Anchored'
<1>1. Guarded'
  BY DEF Guarded, GuardiansStay
<1>2. Anchored'
  <2> SUFFICES ASSUME NEW S \in SUBSET Threads, S # {}, \A t \in S : box'[t] # "none"
               PROVE  \E t \in S : \A q \in S : ~Guardian(q, t)'
    BY DEF Anchored
  <2>1. \A t \in S : box[t] # "none"
    BY DEF GuardiansStay
  <2>2. PICK t \in S : \A q \in S : ~Guardian(q, t)
    BY <2>1 DEF Anchored
  <2>3. \A q \in S : ~Guardian(q, t)'
    BY <2>2 DEF GuardiansStay
  <2> QED
    BY <2>3
<1> QED
  BY <1>1, <1>2

\* A new job has its spawner for a guardian and is nobody's guardian yet.
LEMMA SpawnKeepsAnchors ==
  ASSUME TypeOK, Shape, HandlesUnique, HeldByActive, Guarded, Anchored,
         NEW p \in Procs, NEW u \in Threads, nir_thread_spawn(p, u)
  PROVE  HeldByActive' /\ Guarded' /\ Anchored'
<1>1. /\ pc[p] = "run" /\ pc[u] = "unborn" /\ box[u] = "none" /\ holder' = holder
      /\ box' = [box EXCEPT ![u] = "empty"] /\ arg' = [arg EXCEPT ![p] = u]
      /\ pc' = [pc EXCEPT ![p] = "sp_start"]
  BY DEF nir_thread_spawn
<1>2. p # u /\ arg[p] = None /\ arg[u] = None
  BY <1>1 DEF Shape, ArgShape, PlainLabels
<1>3. HeldByActive'
  BY <1>1 DEF HeldByActive, TypeOK
<1>4. \A t \in Threads : holder[t] # u
  BY <1>1, Distinct DEF HeldByActive
<1>5. \A t \in Threads \ {u} : \A q \in Procs : Guardian(q, t)' <=> Guardian(q, t)
  BY <1>1, <1>2, Distinct DEF Guardian, TypeOK
<1>6. \A q \in Procs : arg[q] # u /\ holder[u] # q
  <2>1. u \notin table
    BY <1>1 DEF Shape, Lifecycle
  <2>2. holder[u] = None
    BY <2>1 DEF HandlesUnique, HandleResolves
  <2>3. ASSUME NEW q \in Procs, arg[q] = u PROVE FALSE
    <3>1. pc[q] \notin SpawnPrep \cup {"j_release"} => box[u] # "none"
      BY <2>3 DEF Shape, CallShape
    <3>2. pc[q] \in SpawnPrep => box[u] = "empty"
      BY <2>3 DEF Shape, CallShape
    <3>3. pc[q] = "j_release" => pc[u] = "done"
      BY <2>3 DEF Shape, CallShape
    <3> QED
      BY <1>1, <3>1, <3>2, <3>3
  <2> QED
    BY <2>2, <2>3, Distinct
<1>7. Guardian(p, u)' /\ \A q \in Procs \ {p} : ~Guardian(q, u)'
  BY <1>1, <1>6 DEF Guardian, TypeOK
<1>8. \A t \in Threads \ {u} : box'[t] = box[t]
  BY <1>1 DEF TypeOK
<1>9. Guarded'
  BY <1>5, <1>7, <1>8 DEF Guarded
<1>10. Anchored'
  <2> SUFFICES ASSUME NEW S \in SUBSET Threads, S # {}, \A t \in S : box'[t] # "none"
               PROVE  \E t \in S : \A q \in S : ~Guardian(q, t)'
    BY DEF Anchored
  <2>1. CASE u \in S /\ p \notin S
    BY <1>7, <2>1
  <2>2. CASE u \notin S
    <3>1. \A t \in S : box[t] # "none"
      BY <1>8, <2>2
    <3>2. PICK t \in S : \A q \in S : ~Guardian(q, t)
      BY <3>1 DEF Anchored
    <3> QED
      BY <1>5, <2>2, <3>2
  <2>3. CASE u \in S /\ p \in S
    <3>1. PICK R \in SUBSET Threads : R = S \ {u}
      OBVIOUS
    <3>2. R # {} /\ \A t \in R : box[t] # "none"
      BY <1>2, <1>8, <2>3, <3>1
    <3>3. PICK t \in R : \A q \in R : ~Guardian(q, t)
      BY <3>2 DEF Anchored
    <3>4. ~Guardian(u, t)
      BY <1>2, <1>4, <3>1, Distinct DEF Guardian
    <3>5. \A q \in S : ~Guardian(q, t)'
      BY <1>5, <3>1, <3>3, <3>4
    <3> QED
      BY <3>1, <3>5
  <2> QED
    BY <2>1, <2>2, <2>3
<1> QED
  BY <1>3, <1>9, <1>10

\* A handle given to a new job moves from the spawner to a job the spawner is
\* the guardian of.
LEMMA SubmitKeepsAnchors ==
  ASSUME TypeOK, Shape, HandlesUnique, HeldByActive, Guarded, Anchored,
         NEW p \in Procs, NEW given \in Threads \cup {None}, SpawnSubmit(p, given)
  PROVE  HeldByActive' /\ Guarded' /\ Anchored'
<1>1. PICK u \in Threads : u = arg[p]
  BY DEF SpawnSubmit, Shape, ArgShape
<1>2. /\ pc[p] = "sp_submit" /\ (given = None \/ holder[given] = p)
      /\ holder' = [h \in Threads |-> IF h = given THEN u ELSE holder[h]]
      /\ pc' = [pc EXCEPT ![p] = "sp_insert", ![u] = "queued"]
      /\ UNCHANGED <<arg, box>>
  BY <1>1 DEF SpawnSubmit, Owned
<1>3. pc[u] = "unborn" /\ box[u] = "empty" /\ u \notin table
  BY <1>1, <1>2 DEF Shape, CallShape, SpawnPrep
<1>4. p # u
  BY <1>2, <1>3
<1>5. holder[u] = None
  BY <1>3 DEF HandlesUnique, HandleResolves
<1>6. \A q \in Procs : arg[q] = u => q = p
  BY <1>1 DEF Shape, ArgUnique
<1>7. \A t \in Threads : t # given =>
        holder'[t] = holder[t] /\ \A q \in Procs : Guardian(q, t)' <=> Guardian(q, t)
  BY <1>2 DEF Guardian
<1>8. \A q \in Procs : pc'[q] = IF q = u THEN "queued" ELSE IF q = p THEN "sp_insert" ELSE pc[q]
  BY <1>2 DEF TypeOK
<1>9. HeldByActive'
  <2> SUFFICES ASSUME NEW t \in Threads
               PROVE  /\ holder'[t] \in Procs \cup {None}
                      /\ holder'[t] # None => pc'[holder'[t]] \notin {"unborn", "returning", "done"}
    BY DEF HeldByActive
  <2>1. CASE t = given
    <3>1. holder'[t] = u
      BY <1>2, <2>1
    <3> QED
      BY <1>8, <3>1
  <2>2. CASE t # given
    <3>1. holder'[t] = holder[t]
      BY <1>7, <2>2
    <3>2. holder[t] \in Procs \cup {None}
      BY DEF HeldByActive
    <3>3. holder[t] # None => pc[holder[t]] \notin {"unborn", "returning", "done"}
      BY DEF HeldByActive
    <3>4. ASSUME holder[t] # None PROVE pc'[holder[t]] \notin {"unborn", "returning", "done"}
      BY <1>8, <3>2, <3>3, <3>4
    <3> QED
      BY <3>1, <3>2, <3>4
  <2> QED
    BY <2>1, <2>2
<1>10. Guarded'
  <2> SUFFICES ASSUME NEW t \in Threads, box'[t] # "none" PROVE \E q \in Procs : Guardian(q, t)'
    BY DEF Guarded
  <2>1. CASE t = given
    BY <1>2, <2>1 DEF Guardian
  <2>2. CASE t # given
    BY <1>2, <1>7, <2>2 DEF Guarded
  <2> QED
    BY <2>1, <2>2
<1>11. Anchored'
  <2> SUFFICES ASSUME NEW S \in SUBSET Threads, S # {}, \A t \in S : box'[t] # "none"
               PROVE  \E t \in S : \A q \in S : ~Guardian(q, t)'
    BY DEF Anchored
  <2>1. PICK t \in S : \A q \in S : ~Guardian(q, t)
    BY <1>2 DEF Anchored
  <2>2. CASE t # given
    BY <1>7, <2>1, <2>2
  <2>3. CASE t = given
    <3>1. p \notin S
      BY <1>2, <2>1, <2>3, Distinct DEF Guardian
    <3>2. t \notin table => holder[t] = None
      BY DEF HandlesUnique, HandleResolves
    <3>3. holder[t] = p
      BY <1>2, <2>3, Distinct
    <3>4. t # u
      BY <1>5, <3>3, Distinct
    <3>5. \A q \in S : arg[q] # t
      BY <2>1 DEF Guardian
    <3>6. CASE u \notin S
      BY <1>2, <2>3, <3>5, <3>6 DEF Guardian
    <3>7. CASE u \in S
      <4>1. \A q \in S : ~Guardian(q, u)
        BY <1>5, <1>6, <3>1, Distinct DEF Guardian
      <4>2. u # given
        BY <2>3, <3>4
      <4> QED
        BY <1>7, <3>7, <4>1, <4>2
    <3> QED
      BY <3>6, <3>7
  <2> QED
    BY <2>2, <2>3
<1> QED
  BY <1>9, <1>10, <1>11

\* A handle that has escaped has escaped.
LEMMA EscapedStays ==
  ASSUME escaped, [Next]_vars
  PROVE  escaped'
<1>1. CASE UNCHANGED escaped
  BY <1>1
<1>2. ASSUME NEW p, NEW c, NEW v, nir_chan_send(p, c, v) PROVE escaped'
  BY <1>2, Zenon DEF nir_chan_send
<1>3. ASSUME NEW t, JobReturn(t) PROVE escaped'
  BY <1>3, Zenon DEF JobReturn
<1>4. ASSUME NEW p \in Procs, Program(p) PROVE escaped'
  BY <1>1, <1>2, <1>4 DEF Program, nir_chan_new, nir_chan_recv, RecvMustWait, nir_thread_spawn,
     SpawnDenied, nir_thread_join, SpawnSubmit, SpawnRefused, JoinRead
<1>5. ASSUME NEW p \in Procs, Kernel(p) PROVE escaped'
  BY <1>1, <1>5 DEF Kernel, RecvWake, WaitRegister, register_wait_and_check_stall, ClaimReport,
     ReportAndAbort, WaitUnregister, RecvUncount, JoinUncount, SpawnStarted, SpawnUndoLive,
     SpawnUndoAdmit, SpawnInsert, Trap, already_done, JoinWake, JoinFinish, JoinRelease
<1>6. ASSUME NEW t \in Threads, Job(t) PROVE escaped'
  BY <1>1, <1>3, <1>6 DEF Job, JobStart, ScopeDecrement
<1>7. CASE MainReturn
  BY <1>1, <1>7 DEF MainReturn
<1> QED
  BY <1>1, <1>4, <1>5, <1>6, <1>7 DEF Next

\* The guardians are an invariant, on top of IInv.
THEOREM GuardianInvariance == Spec => [](IInv /\ Guardians)
<1>1. Init => Guardians
  BY Distinct DEF Init, Guardians, HeldByActive, Guarded, Anchored
<1>2. IInv /\ Guardians /\ [Next]_vars => Guardians'
  <2> SUFFICES ASSUME IInv, Guardians, [Next]_vars, ~escaped' PROVE HeldByActive' /\ Guarded' /\ Anchored'
    BY DEF Guardians
  <2>1. TypeOK /\ Shape /\ HandlesUnique
    BY DEF IInv
  <2>2. ~escaped
    BY EscapedStays
  <2>3. HeldByActive /\ Guarded /\ Anchored
    BY <2>2 DEF Guardians
  <2>4. CASE Spawning
    BY <2>1, <2>3, <2>4, SpawnKeepsAnchors, SubmitKeepsAnchors DEF Spawning
  <2>5. CASE ~Spawning
    <3>1. HeldByActive' /\ GuardiansStay
      BY <2>1, <2>2, <2>3, <2>5, StepHeld, StepGuardian
    <3> QED
      BY <2>3, <3>1, StayKeepsAnchors
  <2> QED
    BY <2>4, <2>5
<1> QED
  BY <1>1, <1>2, InitIInv, StepIInv, PTL DEF Spec

\* When main returns and no handle has escaped, every job has run to its end
\* and been joined, and every table and counter is back where it started, for
\* any number of threads: the jobs left over would have to be each other's
\* guardians.
THEOREM ExitIsClean == Spec => []CleanExit
<1>1. IInv /\ Guardians => CleanExit
  <2> SUFFICES ASSUME IInv, Guardians, pc[Main] = "done", ~escaped
               PROVE  /\ \A t \in Threads : pc[t] \in {"unborn", "done"} /\ box[t] = "none"
                      /\ table = {} /\ pending = {}
                      /\ held = 0 /\ live = 1 /\ blocked = 0
    BY DEF CleanExit
  <2>1. TypeOK /\ Shape /\ CountersExact /\ HeldByActive /\ Guarded /\ Anchored
    BY DEF IInv, Guardians
  <2>2. PICK S \in SUBSET Threads : S = {t \in Threads : box[t] # "none"}
    OBVIOUS
  <2>3. \A t \in Threads \ S : pc[t] \in {"unborn", "done"}
    BY <2>1, <2>2 DEF Shape, Lifecycle
  <2>4. S = {}
    <3> SUFFICES ASSUME S # {} PROVE FALSE
      OBVIOUS
    <3>1. PICK t \in S : \A q \in S : ~Guardian(q, t)
      BY <2>1, <2>2 DEF Anchored
    <3>2. PICK q \in Procs : Guardian(q, t)
      BY <2>1, <2>2 DEF Guarded
    <3>3. pc[q] \in {"unborn", "done"}
      BY <2>3, <3>1, <3>2
    <3>4. arg[q] # t
      BY <2>1, <3>3, Distinct DEF Shape, ArgShape, PlainLabels
    <3>5. holder[t] = q /\ holder[t] # None
      BY <3>2, <3>4, Distinct DEF Guardian
    <3> QED
      BY <2>1, <3>3, <3>5 DEF HeldByActive
  <2>5. \A t \in Threads : pc[t] \in {"unborn", "done"} /\ box[t] = "none"
    BY <2>2, <2>3, <2>4
  <2>6. table = {} /\ pending = {}
    BY <2>1, <2>5 DEF Shape, Lifecycle, TypeOK
  <2>7. \A p \in Procs : pc[p] \in {"unborn", "done"}
    BY <2>5
  <2>8. LiveJobs = {} /\ SlotHolders = {} /\ BlockedProcs = {}
    BY <2>5, <2>7 DEF LiveJobs, SlotHolders, BlockedProcs, InCall, Registered
  <2>9. held = 0 /\ live = 1 /\ blocked = 0
    BY <2>1, <2>8, FS_EmptySet DEF CountersExact
  <2> QED
    BY <2>5, <2>6, <2>9
<1> QED
  BY <1>1, GuardianInvariance, PTL
=============================================================================
