------------------------------ MODULE SpawnJoin ------------------------------
(***************************************************************************)
(* The chan/spawn/join kernels of a compiled program and the deadlock      *)
(* detector behind them: nir_chan_new/send/recv, nir_thread_spawn and      *)
(* nir_thread_join (runtime-kernels/src/lib.rs), the StallTracker          *)
(* (runtime-kernels/src/kernel/mod.rs), and the part of the generated code *)
(* that decides who may call them (codegen.rs, ownership.rs).              *)
(*                                                                         *)
(* A participant is the main thread or one spawned job. What it runs is    *)
(* any sequence of sends and receives (MaxOps in all), any spawns, and a   *)
(* join of every thread handle it still owns before it returns. Every lock *)
(* acquisition and every atomic operation of the kernel is a step of its   *)
(* own, so the steps of the participants interleave as the threads' do.    *)
(***************************************************************************)
EXTENDS Naturals, Sequences, FiniteSets

CONSTANTS
  Threads,      \* what spawn can create; a thread stands for its handle too
  Main,         \* the main thread
  Chans,        \* what nir_chan_new can create
  HandleChans,  \* the channels whose payload type is `thread T`
  Ceilings,     \* what NIRDOSHA_KERNEL_MAX_THREAD may set the thread domain's ceiling to
  MaxOps,       \* bound: sends and receives of the whole program
  Word,         \* a payload that is not a thread handle
  None,         \* nobody, nothing
  Lost          \* the holder of a handle no live binding holds any more

ASSUME ThreadsFinite == IsFiniteSet(Threads)
ASSUME Distinct ==
  /\ Main \notin Threads
  /\ Chans \cap (Threads \cup {Main}) = {}
  /\ {Word, None, Lost} \cap (Threads \cup {Main} \cup Chans) = {}
  /\ Word # None /\ Word # Lost /\ None # Lost
ASSUME Typing == HandleChans \subseteq Chans
ASSUME Bounds == Ceilings \subseteq Nat \ {0} /\ MaxOps \in Nat

Procs == Threads \cup {Main}

VARIABLES
  pc,        \* where each participant is in its kernel call
  arg,       \* the channel or thread that call is about
  ops,       \* bound: sends and receives left to the program
  holder,    \* who holds each thread handle: a participant, a channel, None, Lost
  table,     \* thread_table: the handles with a ThreadHandle entry
  pending,   \* the jobs whose one-job Scope has outstanding = 1
  box,       \* the result_ptr box of each job: "none", "empty", "full"
  open,      \* channel_table: the channels created so far
  queue,     \* the mailbox of each channel
  live,      \* STALL.live
  blocked,   \* STALL.blocked
  registry,  \* waiting_registry: what each blocked participant waits on
  max,       \* the thread domain's ceiling, resolved once (max_for)
  held,      \* the thread domain's admission count
  reported,  \* DEADLOCK_REPORTED
  aborted,   \* the process has been aborted
  escaped    \* history: a handle crossed a channel or was a job's result

stall   == <<live, blocked, registry, reported>>
handles == <<holder, table, pending, box, held, escaped>>
mail    == <<open, queue>>
vars    == <<pc, arg, ops, stall, handles, mail, aborted, max>>

(***************************************************************************)
(* Labels. A participant in Counted is one STALL.live includes once it has *)
(* been started; one in Registered is one STALL.blocked includes.          *)
(***************************************************************************)
SpawnLabels  == {"sp_start", "sp_submit", "sp_insert", "sp_undo_live", "sp_undo_admit"}
WaitLabels   == {"w_reg", "w_count", "waiting", "w_unreg", "w_uncount"}
ReportLabels == {"detected", "reporting", "parked"}
JoinLabels   == {"j_check", "j_finish", "j_read", "j_release"}
Labels == {"unborn", "queued", "run", "trap", "returning", "done"}
            \cup SpawnLabels \cup WaitLabels \cup ReportLabels \cup JoinLabels

Registered == {"waiting", "w_unreg", "w_uncount"} \cup ReportLabels
Owned(p)   == {t \in Threads : holder[t] = p}

\* The process is still running: not aborted, main not returned.
Running == ~aborted /\ pc[Main] # "done"

Goto(p, l)    == pc' = [pc EXCEPT ![p] = l]
At(p, l)      == Running /\ pc[p] = l
Call(p, l, a) == Goto(p, l) /\ arg' = [arg EXCEPT ![p] = a]

Init ==
  /\ pc = [p \in Procs |-> IF p = Main THEN "run" ELSE "unborn"]
  /\ arg = [p \in Procs |-> None]
  /\ ops = MaxOps
  /\ holder = [t \in Threads |-> None]
  /\ table = {} /\ pending = {}
  /\ box = [t \in Threads |-> "none"]
  /\ open = {} /\ queue = [c \in Chans |-> <<>>]
  /\ live = 1 /\ blocked = 0 /\ registry = [p \in Procs |-> None]
  /\ max \in Ceilings
  /\ held = 0 /\ reported = FALSE /\ aborted = FALSE /\ escaped = FALSE

-----------------------------------------------------------------------------
(***************************************************************************)
(* Channels.                                                               *)
(***************************************************************************)
nir_chan_new(p, c) ==
  /\ At(p, "run") /\ c \notin open
  /\ open' = open \cup {c}
  /\ UNCHANGED <<pc, arg, ops, stall, handles, queue, aborted, max>>

SpendOp == ops > 0 /\ ops' = ops - 1

\* What p may send on c: a word, or a handle it owns, which the send moves.
Payloads(p, c) == IF c \in HandleChans THEN Owned(p) ELSE {Word}

\* Mutant: the send copies the handle and leaves the sender's binding usable.
SendWithoutMove(p, c, v) ==
  /\ At(p, "run") /\ c \in open /\ SpendOp
  /\ v \in Payloads(p, c)
  /\ queue' = [queue EXCEPT ![c] = Append(@, v)]
  /\ escaped' = (escaped \/ v \in Threads)
  /\ UNCHANGED <<pc, arg, stall, holder, table, pending, box, held, open, aborted, max>>

\* Under channel_table's lock; the mailbox is unbounded, so it never blocks.
nir_chan_send(p, c, v) ==
  /\ At(p, "run") /\ c \in open /\ SpendOp
  /\ v \in Payloads(p, c)
  /\ queue' = [queue EXCEPT ![c] = Append(@, v)]
  /\ holder' = [t \in Threads |-> IF t = v THEN c ELSE holder[t]]
  /\ escaped' = (escaped \/ v \in Threads)
  /\ UNCHANGED <<pc, arg, stall, table, pending, box, held, open, aborted, max>>

\* A receive takes the oldest message; a handle in it moves to the receiver.
TakeMessage(p, c) ==
  /\ queue[c] # <<>>
  /\ queue' = [queue EXCEPT ![c] = Tail(@)]
  /\ holder' = [t \in Threads |-> IF t = Head(queue[c]) THEN p ELSE holder[t]]

\* rx.try_recv(): a message already there never touches the wait counters.
nir_chan_recv(p, c) ==
  /\ At(p, "run") /\ c \in open /\ SpendOp
  /\ TakeMessage(p, c)
  /\ UNCHANGED <<pc, arg, stall, table, pending, box, held, escaped, open, aborted, max>>

\* The mailbox is empty: wait for a message.
RecvMustWait(p, c) ==
  /\ At(p, "run") /\ c \in open /\ SpendOp
  /\ queue[c] = <<>>
  /\ Call(p, "w_reg", c)
  /\ UNCHANGED <<stall, handles, mail, aborted, max>>

\* mailbox::receive returns: crossbeam hands each message to one receiver.
RecvWake(p) ==
  /\ At(p, "waiting") /\ arg[p] \in Chans
  /\ TakeMessage(p, arg[p])
  /\ Goto(p, "w_unreg")
  /\ UNCHANGED <<arg, ops, stall, table, pending, box, held, escaped, open, aborted, max>>

-----------------------------------------------------------------------------
(***************************************************************************)
(* The stall detector.                                                     *)
(***************************************************************************)
\* concurrency_wait_begin, first lock: name what this call waits on.
WaitRegister(p) ==
  /\ At(p, "w_reg")
  /\ registry' = [registry EXCEPT ![p] = arg[p]]
  /\ Goto(p, "w_count")
  /\ UNCHANGED <<arg, ops, live, blocked, reported, handles, mail, aborted, max>>

\* Mutant: the threshold is checked before this participant is counted.
StallSeenLate == blocked >= live

\* Everybody STALL counts would be blocked once this participant is.
StallSeen == blocked + 1 >= live

register_wait_and_check_stall(p) ==
  /\ At(p, "w_count")
  /\ blocked' = blocked + 1
  /\ Goto(p, IF StallSeen THEN "detected" ELSE "waiting")
  /\ UNCHANGED <<arg, ops, live, registry, reported, handles, mail, aborted, max>>

\* The compare_exchange on DEADLOCK_REPORTED: one winner, losers park.
ClaimReport(p) ==
  /\ At(p, "detected")
  /\ reported' = TRUE
  /\ Goto(p, IF reported THEN "parked" ELSE "reporting")
  /\ UNCHANGED <<arg, ops, live, blocked, registry, handles, mail, aborted, max>>

\* Prints the registry, flushes the flight recorder, aborts the process.
ReportAndAbort(p) ==
  /\ At(p, "reporting")
  /\ aborted' = TRUE
  /\ UNCHANGED <<pc, arg, ops, stall, handles, mail, max>>

\* concurrency_wait_end, its two locks in the order the code takes them.
WaitUnregister(p) ==
  /\ At(p, "w_unreg")
  /\ registry' = [registry EXCEPT ![p] = None]
  /\ Goto(p, "w_uncount")
  /\ UNCHANGED <<arg, ops, live, blocked, reported, handles, mail, aborted, max>>

RecvUncount(p) ==
  /\ At(p, "w_uncount") /\ arg[p] \in Chans
  /\ blocked' = blocked - 1
  /\ Call(p, "run", None)
  /\ UNCHANGED <<ops, live, registry, reported, handles, mail, aborted, max>>

JoinUncount(p) ==
  /\ At(p, "w_uncount") /\ arg[p] \in Threads
  /\ blocked' = blocked - 1
  /\ Goto(p, "j_finish")
  /\ UNCHANGED <<arg, ops, live, registry, reported, handles, mail, aborted, max>>

-----------------------------------------------------------------------------
(***************************************************************************)
(* spawn. kernel::acquire is one step here: module Admission shows that    *)
(* its compare-exchange loop implements this atomic counter.               *)
(***************************************************************************)
nir_thread_spawn(p, t) ==
  /\ At(p, "run") /\ pc[t] = "unborn" /\ box[t] = "none"
  /\ held < max
  /\ held' = held + 1
  /\ box' = [box EXCEPT ![t] = "empty"]
  /\ Call(p, "sp_start", t)
  /\ UNCHANGED <<ops, stall, holder, table, pending, escaped, mail, aborted, max>>

\* Refused at the ceiling, nir_thread_spawn returns -1 and guard_io_ok traps.
SpawnDenied(p, t) ==
  /\ At(p, "run") /\ pc[t] = "unborn" /\ box[t] = "none"
  /\ held >= max
  /\ Goto(p, "trap")
  /\ UNCHANGED <<arg, ops, stall, handles, mail, aborted, max>>

\* concurrency_thread_started, before the job is submitted.
SpawnStarted(p) ==
  /\ At(p, "sp_start")
  /\ live' = live + 1
  /\ Goto(p, "sp_submit")
  /\ UNCHANGED <<arg, ops, blocked, registry, reported, handles, mail, aborted, max>>

\* scope.spawn: the job is handed to the pool, with the handle `given` (or
\* none) moved into it as an argument.
SpawnSubmit(p, given) ==
  LET t == arg[p] IN
  /\ At(p, "sp_submit")
  /\ given \in Owned(p) \cup {None}
  /\ pending' = pending \cup {t}
  /\ holder' = [h \in Threads |-> IF h = given THEN t ELSE holder[h]]
  /\ pc' = [pc EXCEPT ![p] = "sp_insert", ![t] = "queued"]
  /\ UNCHANGED <<arg, ops, stall, table, box, held, escaped, mail, aborted, max>>

\* Mutant: the refusal rolls back the admission but not STALL.live.
SpawnRefusedKeepsLive(p) ==
  /\ At(p, "sp_submit")
  /\ Goto(p, "sp_undo_admit")
  /\ UNCHANGED <<arg, ops, stall, handles, mail, aborted, max>>

\* scope.spawn fails: the OS refused a worker thread, the job never runs.
SpawnRefused(p) ==
  /\ At(p, "sp_submit")
  /\ Goto(p, "sp_undo_live")
  /\ UNCHANGED <<arg, ops, stall, handles, mail, aborted, max>>

SpawnUndoLive(p) ==
  /\ At(p, "sp_undo_live")
  /\ live' = live - 1
  /\ Goto(p, "sp_undo_admit")
  /\ UNCHANGED <<arg, ops, blocked, registry, reported, handles, mail, aborted, max>>

SpawnUndoAdmit(p) ==
  /\ At(p, "sp_undo_admit")
  /\ held' = held - 1
  /\ box' = [box EXCEPT ![arg[p]] = "none"]
  /\ Call(p, "trap", None)
  /\ UNCHANGED <<ops, stall, holder, table, pending, escaped, mail, aborted, max>>

\* thread_table().insert, and the new handle bound in the caller.
SpawnInsert(p) ==
  /\ At(p, "sp_insert")
  /\ table' = table \cup {arg[p]}
  /\ holder' = [holder EXCEPT ![arg[p]] = p]
  /\ Call(p, "run", None)
  /\ UNCHANGED <<ops, stall, pending, box, held, escaped, mail, aborted, max>>

\* guard_io_ok's trap block: dump the flight recorder, abort.
Trap(p) ==
  /\ At(p, "trap")
  /\ aborted' = TRUE
  /\ UNCHANGED <<pc, arg, ops, stall, handles, mail, max>>

-----------------------------------------------------------------------------
(***************************************************************************)
(* The job.                                                                *)
(***************************************************************************)
\* Some worker of the pool takes the job (module ThreadPool).
JobStart(t) ==
  /\ At(t, "queued")
  /\ Goto(t, "run")
  /\ UNCHANGED <<arg, ops, stall, handles, mail, aborted, max>>

\* The spawned function returns and its trampoline stores the result word.
\* emit_affine_free has joined every handle it still owned, save the one
\* handle that may itself be the function's result.
JobReturn(t) ==
  /\ At(t, "run") /\ Cardinality(Owned(t)) <= 1
  /\ box' = [box EXCEPT ![t] = "full"]
  /\ escaped' = (escaped \/ Owned(t) # {})
  /\ Goto(t, "returning")
  /\ UNCHANGED <<arg, ops, stall, holder, table, pending, held, mail, aborted, max>>

\* Mutant: the frees before a return do not join the handles still owned.
MainReturnWithoutJoins ==
  /\ At(Main, "run")
  /\ Goto(Main, "done")
  /\ UNCHANGED <<arg, ops, stall, handles, mail, aborted, max>>

\* main returns, every handle it still owned joined: the process exits.
MainReturn ==
  /\ At(Main, "run") /\ Owned(Main) = {}
  /\ Goto(Main, "done")
  /\ UNCHANGED <<arg, ops, stall, handles, mail, aborted, max>>

\* Mutant: the job itself leaves STALL.live, ahead of its joiner.
ScopeDecrementLeavesLive(t) ==
  /\ At(t, "returning")
  /\ pending' = pending \ {t}
  /\ live' = live - 1
  /\ Goto(t, "done")
  /\ UNCHANGED <<arg, ops, blocked, registry, reported, holder, table, box, held,
                 escaped, mail, aborted, max>>

\* DecrementOnDrop: the scope's count reaches 0 and its joiner is notified.
ScopeDecrement(t) ==
  /\ At(t, "returning")
  /\ pending' = pending \ {t}
  /\ Goto(t, "done")
  /\ UNCHANGED <<arg, ops, stall, holder, table, box, held, escaped, mail, aborted, max>>

-----------------------------------------------------------------------------
(***************************************************************************)
(* join, explicit or the one emit_affine_free inserts.                     *)
(***************************************************************************)
\* thread_table().remove(&id): HandleResolves is why there is always an entry.
nir_thread_join(p, t) ==
  /\ At(p, "run") /\ t \in Owned(p) /\ t \in table
  /\ table' = table \ {t}
  /\ holder' = [holder EXCEPT ![t] = None]
  /\ Call(p, "j_check", t)
  /\ UNCHANGED <<ops, stall, pending, box, held, escaped, mail, aborted, max>>

\* Mutant: wait_end runs for a join that never blocked, too.
AlreadyDoneStillUncounts(p) ==
  /\ At(p, "j_check")
  /\ Goto(p, IF arg[p] \in pending THEN "w_reg" ELSE "w_unreg")
  /\ UNCHANGED <<arg, ops, stall, handles, mail, aborted, max>>

already_done(p) ==
  /\ At(p, "j_check")
  /\ Goto(p, IF arg[p] \in pending THEN "w_reg" ELSE "j_finish")
  /\ UNCHANGED <<arg, ops, stall, handles, mail, aborted, max>>

\* Mutant: one wait on the condition variable, without the loop around it.
JoinWakeUnchecked(p) ==
  /\ At(p, "waiting") /\ arg[p] \in Threads
  /\ Goto(p, "w_unreg")
  /\ UNCHANGED <<arg, ops, stall, handles, mail, aborted, max>>

\* Scope::join returns: outstanding is 0.
JoinWake(p) ==
  /\ At(p, "waiting") /\ arg[p] \in Threads
  /\ arg[p] \notin pending
  /\ Goto(p, "w_unreg")
  /\ UNCHANGED <<arg, ops, stall, handles, mail, aborted, max>>

\* concurrency_thread_finished.
JoinFinish(p) ==
  /\ At(p, "j_finish")
  /\ live' = live - 1
  /\ Goto(p, "j_read")
  /\ UNCHANGED <<arg, ops, blocked, registry, reported, handles, mail, aborted, max>>

\* Reads the result word and frees the box. A result that is itself a handle
\* goes to the caller if it keeps the value, and to nobody in the join that
\* emit_affine_free inserts, which discards it.
JoinRead(p, keep) ==
  LET t == arg[p] IN
  /\ At(p, "j_read")
  /\ box' = [box EXCEPT ![t] = "none"]
  /\ holder' = [h \in Threads |->
                  IF holder[h] = t THEN (IF keep THEN p ELSE Lost) ELSE holder[h]]
  /\ Goto(p, "j_release")
  /\ UNCHANGED <<arg, ops, stall, table, pending, held, escaped, mail, aborted, max>>

JoinRelease(p) ==
  /\ At(p, "j_release")
  /\ held' = held - 1
  /\ Call(p, "run", None)
  /\ UNCHANGED <<ops, stall, holder, table, pending, box, escaped, mail, aborted, max>>

-----------------------------------------------------------------------------
\* What the .nir program decides.
Program(p) ==
  \/ \E c \in Chans : \/ nir_chan_new(p, c)
                      \/ nir_chan_recv(p, c) \/ RecvMustWait(p, c)
                      \/ \E v \in Threads \cup {Word} : nir_chan_send(p, c, v)
  \/ \E t \in Threads : nir_thread_spawn(p, t) \/ SpawnDenied(p, t) \/ nir_thread_join(p, t)
  \/ \E given \in Threads \cup {None} : SpawnSubmit(p, given)
  \/ SpawnRefused(p)
  \/ \E keep \in BOOLEAN : JoinRead(p, keep)

\* What the kernel does by itself once a call is under way.
Kernel(p) ==
  \/ RecvWake(p) \/ WaitRegister(p) \/ register_wait_and_check_stall(p)
  \/ ClaimReport(p) \/ ReportAndAbort(p) \/ WaitUnregister(p) \/ RecvUncount(p) \/ JoinUncount(p)
  \/ SpawnStarted(p) \/ SpawnUndoLive(p) \/ SpawnUndoAdmit(p) \/ SpawnInsert(p)
  \/ Trap(p)
  \/ already_done(p) \/ JoinWake(p) \/ JoinFinish(p) \/ JoinRelease(p)

Job(t) == JobStart(t) \/ JobReturn(t) \/ ScopeDecrement(t)

Next == \/ \E p \in Procs : Program(p) \/ Kernel(p)
        \/ \E t \in Threads : Job(t)
        \/ MainReturn

Spec == Init /\ [][Next]_vars

-----------------------------------------------------------------------------
(***************************************************************************)
(* Properties.                                                             *)
(***************************************************************************)
\* Every variable has its type.
TypeOK ==
  /\ pc \in [Procs -> Labels]
  /\ arg \in [Procs -> Threads \cup Chans \cup {None}]
  /\ ops \in 0..MaxOps
  /\ holder \in [Threads -> Procs \cup Chans \cup {None, Lost}]
  /\ table \subseteq Threads /\ pending \subseteq Threads
  /\ box \in [Threads -> {"none", "empty", "full"}]
  /\ open \subseteq Chans
  /\ queue \in [Chans -> Seq(Threads \cup {Word})]
  /\ live \in Nat /\ blocked \in Nat /\ held \in Nat /\ max \in Ceilings
  /\ registry \in [Procs -> Threads \cup Chans \cup {None}]
  /\ reported \in BOOLEAN /\ aborted \in BOOLEAN /\ escaped \in BOOLEAN

\* Some participant is at one of these labels in a call about t.
InCall(t, labels) == \E p \in Procs : arg[p] = t /\ pc[p] \in labels

\* The jobs STALL.live counts: started, and not yet confirmed by a join.
LiveJobs == {t \in Threads : box[t] # "none"
                             /\ ~InCall(t, {"sp_start", "sp_undo_admit", "j_read"})}
\* The participants STALL.blocked counts.
BlockedProcs == {p \in Procs : pc[p] \in Registered}
\* The threads that hold an admission slot.
SlotHolders == {t \in Threads : box[t] # "none" \/ InCall(t, {"j_release"})}

\* The detector's two counters and the admission count are what they stand
\* for at every instant, between any two lock acquisitions of any calls:
\* one live job per spawn that has been started and not been joined, one
\* blocked participant per registered wait, one slot per thread between its
\* acquire and its release, never more slots than the ceiling.
CountersExact ==
  /\ live = 1 + Cardinality(LiveJobs)
  /\ blocked = Cardinality(BlockedProcs)
  /\ held = Cardinality(SlotHolders)
  /\ held <= max

\* The raw result_ptr: a job's box is allocated for as long as the job may
\* still write through it, and a join reads it only after the job has written
\* (nir_thread_join frees it with nothing but Scope's lock in between).
ResultBoxSafe ==
  /\ \A t \in Threads : pc[t] \notin {"unborn", "done"} => box[t] # "none"
  /\ \A p \in Procs : pc[p] = "j_read" => box[arg[p]] = "full"

\* A handle some binding or mailbox holds is one nobody has joined, so a join
\* always finds its entry: send, spawn and join each move the handle out of
\* the sender, whatever the other participants do with it afterwards.
HandleResolves ==
  /\ \A t \in Threads : holder[t] # None => t \in table
  /\ \A c \in Chans : \A i \in DOMAIN queue[c] :
       queue[c][i] \in Threads => holder[queue[c][i]] = c

\* p, blocked in a join or a receive, could return from it right now.
Unblocked(p) == \/ arg[p] \in Chans /\ queue[arg[p]] # <<>>
                \/ arg[p] \in Threads /\ arg[p] \notin pending

\* p can take a step, now or when a thread of the pool gets to it.
CanMove(p) ==
  /\ pc[p] \notin {"unborn", "done", "parked"}
  /\ pc[p] = "waiting" => Unblocked(p)

\* When register_wait_and_check_stall reports, every participant there is,
\* finished but unjoined jobs and spawns under way included, is registered as
\* blocked, and the ones blocked in a join wait for a job that has not
\* finished: a stall of joins alone is never reported wrongly.
DetectorExactForJoins ==
  [][\A p \in Procs : (pc[p] = "w_count" /\ pc'[p] = "detected") =>
       \A q \in LiveJobs \cup {Main} :
         /\ pc'[q] \in Registered
         /\ arg[q] \in Threads => arg[q] \in pending]_vars

\* No stall goes unseen but the one concurrency_thread_finished documents:
\* the process never sits with no participant able to move, ever, unless a job
\* has finished that nobody has joined.
StallIsDetected ==
  (Running /\ \A p \in Procs : ~CanMove(p)) =>
     \E t \in LiveJobs : pc[t] = "done"

\* A program that neither sends a thread handle over a channel nor returns one
\* from a spawned function leaves nothing behind: when main returns, every job
\* has run to its end and been joined, and every counter is back where it
\* started ("held should always print 0", dump_report).
CleanExit ==
  (pc[Main] = "done" /\ ~escaped) =>
     /\ \A t \in Threads : pc[t] \in {"unborn", "done"} /\ box[t] = "none"
     /\ table = {} /\ pending = {}
     /\ held = 0 /\ live = 1 /\ blocked = 0

\* What the detector's documentation promises of every report: "nothing left
\* in the process could ever run the send/return that would unblock any of
\* them -- a certain, permanent stall, not a heuristic guess".
ReportedStallIsPermanent ==
  \A p \in Procs : pc[p] = "detected" =>
     \A q \in Procs : /\ CanMove(q) => pc[q] \in ReportLabels
                      /\ pc[q] \in ReportLabels => ~Unblocked(q)

\* What the kernel's documentation promises of every well-typed program: "an
\* orphan, never-joined thread is structurally impossible".
NoOrphanThread == pc[Main] = "done" => \A t \in Threads : box[t] = "none"
=============================================================================
