------------------------------ MODULE Transact ------------------------------
(***************************************************************************)
(* `transact { precheck? network verify commit compensate? log? }`: the    *)
(* live control flow codegen.rs emits (emit_transact,                      *)
(* emit_call_with_retry), the durability log and the crash replay of       *)
(* runtime-kernels/src/kernel/transact.rs, and the instance lock that      *)
(* is meant to keep two processes off one log (kernel/instance_lock.rs).   *)
(*                                                                         *)
(* A transaction is one execution of a transact block. Several may be in   *)
(* flight in one process (spawned threads); a process may crash between    *)
(* any two steps, a trap in user code included, and be started again.      *)
(* Rows survive a crash: each log write is one fsync'd SQLite statement.   *)
(***************************************************************************)
EXTENDS Naturals, FiniteSets

CONSTANTS
  Txns,           \* executions of transact blocks, each with its own txn_id
  Procs,          \* processes pointed at the same log file
  Sites,          \* transact call sites (site_id)
  Compensable,    \* the sites that have a compensate slot
  Builds,         \* the binaries there are: the sites each one registers. A
                  \* rebuild that renumbers the sites it keeps is left out (the
                  \* gap ADR 0009 discloses)
  MaxAttempts     \* TRANSACT_RETRY_MAX_ATTEMPTS

ASSUME Finite == IsFiniteSet(Txns) /\ IsFiniteSet(Procs)
ASSUME SitesOk == Compensable \subseteq Sites /\ Builds \subseteq SUBSET Sites
ASSUME Attempts == MaxAttempts \in Nat \ {0}

VARIABLES
  phase,     \* of each process: "down", "replaying", "up"
  build,     \* the sites the process has registered trampolines for
  hold,      \* the SQLite lock each process holds on the lock file
  lockTable, \* the lock file has its table, from this or an earlier process
  todo,      \* the rows nir_transact_replay_all has still to look at
  exec,      \* what each process is doing for each transaction
  site,      \* the site of each transaction (the row's site_id)
  verdict,   \* what `verify` returned for each transaction
  row,       \* the state column of the transaction's row; "none": no row
  net,       \* the transactions whose `network` was called
  tried,     \* history: the slots called at least once
  done,      \* history: the slots that have returned success
  badlog     \* history: the transactions for which a log write failed

process == <<phase, build, hold, lockTable, todo>>
vars    == <<process, exec, site, verdict, row, net, tried, done, badlog>>

Terminal == {"committed", "compensated", "stuck"}
Pending  == {"commit_pending", "compensate_pending"}

Idle == [at |-> "idle", slot |-> "none", tries |-> 0]
Busy(p, t) == exec[p][t] # Idle
At(p, t, l) == exec[p][t].at = l
Go(p, t, l) == exec' = [exec EXCEPT ![p][t].at = l]
Finish(p, t) == exec' = [exec EXCEPT ![p][t] = Idle]
\* emit_call_with_retry is entered for one slot.
Enter(p, t, s) == exec' = [exec EXCEPT ![p][t] = [at |-> "call", slot |-> s, tries |-> 0]]

Init ==
  /\ phase = [p \in Procs |-> "down"] /\ build = [p \in Procs |-> {}]
  /\ hold = [p \in Procs |-> "none"] /\ lockTable = FALSE
  /\ todo = [p \in Procs |-> {}]
  /\ exec = [p \in Procs |-> [t \in Txns |-> Idle]]
  /\ site = [t \in Txns |-> "none"] /\ verdict = [t \in Txns |-> "none"]
  /\ row = [t \in Txns |-> "none"]
  /\ net = {} /\ badlog = {}
  /\ tried = [t \in Txns |-> {}] /\ done = [t \in Txns |-> {}]

\* A log write: it succeeds, or it fails and returns a status that the
\* generated code drops. An UPDATE of a missing row changes nothing.
Write(t, s) == \/ row' = [row EXCEPT ![t] = s] /\ UNCHANGED badlog
               \/ badlog' = badlog \cup {t} /\ UNCHANGED row
Update(t, s) == Write(t, IF row[t] = "none" THEN "none" ELSE s)

-----------------------------------------------------------------------------
(***************************************************************************)
(* The process: main's prologue, and its end.                              *)
(***************************************************************************)
\* InstanceLock::acquire. In SQLite's EXCLUSIVE locking mode a connection
\* keeps the locks it takes; CREATE TABLE IF NOT EXISTS takes the exclusive
\* one when it creates the table, and only reads the schema, under a shared
\* lock, when the table is there.
Acquire(p) ==
  /\ \A q \in Procs : hold[q] # "exclusive"
  /\ ~lockTable => \A q \in Procs : hold[q] = "none"
  /\ hold' = [hold EXCEPT ![p] = IF lockTable THEN "shared" ELSE "exclusive"]
  /\ lockTable' = TRUE

\* Mutant: rows waiting for their compensation are not looked for.
ScanCommitsOnly == {<<t, "commit">> : t \in {u \in Txns : row[u] = "commit_pending"}}

\* The rows replay looks at, each with the slot its state asks for.
scan_pending_rows ==
  {<<t, IF row[t] = "commit_pending" THEN "commit" ELSE "compensate">> :
     t \in {u \in Txns : row[u] \in Pending}}

\* nir_transact_log_init (when the lock is refused the program aborts), every
\* site registered, replay_all's scan; a scan that fails finds no row.
Start(p, b, rows) ==
  /\ phase[p] = "down"
  /\ Acquire(p)
  /\ phase' = [phase EXCEPT ![p] = "replaying"]
  /\ build' = [build EXCEPT ![p] = b]
  /\ todo' = [todo EXCEPT ![p] = rows]
  /\ UNCHANGED <<exec, site, verdict, row, net, tried, done, badlog>>

\* replay_all goes through the scanned rows one by one.
NextRow(p, t, s) ==
  /\ phase[p] = "replaying" /\ <<t, s>> \in todo[p]
  /\ \A u \in Txns : ~Busy(p, u)
  /\ todo' = [todo EXCEPT ![p] = @ \ {<<t, s>>}]

\* Mutant: the trampoline is told the wrong `is_commit`.
ReplayRowSwapped(p, t, s) ==
  /\ NextRow(p, t, s) /\ site[t] \in build[p]
  /\ Enter(p, t, IF s = "commit" THEN "compensate" ELSE "commit")
  /\ UNCHANGED <<phase, build, hold, lockTable, site, verdict, row, net, tried, done, badlog>>

\* The row's site has a trampoline, which is called.
ReplayRow(p, t, s) ==
  /\ NextRow(p, t, s) /\ site[t] \in build[p]
  /\ Enter(p, t, s)
  /\ UNCHANGED <<phase, build, hold, lockTable, site, verdict, row, net, tried, done, badlog>>

\* A rebuild removed the row's site.
ReplayUnknown(p, t, s) ==
  /\ NextRow(p, t, s) /\ site[t] \notin build[p]
  /\ Update(t, "stuck")
  /\ UNCHANGED <<phase, build, hold, lockTable, exec, site, verdict, net, tried, done>>

\* The scan is through: nir_main runs.
ReplayDone(p) ==
  /\ phase[p] = "replaying" /\ todo[p] = {}
  /\ \A t \in Txns : ~Busy(p, t)
  /\ phase' = [phase EXCEPT ![p] = "up"]
  /\ UNCHANGED <<build, hold, lockTable, todo, exec, site, verdict, row, net, tried, done, badlog>>

\* The process ends, by an abort, a kill or a normal exit, wherever its
\* threads are; closing the lock file's connection frees its lock.
Crash(p) ==
  /\ phase[p] # "down"
  /\ phase' = [phase EXCEPT ![p] = "down"]
  /\ build' = [build EXCEPT ![p] = {}]
  /\ todo' = [todo EXCEPT ![p] = {}]
  /\ hold' = [hold EXCEPT ![p] = "none"]
  /\ exec' = [exec EXCEPT ![p] = [t \in Txns |-> Idle]]
  /\ UNCHANGED <<lockTable, site, verdict, row, net, tried, done, badlog>>

-----------------------------------------------------------------------------
(***************************************************************************)
(* The live transact block. One whose precheck refuses leaves no trace in  *)
(* any variable: it is a stuttering step.                                  *)
(***************************************************************************)
\* txn_id is fresh; precheck passes (or there is none); `network` is called.
Network(p, t, s) ==
  /\ phase[p] = "up" /\ t \notin net /\ s \in build[p]
  /\ Go(p, t, "verify")
  /\ site' = [site EXCEPT ![t] = s]
  /\ net' = net \cup {t}
  /\ UNCHANGED <<process, verdict, row, tried, done, badlog>>

Verify(p, t, v) ==
  /\ At(p, t, "verify")
  /\ verdict' = [verdict EXCEPT ![t] = v]
  /\ Go(p, t, "begin")
  /\ UNCHANGED <<process, site, row, net, tried, done, badlog>>

nir_transact_begin(p, t) ==
  /\ At(p, t, "begin")
  /\ Write(t, "pending")
  /\ Go(p, t, "branch")
  /\ UNCHANGED <<process, site, verdict, net, tried, done>>

\* Mutant: the slot is called before the row says so.
CommitUnlogged(p, t) ==
  /\ At(p, t, "branch") /\ verdict[t] = "true"
  /\ Enter(p, t, "commit")
  /\ UNCHANGED <<process, site, verdict, row, net, tried, done, badlog>>

\* verify was true: the arguments are logged before the first attempt.
mark_commit_pending(p, t) ==
  /\ At(p, t, "branch") /\ verdict[t] = "true"
  /\ Update(t, "commit_pending")
  /\ Enter(p, t, "commit")
  /\ UNCHANGED <<process, site, verdict, net, tried, done>>

mark_compensate_pending(p, t) ==
  /\ At(p, t, "branch") /\ verdict[t] = "false" /\ site[t] \in Compensable
  /\ Update(t, "compensate_pending")
  /\ Enter(p, t, "compensate")
  /\ UNCHANGED <<process, site, verdict, net, tried, done>>

\* verify was false and there is no compensate slot: the block is over.
NothingToCompensate(p, t) ==
  /\ At(p, t, "branch") /\ verdict[t] = "false" /\ site[t] \notin Compensable
  /\ Finish(p, t)
  /\ UNCHANGED <<process, site, verdict, row, net, tried, done, badlog>>

-----------------------------------------------------------------------------
(***************************************************************************)
(* emit_call_with_retry, the same for a live block and for a replay.       *)
(***************************************************************************)
\* Mutant: the loop's bound is inclusive.
AttemptOneMore(p, t) ==
  /\ At(p, t, "call") /\ exec[p][t].tries <= MaxAttempts
  /\ tried' = [tried EXCEPT ![t] = @ \cup {exec[p][t].slot}]
  /\ Go(p, t, "calling")
  /\ UNCHANGED <<process, site, verdict, row, net, done, badlog>>

Attempt(p, t) ==
  /\ At(p, t, "call") /\ exec[p][t].tries < MaxAttempts
  /\ tried' = [tried EXCEPT ![t] = @ \cup {exec[p][t].slot}]
  /\ Go(p, t, "calling")
  /\ UNCHANGED <<process, site, verdict, row, net, done, badlog>>

\* Ok, or a return type that is not a Result.
AttemptOk(p, t) ==
  /\ At(p, t, "calling")
  /\ done' = [done EXCEPT ![t] = @ \cup {exec[p][t].slot}]
  /\ Go(p, t, "mark")
  /\ UNCHANGED <<process, site, verdict, row, net, tried, badlog>>

\* Mutant: a failed attempt logs the slot as pending again.
AttemptErrRelogs(p, t) ==
  /\ At(p, t, "calling")
  /\ row' = [row EXCEPT ![t] =
               IF exec[p][t].slot = "commit" THEN "commit_pending" ELSE "compensate_pending"]
  /\ exec' = [exec EXCEPT ![p][t] = [at |-> "call", slot |-> @.slot, tries |-> @.tries + 1]]
  /\ UNCHANGED <<process, site, verdict, net, tried, done, badlog>>

\* Err: back off and go round again.
AttemptErr(p, t) ==
  /\ At(p, t, "calling")
  /\ exec' = [exec EXCEPT ![p][t] = [at |-> "call", slot |-> @.slot, tries |-> @.tries + 1]]
  /\ UNCHANGED <<process, site, verdict, row, net, tried, done, badlog>>

\* Mutant: the loop's result is not looked at.
ExhaustedMarks(p, t) ==
  /\ At(p, t, "call") /\ exec[p][t].tries = MaxAttempts
  /\ Go(p, t, "mark")
  /\ UNCHANGED <<process, site, verdict, row, net, tried, done, badlog>>

\* Every attempt failed: the row stays pending for the next start.
Exhausted(p, t) ==
  /\ At(p, t, "call") /\ exec[p][t].tries = MaxAttempts
  /\ Finish(p, t)
  /\ UNCHANGED <<process, site, verdict, row, net, tried, done, badlog>>

\* mark_committed / mark_compensated, from the block or from replay_all. The
\* `log` slot, whatever it does, comes after.
MarkDone(p, t) ==
  /\ At(p, t, "mark")
  /\ Update(t, IF exec[p][t].slot = "commit" THEN "committed" ELSE "compensated")
  /\ Finish(p, t)
  /\ UNCHANGED <<process, site, verdict, net, tried, done>>

-----------------------------------------------------------------------------
Slots    == {"commit", "compensate"}
Verdicts == {"true", "false"}

Replay(p) == \E t \in Txns, s \in Slots : ReplayRow(p, t, s) \/ ReplayUnknown(p, t, s)

Run(p, t) ==
  \/ \E v \in Verdicts : Verify(p, t, v)
  \/ nir_transact_begin(p, t)
  \/ mark_commit_pending(p, t) \/ mark_compensate_pending(p, t) \/ NothingToCompensate(p, t)
  \/ Attempt(p, t) \/ AttemptOk(p, t) \/ AttemptErr(p, t) \/ Exhausted(p, t) \/ MarkDone(p, t)

Next ==
  \E p \in Procs :
    \/ \E b \in Builds, rows \in {scan_pending_rows, {}} : Start(p, b, rows)
    \/ Replay(p) \/ ReplayDone(p) \/ Crash(p)
    \/ \E t \in Txns : Run(p, t) \/ \E s \in Sites : Network(p, t, s)

Spec == Init /\ [][Next]_vars

(***************************************************************************)
(* A running process makes progress. Whoever operates the program keeps    *)
(* ending and starting it, and from some time on lets a start get through  *)
(* its replay; the scan, the slots and the log writes that are tried again *)
(* and again succeed again and again, in one process or another.           *)
(***************************************************************************)
Recorded(p, t) ==
  /\ MarkDone(p, t) \/ \E s \in Slots : ReplayUnknown(p, t, s)
  /\ row'[t] \in Terminal
FairSpec ==
  /\ Spec
  /\ \A p \in Procs : /\ WF_vars(Replay(p)) /\ WF_vars(ReplayDone(p))
                      /\ \A t \in Txns : WF_vars(Run(p, t))
                      /\ WF_vars(phase[p] = "up" /\ Crash(p))
  /\ <>[][\A p \in Procs : ~(phase[p] = "replaying" /\ Crash(p))]_vars
  /\ SF_vars(\E p \in Procs, b \in Builds : Start(p, b, scan_pending_rows))
  /\ \A t \in Txns : /\ SF_vars(\E p \in Procs : AttemptOk(p, t))
                     /\ SF_vars(\E p \in Procs : Recorded(p, t))

-----------------------------------------------------------------------------
(***************************************************************************)
(* Properties.                                                             *)
(***************************************************************************)
\* Every variable has its type, the retry counter its bound.
TypeOK ==
  /\ phase \in [Procs -> {"down", "replaying", "up"}]
  /\ build \in [Procs -> SUBSET Sites]
  /\ hold \in [Procs -> {"none", "shared", "exclusive"}] /\ lockTable \in BOOLEAN
  /\ todo \in [Procs -> SUBSET (Txns \X Slots)]
  /\ exec \in [Procs -> [Txns ->
       [at    : {"idle", "verify", "begin", "branch", "call", "calling", "mark"},
        slot  : Slots \cup {"none"},
        tries : 0..MaxAttempts]]]
  /\ site \in [Txns -> Sites \cup {"none"}]
  /\ verdict \in [Txns -> Verdicts \cup {"none"}]
  /\ row \in [Txns -> {"none", "pending"} \cup Pending \cup Terminal]
  /\ net \subseteq Txns /\ badlog \subseteq Txns
  /\ tried \in [Txns -> SUBSET Slots] /\ done \in [Txns -> SUBSET Slots]

\* What verify decided is what happens, across any number of crashes, replays
\* and processes: a transaction never both commits and compensates, and
\* neither slot is called before `network` was called and judged.
OneOutcome ==
  \A t \in Txns : /\ "commit" \in tried[t] => verdict[t] = "true"
                  /\ "compensate" \in tried[t] => verdict[t] = "false"

\* A row that says committed (compensated) is right: commit (compensate) has
\* returned success, in this process or in an earlier one.
TerminalRowIsTrue ==
  \A t \in Txns : /\ row[t] = "committed" => "commit" \in done[t]
                  /\ row[t] = "compensated" => "compensate" \in done[t]

\* From the first attempt of a slot on, the log knows: wherever the process
\* dies, in the retry loop or between a success and its mark, the row names
\* that slot, as pending, as finished, or as stuck for an unknown site.
DecisionSurvives ==
  \A t \in Txns \ badlog :
    /\ "commit" \in tried[t] => row[t] \in {"commit_pending", "committed", "stuck"}
    /\ "compensate" \in tried[t] => row[t] \in {"compensate_pending", "compensated", "stuck"}

\* No late mark, no second process and no replay reopens a finished row, or
\* turns a committed one into a compensated one or back.
FinishedStaysFinished ==
  [][\A t \in Txns : row[t] \in Terminal =>
       /\ row'[t] \in Terminal
       /\ {row[t], row'[t]} # {"committed", "compensated"}]_vars

\* Nothing stays pending for ever as long as the program is started again.
PendingIsFinished == \A t \in Txns : row[t] \in Pending ~> row[t] \in Terminal

\* The point of the instance lock, "a second process accidentally pointed at
\* the exact same log file fails fast at startup": no transaction is being
\* executed by two processes, live in one and replayed by the other.
OneExecutor == \A t \in Txns, p, q \in Procs : Busy(p, t) /\ Busy(q, t) => p = q

\* What docs/TRANSACT.md names as the one thing that must survive a crash,
\* "did `network` already run for this `transact`": once `network` has been
\* called and nobody is executing the transaction any more, it has a row.
NetworkIsRemembered ==
  \A t \in net \ badlog : (\A p \in Procs : ~Busy(p, t)) => row[t] # "none"
=============================================================================
