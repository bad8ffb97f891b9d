----------------------------- MODULE ThreadPool -----------------------------
(***************************************************************************)
(* The reused-worker thread pool and its scopes                            *)
(* (runtime-kernels/src/kernel/thread_pool.rs): submit, worker_loop,       *)
(* wait_for_job, Scope::spawn/join and DecrementOnDrop.                    *)
(*                                                                         *)
(* An actor is the main thread or a job. A running actor may submit jobs,  *)
(* each in a scope of its own as nir_thread_spawn does, and may wait for   *)
(* any job that was submitted: for its own children (Scope::join), for a   *)
(* job whose handle it was sent, and for one that alone sends the message  *)
(* it receives. A step is what the code does between two acquisitions of   *)
(* a lock.                                                                 *)
(***************************************************************************)
EXTENDS Naturals, Sequences, FiniteSets

CONSTANTS
  Jobs,        \* the jobs ever submitted, each once
  Main,        \* the thread that submits the first of them
  Workers,     \* OS threads the pool may create, each used once
  None

ASSUME FiniteConstants == IsFiniteSet(Jobs) /\ IsFiniteSet(Workers)
ASSUME DistinctNames   == Main \notin Jobs /\ None \notin Jobs \cup {Main}

Actors == Jobs \cup {Main}

VARIABLES
  queue,         \* PoolState.queue
  idle_count,    \* PoolState.idle_count
  live_workers,  \* live_workers
  worker,        \* where each worker is in worker_loop / wait_for_job
  running,       \* the job each busy worker runs
  actor,         \* where each actor is in its own code
  about,         \* the job an actor is submitting or waiting for
  parent,        \* who submitted each job
  outstanding    \* Scope.outstanding of each job's scope

pool == <<queue, idle_count, live_workers, worker, running>>
vars == <<pool, actor, about, parent, outstanding>>

Parked      == {w \in Workers : worker[w] = "parked"}
\* Between idle_count += 1 and idle_count -= 1.
Idle        == {w \in Workers : worker[w] \in {"parked", "woken", "timed_out"}}
Go(a, l)    == actor' = [actor EXCEPT ![a] = l]
Release(a)  == Go(a, "run") /\ about' = [about EXCEPT ![a] = None]
Move(w, l)  == worker' = [worker EXCEPT ![w] = l]

Init ==
  /\ queue = <<>> /\ idle_count = 0 /\ live_workers = 0
  /\ worker = [w \in Workers |-> "none"]
  /\ running = [w \in Workers |-> None]
  /\ actor = [a \in Actors |-> IF a = Main THEN "run" ELSE "off"]
  /\ about = [a \in Actors |-> None]
  /\ parent = [j \in Jobs |-> None]
  /\ outstanding = [j \in Jobs |-> 0]

-----------------------------------------------------------------------------
(***************************************************************************)
(* Submitting: Scope::spawn around ThreadPool::submit.                     *)
(***************************************************************************)
\* Scope::spawn counts the job before it submits it.
ScopeSpawn(a, j) ==
  /\ actor[a] = "run" /\ actor[j] = "off" /\ parent[j] = None
  /\ parent' = [parent EXCEPT ![j] = a]
  /\ outstanding' = [outstanding EXCEPT ![j] = @ + 1]
  /\ about' = [about EXCEPT ![a] = j]
  /\ Go(a, "submit")
  /\ UNCHANGED pool

\* notify_one wakes one parked worker if there is any, else does nothing.
NotifyOne == IF Parked = {} THEN UNCHANGED worker
                            ELSE \E w \in Parked : Move(w, "woken")

\* submit, an idle worker counted: push_back and notify_one under the lock.
SubmitToIdle(a) ==
  /\ actor[a] = "submit" /\ idle_count > 0
  /\ queue' = Append(queue, about[a])
  /\ NotifyOne
  /\ Release(a)
  /\ UNCHANGED <<idle_count, live_workers, running, parent, outstanding>>

\* Mutant: the pool stops growing once it has a worker, and queues instead.
SubmitQueues(a) ==
  /\ actor[a] = "submit" /\ idle_count = 0
  /\ IF live_workers = 0
     THEN Go(a, "grow") /\ UNCHANGED queue
     ELSE queue' = Append(queue, about[a]) /\ Go(a, "run")
  /\ UNCHANGED <<idle_count, live_workers, worker, running, about, parent, outstanding>>

\* submit, none counted: the lock is dropped before the spawn system call.
SubmitGrows(a) ==
  /\ actor[a] = "submit" /\ idle_count = 0
  /\ Go(a, "grow")
  /\ UNCHANGED <<pool, about, parent, outstanding>>

GrowCount(a) ==
  /\ actor[a] = "grow"
  /\ live_workers' = live_workers + 1
  /\ Go(a, "spawn")
  /\ UNCHANGED <<queue, idle_count, worker, running, about, parent, outstanding>>

\* The new worker starts with the job in hand; it never enters the queue.
GrowSpawned(a, w) ==
  /\ actor[a] = "spawn" /\ worker[w] = "none"
  /\ Move(w, "busy")
  /\ running' = [running EXCEPT ![w] = about[a]]
  /\ actor' = [actor EXCEPT ![a] = "run", ![about[a]] = "run"]
  /\ about' = [about EXCEPT ![a] = None]
  /\ UNCHANGED <<queue, idle_count, live_workers, parent, outstanding>>

\* The OS refuses: the count is rolled back, then the scope's.
GrowRefused(a) ==
  /\ actor[a] = "spawn"
  /\ live_workers' = live_workers - 1
  /\ Go(a, "undo")
  /\ UNCHANGED <<queue, idle_count, worker, running, about, parent, outstanding>>

\* Mutant: the error path frees the scope's count twice (its own rollback, and
\* DecrementOnDrop of the closure that never ran).
ScopeUndoTwice(a) ==
  /\ actor[a] = "undo"
  /\ outstanding' = [outstanding EXCEPT ![about[a]] = @ - 2]
  /\ Release(a)
  /\ UNCHANGED <<pool, parent>>

ScopeUndo(a) ==
  /\ actor[a] = "undo"
  /\ outstanding' = [outstanding EXCEPT ![about[a]] = @ - 1]
  /\ Release(a)
  /\ UNCHANGED <<pool, parent>>

-----------------------------------------------------------------------------
(***************************************************************************)
(* The actor's own code.                                                   *)
(***************************************************************************)
MayWaitFor(a, j) == parent[j] # None /\ j # a

\* A wait for a job that is already over returns at once and is left out.
WaitBegin(a, j) ==
  /\ actor[a] = "run" /\ MayWaitFor(a, j) /\ outstanding[j] > 0
  /\ about' = [about EXCEPT ![a] = j]
  /\ Go(a, "wait")
  /\ UNCHANGED <<pool, parent, outstanding>>

\* Scope::join: `while *count > 0 { cvar.wait }`.
ScopeJoin(a) ==
  /\ actor[a] = "wait" /\ outstanding[about[a]] = 0
  /\ Release(a)
  /\ UNCHANGED <<pool, parent, outstanding>>

\* The job returns or panics (catch_unwind). Every child's scope has been
\* joined: join, the one emit_affine_free adds, or Scope's own Drop.
JobEnd(j) ==
  /\ actor[j] = "run"
  /\ \A k \in Jobs : parent[k] = j => outstanding[k] = 0
  /\ Go(j, "ending")
  /\ UNCHANGED <<pool, about, parent, outstanding>>

\* DecrementOnDrop, on return and on unwind alike.
ScopeDecrement(j) ==
  /\ actor[j] = "ending"
  /\ outstanding' = [outstanding EXCEPT ![j] = @ - 1]
  /\ Go(j, "ended")
  /\ UNCHANGED <<pool, about, parent>>

-----------------------------------------------------------------------------
(***************************************************************************)
(* The worker.                                                             *)
(***************************************************************************)
\* Mutant: front() instead of pop_front().
PeekOrPark(w, idle) ==
  IF queue # <<>>
  THEN /\ idle_count' = idle
       /\ Move(w, "busy")
       /\ running' = [running EXCEPT ![w] = Head(queue)]
       /\ Go(Head(queue), "run")
       /\ UNCHANGED queue
  ELSE /\ idle_count' = idle + 1
       /\ Move(w, "parked")
       /\ running' = [running EXCEPT ![w] = None]
       /\ UNCHANGED <<queue, actor>>

\* Under the lock: pop_front and run the job, or count as idle and park.
\* `idle` is idle_count as this worker finds it, itself not counted.
PopOrPark(w, idle) ==
  IF queue # <<>>
  THEN /\ queue' = Tail(queue)
       /\ idle_count' = idle
       /\ Move(w, "busy")
       /\ running' = [running EXCEPT ![w] = Head(queue)]
       /\ Go(Head(queue), "run")
  ELSE /\ idle_count' = idle + 1
       /\ Move(w, "parked")
       /\ running' = [running EXCEPT ![w] = None]
       /\ UNCHANGED <<queue, actor>>

\* The job is over; wait_for_job takes the lock.
WaitForJob(w) ==
  /\ worker[w] = "busy" /\ actor[running[w]] = "ended"
  /\ PopOrPark(w, idle_count)
  /\ UNCHANGED <<live_workers, about, parent, outstanding>>

\* A condition variable may wake without a notification.
SpuriousWake(w) ==
  /\ worker[w] = "parked"
  /\ Move(w, "woken")
  /\ UNCHANGED <<queue, idle_count, live_workers, running, actor, about, parent, outstanding>>

\* wait_timeout runs out; the worker still has to get the lock back.
IdleTimeout(w) ==
  /\ worker[w] = "parked"
  /\ Move(w, "timed_out")
  /\ UNCHANGED <<queue, idle_count, live_workers, running, actor, about, parent, outstanding>>

\* The lock is back: look at the queue again.
Resume(w) ==
  /\ \/ worker[w] = "woken"
     \/ worker[w] = "timed_out" /\ queue # <<>>
  /\ PopOrPark(w, idle_count - 1)
  /\ UNCHANGED <<live_workers, about, parent, outstanding>>

\* Mutant: a timed-out worker leaves without a second look at the queue.
RetireUnchecked(w) ==
  /\ worker[w] = "timed_out"
  /\ idle_count' = idle_count - 1
  /\ Move(w, "retiring")
  /\ UNCHANGED <<queue, live_workers, running, actor, about, parent, outstanding>>

\* Timed out and nothing queued: wait_for_job returns None.
Retire(w) ==
  /\ worker[w] = "timed_out" /\ queue = <<>>
  /\ idle_count' = idle_count - 1
  /\ Move(w, "retiring")
  /\ UNCHANGED <<queue, live_workers, running, actor, about, parent, outstanding>>

WorkerExit(w) ==
  /\ worker[w] = "retiring"
  /\ live_workers' = live_workers - 1
  /\ Move(w, "gone")
  /\ UNCHANGED <<queue, idle_count, running, actor, about, parent, outstanding>>

-----------------------------------------------------------------------------
ActorStep(a) ==
  \/ \E j \in Jobs : ScopeSpawn(a, j) \/ WaitBegin(a, j)
  \/ SubmitToIdle(a) \/ SubmitGrows(a) \/ GrowCount(a)
  \/ \E w \in Workers : GrowSpawned(a, w)
  \/ GrowRefused(a) \/ ScopeUndo(a) \/ ScopeJoin(a)

JobStep(j) == JobEnd(j) \/ ScopeDecrement(j)

WorkerStep(w) == WaitForJob(w) \/ Resume(w) \/ WorkerExit(w)
Clock(w)      == SpuriousWake(w) \/ IdleTimeout(w) \/ Retire(w)

Next == \/ \E a \in Actors : ActorStep(a)
        \/ \E j \in Jobs : JobStep(j)
        \/ \E w \in Workers : WorkerStep(w) \/ Clock(w)

Spec == Init /\ [][Next]_vars

(***************************************************************************)
(* The operating system runs every thread that can run, and a job that is  *)
(* not waiting comes to its end. Nothing is assumed of what actors choose  *)
(* to submit or to wait for, nor of timeouts and spurious wakeups.         *)
(***************************************************************************)
Progress(a) ==
  \/ SubmitToIdle(a) \/ SubmitGrows(a) \/ GrowCount(a)
  \/ \E w \in Workers : GrowSpawned(a, w)
  \/ ScopeUndo(a) \/ ScopeJoin(a)

FairSpec ==
  /\ Spec
  /\ \A a \in Actors : WF_vars(Progress(a))
  /\ \A j \in Jobs : WF_vars(JobStep(j))
  /\ \A w \in Workers : WF_vars(WorkerStep(w))

-----------------------------------------------------------------------------
(***************************************************************************)
(* Properties.                                                             *)
(***************************************************************************)
ActorLabels  == {"off", "run", "submit", "grow", "spawn", "undo", "wait", "ending", "ended"}
WorkerLabels == {"none", "busy", "parked", "woken", "timed_out", "retiring", "gone"}

\* Every variable has its type.
TypeOK ==
  /\ queue \in Seq(Jobs)
  /\ idle_count \in Nat /\ live_workers \in Nat
  /\ worker \in [Workers -> WorkerLabels]
  /\ running \in [Workers -> Jobs \cup {None}]
  /\ actor \in [Actors -> ActorLabels]
  /\ about \in [Actors -> Jobs \cup {None}]
  /\ parent \in [Jobs -> Actors \cup {None}]
  /\ outstanding \in [Jobs -> Nat]

Queued(j)     == \E i \in DOMAIN queue : queue[i] = j
OnWorker(j)   == \E w \in Workers : worker[w] = "busy" /\ running[w] = j
InHands(j)    == \E a \in Actors : about[a] = j /\ actor[a] \in {"submit", "grow", "spawn", "undo"}

\* No job is lost and none runs twice: a job its scope counts is in exactly
\* one of the queue, a worker and its submitter's hands; a queued job has not
\* started; a scope's count drops to 0 only when its job is over (or was
\* refused), so a join never returns early.
JobsNeitherLostNorDoubled ==
  /\ \A i, k \in DOMAIN queue : queue[i] = queue[k] => i = k
  /\ \A v, w \in Workers : running[v] = running[w] /\ running[v] # None => v = w
  /\ \A j \in Jobs :
       /\ Queued(j) => actor[j] = "off" /\ ~OnWorker(j) /\ ~InHands(j)
       /\ outstanding[j] = 1 => Queued(j) \/ OnWorker(j) \/ InHands(j)
       /\ outstanding[j] = 0 => actor[j] \in {"off", "ended"} /\ ~Queued(j)

\* The wait of a cannot end in this state.
Stuck(a) == actor[a] = "wait" /\ outstanding[about[a]] > 0

\* A queued job with every worker, and every actor, waiting for a job that has
\* not ended: nobody is left to run it.
Starved ==
  /\ queue # <<>>
  /\ \A w \in Workers : worker[w] = "busy" => Stuck(running[w])
  /\ \A w \in Workers : worker[w] \in {"none", "gone", "busy"}
  /\ \A a \in Actors : actor[a] \in {"off", "ended"} \/ Stuck(a)

\* Whoever waits, waits for a job it submitted itself.
WaitsForOwn == \A a \in Actors : actor[a] = "wait" => parent[about[a]] = a

\* Eager growth against self-inflicted deadlock: as long as the waits of the
\* moment are for jobs their waiters submitted themselves, a queued job has a
\* worker that will come to it, whatever was submitted, woken, timed out and
\* waited for before. Without WaitsForOwn it fails: idle_count includes a worker
\* already woken for another job, and the job queued for it starves if that
\* other one waits for it (receives from it, or joins a handle it was sent).
NoSelfInflictedDeadlock == WaitsForOwn => ~Starved

\* A job the pool accepted is run to its end, unless an actor waits for a job
\* of another's in the meantime.
AcceptedJobEnds ==
  \A j \in Jobs : (Queued(j) \/ OnWorker(j)) ~> (actor[j] = "ended" \/ ~WaitsForOwn)
=============================================================================
