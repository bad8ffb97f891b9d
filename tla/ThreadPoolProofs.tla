-------------------------- MODULE ThreadPoolProofs --------------------------
(***************************************************************************)
(* Proofs about ThreadPool, for every set of jobs and of workers.          *)
(*                                                                         *)
(* JobsNeitherLostNorDoubled rests on what each actor, job and worker      *)
(* knows of the others (Held, Waits, Counted, Runs). NoSelfInflicted-      *)
(* Deadlock rests on two facts more. A queued job is covered: some worker  *)
(* is idle, or is busy with a job none of whose descendants is queued, for *)
(* a job is queued only past an idle worker, and the worker that leaves    *)
(* the idle set does so with a job that has submitted nothing yet. And     *)
(* submission has no cycle, so a chain of waits for children ends. Both    *)
(* hold whatever actors wait for.                                          *)
(***************************************************************************)
EXTENDS ThreadPool, FiniteSetTheorems, TLAPS

Holding  == {"submit", "grow", "spawn", "undo"}
Alive    == {w \in Workers : worker[w] \in {"busy", "parked", "woken", "timed_out", "retiring"}}
Spawning == {a \in Actors : actor[a] = "spawn"}

\* A job in its submitter's hands has been counted and not yet started.
Held(a) ==
  actor[a] \in Holding =>
    /\ about[a] \in Jobs /\ parent[about[a]] = a
    /\ actor[about[a]] = "off" /\ outstanding[about[a]] = 1
    /\ ~Queued(about[a])

Waits(a) ==
  actor[a] = "wait" => about[a] \in Jobs

\* The count of a job's scope against where the job is.
Counted(j) ==
  /\ outstanding[j] \in {0, 1}
  /\ parent[j] = None => actor[j] = "off" /\ outstanding[j] = 0
  /\ actor[j] = "off" => \A k \in Jobs : parent[k] # j
  /\ actor[j] = "ended" => outstanding[j] = 0
  /\ Queued(j) => actor[j] = "off" /\ outstanding[j] = 1
  /\ outstanding[j] = 0 => actor[j] \in {"off", "ended"}
  /\ outstanding[j] = 1 => Queued(j) \/ OnWorker(j) \/ InHands(j)

Runs(w) == IF worker[w] = "busy" THEN running[w] \in Jobs /\ actor[running[w]] # "off"
                                 ELSE running[w] = None

DistinctQueue == \A i, k \in DOMAIN queue : queue[i] = queue[k] => i = k
OneWorkerEach == \A v, w \in Workers : running[v] = running[w] /\ running[v] # None => v = w

IdleExact == idle_count = Cardinality(Idle)
LiveExact == live_workers = Cardinality(Alive) + Cardinality(Spawning)

\* S holds j and the descendants of its members, and none of it is queued.
Apart(j, S) ==
  /\ S \subseteq Jobs /\ j \in S
  /\ \A k \in Jobs : parent[k] \in S => k \in S
  /\ \A k \in S : ~Queued(k)

Covered ==
  queue # <<>> =>
    \E w \in Workers :
      \/ w \in Idle
      \/ worker[w] = "busy" /\ \E S \in SUBSET Jobs : Apart(running[w], S)

\* Every set of jobs has one that submitted none of the others.
NoCycle == \A T \in SUBSET Jobs : T # {} => \E j \in T : \A k \in T : parent[k] # j

PoolShape ==
  /\ queue \in Seq(Jobs)
  /\ worker \in [Workers -> WorkerLabels]
  /\ running \in [Workers -> Jobs \cup {None}]
  /\ actor \in [Actors -> ActorLabels]
  /\ about \in [Actors -> Jobs \cup {None}]
  /\ parent \in [Jobs -> Actors \cup {None}]
  /\ outstanding \in [Jobs -> Nat]

Places == /\ PoolShape
          /\ \A a \in Actors : Held(a) /\ Waits(a)
          /\ \A j \in Jobs : Counted(j)
          /\ \A w \in Workers : Runs(w)
          /\ DistinctQueue /\ OneWorkerEach

PoolInv == Places /\ IdleExact /\ LiveExact /\ Covered /\ NoCycle

-----------------------------------------------------------------------------
(***************************************************************************)
(* What the queue operations do to the set of queued jobs.                 *)
(***************************************************************************)
\* push_back adds one job, and keeps the queue free of duplicates when the
\* job was not in it.
LEMMA PushBack ==
  ASSUME queue \in Seq(Jobs), NEW j \in Jobs, queue' = Append(queue, j)
  PROVE  /\ queue' \in Seq(Jobs) /\ queue' # <<>>
         /\ \A k \in Jobs : Queued(k)' <=> Queued(k) \/ k = j
         /\ DistinctQueue /\ ~Queued(j) => DistinctQueue'
<1>1. /\ queue' \in Seq(Jobs) /\ Len(queue') = Len(queue) + 1
      /\ \A i \in 1..Len(queue) : queue'[i] = queue[i]
      /\ queue'[Len(queue) + 1] = j
      /\ DOMAIN queue = 1..Len(queue) /\ DOMAIN queue' = 1..(Len(queue) + 1)
      /\ Len(queue) \in Nat
  OBVIOUS
<1>2. \A k \in Jobs : Queued(k)' <=> Queued(k) \/ k = j
  BY <1>1 DEF Queued
<1>3. DistinctQueue /\ ~Queued(j) => DistinctQueue'
  BY <1>1 DEF Queued, DistinctQueue
<1> QED
  BY <1>1, <1>2, <1>3

\* pop_front takes the head out of a queue without duplicates.
LEMMA PopFront ==
  ASSUME queue \in Seq(Jobs), queue # <<>>, DistinctQueue, queue' = Tail(queue)
  PROVE  /\ queue' \in Seq(Jobs) /\ Head(queue) \in Jobs /\ Queued(Head(queue))
         /\ \A k \in Jobs : Queued(k)' <=> Queued(k) /\ k # Head(queue)
         /\ DistinctQueue'
<1>1. /\ queue' \in Seq(Jobs) /\ Len(queue) \in Nat \ {0} /\ Len(queue') = Len(queue) - 1
      /\ \A i \in 1..(Len(queue) - 1) : queue'[i] = queue[i + 1]
      /\ Head(queue) = queue[1] /\ Head(queue) \in Jobs
      /\ DOMAIN queue = 1..Len(queue) /\ DOMAIN queue' = 1..(Len(queue) - 1)
  OBVIOUS
<1>2. Queued(Head(queue))
  BY <1>1 DEF Queued
<1>3. ASSUME NEW k \in Jobs PROVE Queued(k)' <=> Queued(k) /\ k # Head(queue)
  <2>1. Queued(k)' => Queued(k) /\ k # Head(queue)
    <3>1. ASSUME NEW i \in DOMAIN queue', queue'[i] = k PROVE Queued(k) /\ k # Head(queue)
      <4>1. i + 1 \in DOMAIN queue /\ 1 \in DOMAIN queue /\ queue[i + 1] = k /\ i + 1 # 1
        BY <1>1, <3>1
      <4> QED
        BY <1>1, <4>1 DEF Queued, DistinctQueue
    <3> QED
      BY <3>1 DEF Queued
  <2>2. ASSUME NEW i \in DOMAIN queue, queue[i] = k, k # Head(queue) PROVE Queued(k)'
    <3>1. i - 1 \in DOMAIN queue' /\ queue'[i - 1] = k
      BY <1>1, <2>2
    <3> QED
      BY <3>1 DEF Queued
  <2> QED
    BY <2>1, <2>2 DEF Queued
<1>4. DistinctQueue'
  BY <1>1 DEF DistinctQueue
<1> QED
  BY <1>1, <1>2, <1>3, <1>4

\* A queue left alone holds the same jobs.
LEMMA QueueAlone ==
  ASSUME UNCHANGED queue
  PROVE  /\ \A k \in Jobs : Queued(k)' <=> Queued(k)
         /\ DistinctQueue' <=> DistinctQueue
  BY DEF Queued, DistinctQueue

-----------------------------------------------------------------------------
(***************************************************************************)
(* Every job is where its scope's count says.                              *)
(***************************************************************************)
LEMMA InitPlaces == Init => Places
<1> SUFFICES ASSUME Init PROVE Places
  OBVIOUS
<1>1. \A j \in Jobs : ~Queued(j)
  BY DEF Init, Queued
<1>2. PoolShape /\ DistinctQueue /\ OneWorkerEach
  BY DistinctNames DEF Init, PoolShape, Actors, ActorLabels, WorkerLabels, DistinctQueue, OneWorkerEach
<1>3. /\ \A a \in Actors : Held(a) /\ Waits(a)
      /\ \A w \in Workers : Runs(w)
  BY DEF Init, Held, Waits, Runs, Holding
<1>4. \A j \in Jobs : Counted(j)
  BY <1>1, DistinctNames DEF Init, Counted, Actors
<1> QED
  BY <1>2, <1>3, <1>4 DEF Places

\* Scope::spawn.
LEMMA ScopeSpawnPlaces ==
  ASSUME Places, NEW a \in Actors, NEW j \in Jobs, ScopeSpawn(a, j) PROVE Places'
<1> USE DEF Places, ScopeSpawn, Go, pool
<1>1. PoolShape'
  BY DEF PoolShape, Actors, ActorLabels
<1>2. /\ \A k \in Jobs : Queued(k)' <=> Queued(k)
      /\ \A k \in Jobs : OnWorker(k)' <=> OnWorker(k)
      /\ DistinctQueue' /\ OneWorkerEach'
  BY QueueAlone DEF OnWorker, OneWorkerEach
<1>3. /\ j # a /\ ~Queued(j) /\ ~InHands(j) /\ outstanding[j] = 0
      /\ \A k \in Jobs : parent[k] # j
  BY DEF Counted, InHands, Held, Holding
<1>4. \A b \in Actors : Held(b)' /\ Waits(b)'
  BY <1>2, <1>3, DistinctNames DEF PoolShape, Held, Waits, Holding, Actors, InHands, Counted
<1>5. \A k \in Jobs : Counted(k)'
  BY <1>2, <1>3, DistinctNames, SMTT(30) DEF PoolShape, Counted, Actors, InHands, Held, Holding
<1>6. \A w \in Workers : Runs(w)'
  BY DEF Runs, PoolShape, Actors
<1> QED
  BY <1>1, <1>2, <1>4, <1>5, <1>6

\* submit past an idle worker.
LEMMA SubmitToIdlePlaces ==
  ASSUME Places, NEW a \in Actors, SubmitToIdle(a) PROVE Places'
<1> USE DEF Places, SubmitToIdle, Go, Release
<1>1. /\ about[a] \in Jobs /\ parent[about[a]] = a /\ actor[about[a]] = "off"
      /\ outstanding[about[a]] = 1 /\ ~Queued(about[a])
  BY DEF Held, Holding
<1>2. /\ queue' \in Seq(Jobs) /\ DistinctQueue'
      /\ \A k \in Jobs : Queued(k)' <=> Queued(k) \/ k = about[a]
  BY <1>1, PushBack DEF PoolShape
<1>3. /\ worker' \in [Workers -> WorkerLabels]
      /\ \A w \in Workers : worker'[w] = "busy" <=> worker[w] = "busy"
  BY DEF NotifyOne, Parked, Move, PoolShape, WorkerLabels
<1>4. PoolShape'
  BY <1>2, <1>3 DEF PoolShape, ActorLabels
<1>5. \A k \in Jobs : OnWorker(k)' <=> OnWorker(k)
  BY <1>3 DEF OnWorker
<1>6. \A b \in Actors : Held(b)' /\ Waits(b)'
  BY <1>1, <1>2, DistinctNames DEF PoolShape, Held, Waits, Holding, Actors
<1>7. \A k \in Jobs : Counted(k)'
  BY <1>1, <1>2, <1>5, DistinctNames DEF PoolShape, Counted, Actors, InHands, Held, Holding
<1>8. \A w \in Workers : Runs(w)'
  BY <1>3 DEF Runs, PoolShape, Actors
<1> QED
  BY <1>2, <1>4, <1>6, <1>7, <1>8 DEF OneWorkerEach

\* An actor that goes from one label to another, with nothing else changed but
\* live_workers.
ActorMoves(a, from, to) ==
  /\ actor[a] \in from /\ Go(a, to)
  /\ UNCHANGED <<queue, idle_count, worker, running, about, parent, outstanding>>

\* Growing keeps the job in hand.
LEMMA GrowPlaces ==
  ASSUME Places, NEW a \in Actors,
         NEW to \in Holding, ActorMoves(a, Holding, to)
  PROVE  Places'
<1> USE DEF Places, ActorMoves, Go
<1>1. PoolShape'
  BY DEF PoolShape, ActorLabels, Holding
<1>2. /\ \A k \in Jobs : Queued(k)' <=> Queued(k)
      /\ \A k \in Jobs : OnWorker(k)' <=> OnWorker(k)
      /\ DistinctQueue' /\ OneWorkerEach'
  BY QueueAlone DEF OnWorker, OneWorkerEach
<1>3. \A k \in Jobs : InHands(k)' <=> InHands(k)
  BY DEF InHands, PoolShape, Holding
<1>4. \A b \in Actors : Held(b)' /\ Waits(b)'
  BY <1>2, DistinctNames DEF PoolShape, Held, Waits, Holding, Actors
<1>5. \A k \in Jobs : Counted(k)'
  BY <1>2, <1>3, DistinctNames DEF PoolShape, Counted, Actors, Holding
<1>6. \A w \in Workers : Runs(w)'
  BY DEF Runs, PoolShape, Actors, Holding
<1> QED
  BY <1>1, <1>2, <1>4, <1>5, <1>6

\* The new worker starts with the job.
LEMMA GrowSpawnedPlaces ==
  ASSUME Places, NEW a \in Actors, NEW w \in Workers, GrowSpawned(a, w) PROVE Places'
<1> USE DEF Places, GrowSpawned, Move
<1>1. /\ about[a] \in Jobs /\ parent[about[a]] = a /\ actor[about[a]] = "off"
      /\ outstanding[about[a]] = 1 /\ ~Queued(about[a]) /\ about[a] # a
      /\ about[a] \in Actors
  BY DEF Held, Holding, Actors
<1>2. PoolShape'
  BY <1>1 DEF PoolShape, ActorLabels, WorkerLabels
<1>3. /\ \A k \in Jobs : Queued(k)' <=> Queued(k)
      /\ DistinctQueue'
  BY QueueAlone
<1>4. \A v \in Workers : running[v] # about[a]
  BY <1>1, DistinctNames DEF Runs, PoolShape
<1>5. /\ OneWorkerEach'
      /\ \A v \in Workers : Runs(v)'
  <2>1. /\ running'[w] = about[a] /\ worker'[w] = "busy" /\ actor'[about[a]] = "run"
        /\ \A v \in Workers \ {w} : running'[v] = running[v] /\ worker'[v] = worker[v]
        /\ \A k \in Jobs : actor'[k] = "off" => actor[k] = "off"
    BY <1>1 DEF PoolShape, Actors
  <2>2. OneWorkerEach'
    BY <1>4, <2>1 DEF OneWorkerEach
  <2>3. ASSUME NEW v \in Workers PROVE Runs(v)'
    <3>1. CASE v = w
      BY <1>1, <2>1, <3>1 DEF Runs
    <3>2. CASE v # w
      <4>1. running'[v] = running[v] /\ worker'[v] = worker[v] /\ Runs(v)
        BY <2>1, <3>2
      <4> QED
        BY <2>1, <4>1 DEF Runs
    <3> QED
      BY <3>1, <3>2
  <2> QED
    BY <2>2, <2>3
<1>6. \A k \in Jobs : OnWorker(k)' <=> OnWorker(k) \/ k = about[a]
  BY <1>1, <1>4 DEF OnWorker, PoolShape
<1>7. \A b \in Actors : Held(b)' /\ Waits(b)'
  BY <1>1, <1>3, DistinctNames DEF PoolShape, Held, Waits, Holding, Actors
<1>8. \A k \in Jobs : k # about[a] => (InHands(k)' <=> InHands(k))
  BY <1>1, DistinctNames DEF InHands, PoolShape, Counted, Held, Holding, Actors
<1>9. \A k \in Jobs : Counted(k)'
  BY <1>1, <1>3, <1>6, <1>8, DistinctNames, SMTT(30) DEF PoolShape, Counted, Actors
<1> QED
  BY <1>2, <1>3, <1>5, <1>7, <1>9

\* The refused job leaves its submitter's hands and its scope's count.
LEMMA ScopeUndoPlaces ==
  ASSUME Places, NEW a \in Actors, ScopeUndo(a) PROVE Places'
<1> USE DEF Places, ScopeUndo, Go, Release, pool
<1>1. /\ about[a] \in Jobs /\ parent[about[a]] = a /\ actor[about[a]] = "off"
      /\ outstanding[about[a]] = 1 /\ ~Queued(about[a])
  BY DEF Held, Holding
<1>2. PoolShape'
  BY <1>1 DEF PoolShape, ActorLabels
<1>3. /\ \A k \in Jobs : Queued(k)' <=> Queued(k)
      /\ \A k \in Jobs : OnWorker(k)' <=> OnWorker(k)
      /\ DistinctQueue' /\ OneWorkerEach'
  BY QueueAlone DEF OnWorker, OneWorkerEach
<1>4. \A b \in Actors : Held(b)' /\ Waits(b)'
  BY <1>1, <1>3, DistinctNames DEF PoolShape, Held, Waits, Holding, Actors
<1>5. \A k \in Jobs : k # about[a] => (InHands(k)' <=> InHands(k))
  BY <1>1 DEF InHands, PoolShape
<1>6. \A k \in Jobs : Counted(k)'
  BY <1>1, <1>3, <1>5, DistinctNames DEF PoolShape, Counted, Actors
<1>7. \A w \in Workers : Runs(w)'
  BY DEF Runs, PoolShape, Actors
<1> QED
  BY <1>2, <1>3, <1>4, <1>6, <1>7

\* Beginning and ending a wait.
LEMMA WaitPlaces ==
  ASSUME Places, NEW a \in Actors,
         ScopeJoin(a) \/ \E j \in Jobs : WaitBegin(a, j)
  PROVE  Places'
<1> USE DEF Places, ScopeJoin, WaitBegin, Go, Release, pool
<1>1. PoolShape'
  BY DEF PoolShape, ActorLabels
<1>2. /\ \A k \in Jobs : Queued(k)' <=> Queued(k)
      /\ \A k \in Jobs : OnWorker(k)' <=> OnWorker(k)
      /\ DistinctQueue' /\ OneWorkerEach'
  BY QueueAlone DEF OnWorker, OneWorkerEach
<1>3. \A k \in Jobs : InHands(k)' <=> InHands(k)
  BY DEF InHands, PoolShape
<1>4. \A b \in Actors : Held(b)' /\ Waits(b)'
  <2>1. CASE ScopeJoin(a)
    BY <1>2, <2>1, DistinctNames DEF PoolShape, Held, Waits, Holding, Actors
  <2>2. ASSUME NEW j \in Jobs, WaitBegin(a, j)
        PROVE  \A b \in Actors : Held(b)' /\ Waits(b)'
    BY <1>2, <2>2, DistinctNames DEF PoolShape, Held, Waits, Holding, Actors, MayWaitFor
  <2> QED BY <2>1, <2>2
<1>5. \A k \in Jobs : Counted(k)'
  BY <1>2, <1>3, DistinctNames DEF PoolShape, Counted, Actors
<1>6. \A w \in Workers : Runs(w)'
  BY DEF Runs, PoolShape, Actors
<1> QED
  BY <1>1, <1>2, <1>4, <1>5, <1>6

\* The end of a job.
LEMMA JobPlaces ==
  ASSUME Places, NEW j \in Jobs, JobStep(j) PROVE Places'
<1> USE DEF Places, JobStep, JobEnd, ScopeDecrement, Go, pool
<1>1. outstanding[j] = 1 /\ j \in Actors
  BY DEF Counted, Actors
<1>2. PoolShape'
  <2>1. outstanding[j] - 1 \in Nat
    BY <1>1
  <2>2. outstanding' \in [Jobs -> Nat]
    BY <2>1 DEF PoolShape
  <2>3. actor' \in [Actors -> ActorLabels]
    BY <1>1 DEF PoolShape, ActorLabels
  <2> QED
    BY <2>2, <2>3 DEF PoolShape
<1>3. /\ \A k \in Jobs : Queued(k)' <=> Queued(k)
      /\ \A k \in Jobs : OnWorker(k)' <=> OnWorker(k)
      /\ DistinctQueue' /\ OneWorkerEach'
  BY QueueAlone DEF OnWorker, OneWorkerEach
<1>4. \A k \in Jobs : InHands(k)' <=> InHands(k)
  BY <1>1 DEF InHands, PoolShape
<1>5. \A b \in Actors : Held(b)' /\ Waits(b)'
  BY <1>1, <1>3, DistinctNames DEF PoolShape, Held, Waits, Holding, Actors
<1>6. \A k \in Jobs : Counted(k)'
  BY <1>1, <1>3, <1>4, DistinctNames DEF PoolShape, Counted, Actors
<1>7. \A w \in Workers : Runs(w)'
  BY <1>1 DEF Runs, PoolShape, Actors
<1> QED
  BY <1>2, <1>3, <1>5, <1>6, <1>7

\* A worker with no job to finish takes the head of the queue, or parks.
LEMMA PopOrParkPlaces ==
  ASSUME Places, NEW w \in Workers, NEW idle, PopOrPark(w, idle),
         worker[w] = "busy" => actor[running[w]] = "ended",
         UNCHANGED <<about, parent, outstanding>>
  PROVE  Places'
<1> USE DEF Places
<1>1. CASE queue # <<>>
  <2> DEFINE h == Head(queue)
  <2>1. /\ queue' = Tail(queue) /\ worker' = [worker EXCEPT ![w] = "busy"]
        /\ running' = [running EXCEPT ![w] = h] /\ actor' = [actor EXCEPT ![h] = "run"]
    BY <1>1 DEF PopOrPark, Move, Go
  <2>2. /\ queue' \in Seq(Jobs) /\ h \in Jobs /\ h \in Actors /\ Queued(h) /\ DistinctQueue'
        /\ \A k \in Jobs : Queued(k)' <=> Queued(k) /\ k # h
    BY <1>1, <2>1, PopFront DEF PoolShape, Actors
  <2> HIDE DEF h
  <2>3. actor[h] = "off" /\ outstanding[h] = 1
    BY <2>2 DEF Counted
  <2>4. PoolShape'
    BY <2>1, <2>2 DEF PoolShape, ActorLabels, WorkerLabels
  <2>5. /\ running'[w] = h /\ worker'[w] = "busy" /\ actor'[h] = "run"
        /\ \A v \in Workers \ {w} : running'[v] = running[v] /\ worker'[v] = worker[v]
        /\ \A k \in Jobs : k # h => actor'[k] = actor[k]
    BY <2>1, <2>2 DEF PoolShape, Actors
  <2>6. \A v \in Workers : running[v] # h
    BY <2>2, <2>3, DistinctNames DEF Runs, PoolShape
  <2>7. OneWorkerEach' /\ \A v \in Workers : Runs(v)'
    <3>1. OneWorkerEach'
      BY <2>5, <2>6 DEF OneWorkerEach
    <3>2. \A v \in Workers : Runs(v)'
      BY <2>2, <2>5 DEF Runs
    <3> QED
      BY <3>1, <3>2
  <2>8. \A b \in Actors : Held(b)' /\ Waits(b)'
    BY <2>1, <2>2, <2>3, DistinctNames DEF PoolShape, Held, Waits, Holding, Actors
  <2>9. \A k \in Jobs : k # h => (InHands(k)' <=> InHands(k))
    BY <2>1, <2>2, <2>3 DEF InHands, PoolShape
  <2>10. \A k \in Jobs : OnWorker(k)' <=> k = h \/ \E v \in Workers \ {w} : worker[v] = "busy" /\ running[v] = k
    BY <2>5 DEF OnWorker
  <2>11. \A k \in Jobs : outstanding[k] = 1 /\ k # h => (OnWorker(k) => OnWorker(k)')
    BY <2>10 DEF OnWorker, Counted
  <2>12. \A k \in Jobs : Counted(k)'
    BY <2>2, <2>3, <2>5, <2>9, <2>10, <2>11 DEF Counted
  <2> QED
    BY <2>2, <2>4, <2>7, <2>8, <2>12
<1>2. CASE queue = <<>>
  <2>1. /\ worker' = [worker EXCEPT ![w] = "parked"] /\ running' = [running EXCEPT ![w] = None]
        /\ UNCHANGED <<queue, actor>>
    BY <1>2 DEF PopOrPark, Move
  <2>2. /\ PoolShape' /\ OneWorkerEach'
        /\ \A v \in Workers : Runs(v)'
    BY <2>1 DEF PoolShape, WorkerLabels, OneWorkerEach, Runs
  <2>3. /\ \A k \in Jobs : Queued(k)' <=> Queued(k)
        /\ DistinctQueue'
    BY <2>1, QueueAlone
  <2>4. \A k \in Jobs : InHands(k)' <=> InHands(k)
    BY <2>1 DEF InHands
  <2>5. \A k \in Jobs : outstanding[k] = 1 => (OnWorker(k) => OnWorker(k)')
    BY <2>1 DEF OnWorker, Counted, PoolShape
  <2>6. \A k \in Jobs : Counted(k)'
    BY <2>1, <2>3, <2>4, <2>5 DEF Counted
  <2>7. \A b \in Actors : Held(b)' /\ Waits(b)'
    BY <2>1, <2>3 DEF PoolShape, Held, Waits, Holding
  <2> QED
    BY <2>2, <2>3, <2>6, <2>7
<1> QED
  BY <1>1, <1>2

\* A worker without a job goes from one label to another.
LEMMA WorkerMovesPlaces ==
  ASSUME Places, NEW w \in Workers, NEW l \in WorkerLabels \ {"busy"},
         worker[w] # "busy", Move(w, l),
         UNCHANGED <<queue, running, actor, about, parent, outstanding>>
  PROVE  Places'
<1> USE DEF Places
<1>1. PoolShape' /\ OneWorkerEach' /\ DistinctQueue'
  BY QueueAlone DEF PoolShape, OneWorkerEach, Move
<1>2. \A v \in Workers : worker'[v] = "busy" <=> worker[v] = "busy"
  BY DEF PoolShape, Move
<1>3. /\ \A k \in Jobs : Queued(k)' <=> Queued(k)
      /\ \A k \in Jobs : OnWorker(k)' <=> OnWorker(k)
      /\ \A k \in Jobs : InHands(k)' <=> InHands(k)
  BY <1>2, QueueAlone DEF OnWorker, InHands
<1>4. \A b \in Actors : Held(b)' /\ Waits(b)'
  BY <1>3 DEF PoolShape, Held, Waits, Holding
<1>5. \A k \in Jobs : Counted(k)'
  BY <1>3 DEF Counted
<1>6. \A v \in Workers : Runs(v)'
  BY <1>2 DEF Runs
<1> QED
  BY <1>1, <1>4, <1>5, <1>6

\* Places is inductive.
LEMMA PlacesStep == Places /\ [Next]_vars => Places'
<1> SUFFICES ASSUME Places, [Next]_vars PROVE Places'
  OBVIOUS
<1>1. ASSUME NEW a \in Actors, ActorStep(a) PROVE Places'
  <2>1. ASSUME NEW j \in Jobs, ScopeSpawn(a, j) PROVE Places'
    BY <2>1, ScopeSpawnPlaces
  <2>2. CASE SubmitToIdle(a)
    BY <2>2, SubmitToIdlePlaces
  <2>3. CASE SubmitGrows(a)
    BY <2>3, GrowPlaces DEF SubmitGrows, ActorMoves, Holding, pool
  <2>4. CASE GrowCount(a)
    BY <2>4, GrowPlaces DEF GrowCount, ActorMoves, Holding
  <2>5. ASSUME NEW w \in Workers, GrowSpawned(a, w) PROVE Places'
    BY <2>5, GrowSpawnedPlaces
  <2>6. CASE GrowRefused(a)
    BY <2>6, GrowPlaces DEF GrowRefused, ActorMoves, Holding
  <2>7. CASE ScopeUndo(a)
    BY <2>7, ScopeUndoPlaces
  <2>8. CASE ScopeJoin(a) \/ \E j \in Jobs : WaitBegin(a, j)
    BY <2>8, WaitPlaces
  <2> QED
    BY <1>1, <2>1, <2>2, <2>3, <2>4, <2>5, <2>6, <2>7, <2>8 DEF ActorStep
<1>2. ASSUME NEW j \in Jobs, JobStep(j) PROVE Places'
  BY <1>2, JobPlaces
<1>3. ASSUME NEW w \in Workers, WorkerStep(w) \/ Clock(w) PROVE Places'
  <2>1. CASE WaitForJob(w)
    BY <2>1, PopOrParkPlaces DEF WaitForJob
  <2>2. CASE Resume(w)
    BY <2>2, PopOrParkPlaces DEF Resume
  <2>3. CASE WorkerExit(w) \/ Clock(w)
    BY <2>3, WorkerMovesPlaces
    DEF WorkerExit, Clock, SpuriousWake, IdleTimeout, Retire, WorkerLabels
  <2> QED
    BY <1>3, <2>1, <2>2, <2>3 DEF WorkerStep
<1>4. CASE UNCHANGED vars
  <2>1. /\ \A k \in Jobs : Queued(k)' <=> Queued(k)
        /\ \A k \in Jobs : OnWorker(k)' <=> OnWorker(k)
        /\ \A k \in Jobs : InHands(k)' <=> InHands(k)
        /\ DistinctQueue' <=> DistinctQueue
    BY <1>4, QueueAlone DEF vars, pool, OnWorker, InHands
  <2> QED
    BY <1>4, <2>1
    DEF vars, pool, Places, PoolShape, Held, Waits, Counted, Runs, OneWorkerEach, Holding
<1> QED
  BY <1>1, <1>2, <1>3, <1>4 DEF Next

-----------------------------------------------------------------------------
(***************************************************************************)
(* The two counters.                                                       *)
(***************************************************************************)
LEMMA FinitePools ==
  /\ IsFiniteSet(Idle) /\ IsFiniteSet(Alive) /\ IsFiniteSet(Spawning)
  /\ Cardinality(Idle) \in Nat /\ Cardinality(Alive) \in Nat /\ Cardinality(Spawning) \in Nat
<1>1. IsFiniteSet(Actors)
  BY FiniteConstants, FS_AddElement DEF Actors
<1>2. Idle \subseteq Workers /\ Alive \subseteq Workers /\ Spawning \subseteq Actors
  BY DEF Idle, Alive, Spawning
<1>3. IsFiniteSet(Idle) /\ IsFiniteSet(Alive) /\ IsFiniteSet(Spawning)
  BY <1>1, <1>2, FiniteConstants, FS_Subset
<1> QED
  BY <1>3, FS_CardinalityType

\* One element more, one element less.
LEMMA Grown ==
  ASSUME NEW S, IsFiniteSet(S), NEW T, NEW x, x \notin S, T = S \cup {x}
  PROVE  Cardinality(T) = Cardinality(S) + 1
  BY FS_AddElement

\* One worker less is counted one less.
LEMMA Shrunk ==
  ASSUME NEW S, IsFiniteSet(S), NEW T, NEW x \in S, T = S \ {x}
  PROVE  Cardinality(T) = Cardinality(S) - 1
  BY FS_RemoveElement

\* idle_count counts the workers between its increment and its decrement.
LEMMA IdleStep == Places /\ IdleExact /\ [Next]_vars => IdleExact'
<1> SUFFICES ASSUME Places, IdleExact, [Next]_vars PROVE IdleExact'
  OBVIOUS
<1> USE FinitePools DEF IdleExact, Move
<1>1. CASE Idle' = Idle /\ idle_count' = idle_count
  BY <1>1
<1>2. ASSUME NEW w, w \in Idle, Idle' = Idle \ {w}, idle_count' = idle_count - 1 PROVE IdleExact'
  BY <1>2, Shrunk
<1>3. ASSUME NEW w, w \notin Idle, Idle' = Idle \cup {w}, idle_count' = idle_count + 1 PROVE IdleExact'
  BY <1>3, Grown
<1>4. ASSUME NEW a \in Actors, ActorStep(a) PROVE IdleExact'
  <2>1. CASE SubmitToIdle(a)
    BY <1>1, <2>1 DEF SubmitToIdle, NotifyOne, Parked, Idle, Places, PoolShape
  <2>2. ASSUME NEW w \in Workers, GrowSpawned(a, w) PROVE IdleExact'
    BY <1>1, <2>2 DEF GrowSpawned, Idle, Places, PoolShape
  <2>3. CASE UNCHANGED <<worker, idle_count>>
    BY <1>1, <2>3 DEF Idle
  <2> QED
    BY <1>4, <2>1, <2>2, <2>3
    DEF ActorStep, ScopeSpawn, WaitBegin, SubmitGrows, GrowCount, GrowRefused, ScopeUndo, ScopeJoin, pool
<1>5. ASSUME NEW j \in Jobs, JobStep(j) PROVE IdleExact'
  BY <1>1, <1>5 DEF JobStep, JobEnd, ScopeDecrement, pool, Idle
<1>6. ASSUME NEW w \in Workers, WorkerStep(w) \/ Clock(w) PROVE IdleExact'
  <2>1. CASE WaitForJob(w) /\ queue # <<>>
    <3>1. Idle' = Idle
      BY <2>1 DEF WaitForJob, PopOrPark, Idle, Places, PoolShape
    <3> QED
      BY <1>1, <2>1, <3>1 DEF WaitForJob, PopOrPark
  <2>2. CASE WaitForJob(w) /\ queue = <<>>
    <3>1. Idle' = Idle \cup {w} /\ w \notin Idle
      BY <2>2 DEF WaitForJob, PopOrPark, Idle, Places, PoolShape
    <3> QED
      BY <1>3, <2>2, <3>1 DEF WaitForJob, PopOrPark
  <2>3. CASE Resume(w) /\ queue # <<>>
    <3>1. Idle' = Idle \ {w} /\ w \in Idle
      BY <2>3 DEF Resume, PopOrPark, Idle, Places, PoolShape
    <3> QED
      BY <1>2, <2>3, <3>1 DEF Resume, PopOrPark
  <2>4. CASE Resume(w) /\ queue = <<>>
    <3>1. Idle' = Idle
      BY <2>4 DEF Resume, PopOrPark, Idle, Places, PoolShape
    <3>2. idle_count' = idle_count
      BY <2>4 DEF Resume, PopOrPark
    <3> QED
      BY <1>1, <3>1, <3>2
  <2>5. CASE Retire(w)
    <3>1. Idle' = Idle \ {w} /\ w \in Idle
      BY <2>5 DEF Retire, Idle, Places, PoolShape
    <3> QED
      BY <1>2, <2>5, <3>1 DEF Retire
  <2>6. CASE SpuriousWake(w) \/ IdleTimeout(w) \/ WorkerExit(w)
    <3>1. Idle' = Idle
      BY <2>6 DEF SpuriousWake, IdleTimeout, WorkerExit, Idle, Places, PoolShape
    <3> QED
      BY <1>1, <2>6, <3>1 DEF SpuriousWake, IdleTimeout, WorkerExit
  <2> QED
    BY <1>6, <2>1, <2>2, <2>3, <2>4, <2>5, <2>6 DEF WorkerStep, Clock
<1>7. CASE UNCHANGED vars
  BY <1>1, <1>7 DEF vars, pool, Idle
<1> QED
  BY <1>4, <1>5, <1>6, <1>7 DEF Next

\* live_workers counts the workers that have not left and the ones being made.
LEMMA LiveStep == Places /\ LiveExact /\ [Next]_vars => LiveExact'
<1> SUFFICES ASSUME Places, LiveExact, [Next]_vars PROVE LiveExact'
  OBVIOUS
<1> USE FinitePools DEF LiveExact, Move
<1>1. CASE Alive' = Alive /\ Spawning' = Spawning /\ live_workers' = live_workers
  BY <1>1
<1>2. ASSUME NEW a \in Actors, ActorStep(a) PROVE LiveExact'
  <2>1. CASE SubmitToIdle(a)
    <3>1. Alive' = Alive /\ Spawning' = Spawning
      BY <2>1 DEF SubmitToIdle, NotifyOne, Parked, Alive, Spawning, Go, Release, Places, PoolShape
    <3> QED
      BY <1>1, <2>1, <3>1 DEF SubmitToIdle
  <2>2. CASE GrowCount(a)
    <3>1. Alive' = Alive /\ Spawning' = Spawning \cup {a} /\ a \notin Spawning
      BY <2>2 DEF GrowCount, Alive, Spawning, Go, Places, PoolShape
    <3> QED
      BY <2>2, <3>1, Grown DEF GrowCount
  <2>3. ASSUME NEW w \in Workers, GrowSpawned(a, w) PROVE LiveExact'
    <3>1. about[a] \in Jobs /\ about[a] \in Actors /\ actor[about[a]] = "off"
      BY <2>3 DEF GrowSpawned, Places, Held, Holding, Actors
    <3>2. Alive' = Alive \cup {w} /\ w \notin Alive
      BY <2>3 DEF GrowSpawned, Alive, Places, PoolShape
    <3>3. Spawning' = Spawning \ {a} /\ a \in Spawning
      BY <2>3, <3>1 DEF GrowSpawned, Spawning, Places, PoolShape
    <3>4. Cardinality(Alive') = Cardinality(Alive) + 1
      BY <3>2, Grown
    <3>5. Cardinality(Spawning') = Cardinality(Spawning) - 1
      BY <3>3, Shrunk
    <3> QED
      BY <2>3, <3>4, <3>5 DEF GrowSpawned
  <2>4. CASE GrowRefused(a)
    <3>1. Alive' = Alive /\ Spawning' = Spawning \ {a} /\ a \in Spawning
      BY <2>4 DEF GrowRefused, Alive, Spawning, Go, Places, PoolShape
    <3>2. Cardinality(Spawning') = Cardinality(Spawning) - 1
      BY <3>1, Shrunk
    <3> QED
      BY <2>4, <3>1, <3>2 DEF GrowRefused
  <2>5. CASE \/ \E j \in Jobs : ScopeSpawn(a, j) \/ WaitBegin(a, j)
             \/ SubmitGrows(a) \/ ScopeUndo(a) \/ ScopeJoin(a)
    <3>1. Alive' = Alive /\ Spawning' = Spawning
      BY <2>5 DEF ScopeSpawn, WaitBegin, SubmitGrows, ScopeUndo, ScopeJoin, pool, Go,
                  Release, Alive, Spawning, Places, PoolShape
    <3> QED
      BY <1>1, <2>5, <3>1 DEF ScopeSpawn, WaitBegin, SubmitGrows, ScopeUndo, ScopeJoin, pool
  <2> QED
    BY <1>2, <2>1, <2>2, <2>3, <2>4, <2>5 DEF ActorStep
<1>3. ASSUME NEW j \in Jobs, JobStep(j) PROVE LiveExact'
  <2>1. Alive' = Alive /\ Spawning' = Spawning
    BY <1>3 DEF JobStep, JobEnd, ScopeDecrement, pool, Go, Alive, Spawning, Places, PoolShape
  <2> QED
    BY <1>1, <1>3, <2>1 DEF JobStep, JobEnd, ScopeDecrement, pool
<1>4. ASSUME NEW w \in Workers, WorkerStep(w) \/ Clock(w) PROVE LiveExact'
  <2>1. CASE WorkerExit(w)
    <3>1. Alive' = Alive \ {w} /\ w \in Alive /\ Spawning' = Spawning
      BY <2>1 DEF WorkerExit, Alive, Spawning, Places, PoolShape
    <3>2. Cardinality(Alive') = Cardinality(Alive) - 1
      BY <3>1, Shrunk
    <3> QED
      BY <2>1, <3>1, <3>2 DEF WorkerExit
  <2>2. CASE Clock(w)
    <3>1. Alive' = Alive /\ Spawning' = Spawning
      BY <2>2 DEF Clock, SpuriousWake, IdleTimeout, Retire, Alive, Spawning, Places, PoolShape
    <3> QED
      BY <1>1, <2>2, <3>1 DEF Clock, SpuriousWake, IdleTimeout, Retire
  <2>3. ASSUME NEW idle, PopOrPark(w, idle), w \in Alive, live_workers' = live_workers
        PROVE  LiveExact'
    <3>1. Alive' = Alive
      BY <2>3 DEF PopOrPark, Alive, Places, PoolShape
    <3>2. Spawning' = Spawning
      <4>1. CASE queue = <<>>
        BY <2>3, <4>1 DEF PopOrPark, Spawning
      <4>2. CASE queue # <<>>
        <5>1. Head(queue) \in Jobs /\ queue[1] = Head(queue) /\ 1 \in DOMAIN queue
          BY <4>2 DEF Places, PoolShape
        <5>2. actor[Head(queue)] = "off" /\ Head(queue) \in Actors
          BY <5>1 DEF Places, Counted, Queued, Actors
        <5> QED
          BY <2>3, <4>2, <5>2 DEF PopOrPark, Spawning, Go, Places, PoolShape
      <4> QED
        BY <4>1, <4>2
    <3> QED
      BY <1>1, <2>3, <3>1, <3>2
  <2>4. CASE WaitForJob(w) \/ Resume(w)
    BY <2>3, <2>4 DEF WaitForJob, Resume, Alive
  <2> QED
    BY <1>4, <2>1, <2>2, <2>4 DEF WorkerStep
<1>5. CASE UNCHANGED vars
  BY <1>1, <1>5 DEF vars, pool, Alive, Spawning
<1> QED
  BY <1>2, <1>3, <1>4, <1>5 DEF Next

-----------------------------------------------------------------------------
(***************************************************************************)
(* A queued job is covered, and submission has no cycle.                   *)
(***************************************************************************)
\* Only Scope::spawn writes parent: of a job that has submitted nothing.
LEMMA ParentStep ==
  ASSUME Places, [Next]_vars
  PROVE  \/ UNCHANGED parent
         \/ \E a \in Actors, j \in Jobs :
              /\ ScopeSpawn(a, j) /\ a # j /\ ~Queued(j)
              /\ \A k \in Jobs : parent[k] # j /\ parent'[k] # j
<1>1. ASSUME NEW a \in Actors, NEW j \in Jobs, ScopeSpawn(a, j)
      PROVE  /\ a # j /\ ~Queued(j)
             /\ \A k \in Jobs : parent[k] # j /\ parent'[k] # j
  BY <1>1 DEF ScopeSpawn, Places, PoolShape, Counted
<1>2. \/ UNCHANGED parent
      \/ \E a \in Actors, j \in Jobs : ScopeSpawn(a, j)
  BY DEF Next, vars, ActorStep, JobStep, WorkerStep, Clock, WaitBegin, SubmitToIdle, SubmitGrows,
         GrowCount, GrowSpawned, GrowRefused, ScopeUndo, ScopeJoin, JobEnd, ScopeDecrement,
         WaitForJob, Resume, WorkerExit, SpuriousWake, IdleTimeout, Retire
<1> QED
  BY <1>1, <1>2

\* A set with the new job in it has the new job for its childless member.
LEMMA NoCycleStep == Places /\ NoCycle /\ [Next]_vars => NoCycle'
<1> SUFFICES ASSUME Places, NoCycle, [Next]_vars, NEW T \in SUBSET Jobs, T # {}
             PROVE  \E j \in T : \A k \in T : parent'[k] # j
  BY DEF NoCycle
<1>1. CASE UNCHANGED parent
  BY <1>1 DEF NoCycle
<1>2. ASSUME NEW a \in Actors, NEW j \in Jobs, ScopeSpawn(a, j),
             \A k \in Jobs : parent[k] # j /\ parent'[k] # j
      PROVE  \E i \in T : \A k \in T : parent'[k] # i
  <2>1. CASE j \in T
    BY <1>2, <2>1
  <2>2. CASE j \notin T
    <3>1. \A k \in T : parent'[k] = parent[k]
      BY <1>2, <2>2 DEF ScopeSpawn, Places, PoolShape
    <3> QED
      BY <3>1 DEF NoCycle
  <2> QED
    BY <2>1, <2>2
<1> QED
  BY <1>1, <1>2, ParentStep

\* A busy worker covers the queue as long as it stays busy with its job and no
\* job is queued.
LEMMA ApartStays ==
  ASSUME Places, [Next]_vars, \A k \in Jobs : Queued(k)' => Queued(k),
         NEW i \in Jobs, NEW S \in SUBSET Jobs, Apart(i, S)
  PROVE  \E U \in SUBSET Jobs : Apart(i, U)'
<1>1. CASE UNCHANGED parent
  <2>1. Apart(i, S)'
    BY <1>1 DEF Apart
  <2> QED
    BY <2>1
<1>2. ASSUME NEW a \in Actors, NEW j \in Jobs, ScopeSpawn(a, j), ~Queued(j),
             \A k \in Jobs : parent[k] # j /\ parent'[k] # j
      PROVE  \E U \in SUBSET Jobs : Apart(i, U)'
  <2> DEFINE U == S \cup {j}
  <2>1. \A k \in Jobs : k # j => parent'[k] = parent[k]
    BY <1>2 DEF ScopeSpawn, Places, PoolShape
  <2>2. Apart(i, U)'
    BY <1>2, <2>1 DEF Apart
  <2> QED
    BY <2>2
<1> QED
  BY <1>1, <1>2, ParentStep

\* The worker that takes the head of the queue covers the rest of it.
LEMMA CoveredByPop ==
  ASSUME Places, NEW w \in Workers, NEW idle, PopOrPark(w, idle),
         UNCHANGED parent
  PROVE  Covered'
<1>1. CASE queue = <<>>
  BY <1>1 DEF PopOrPark, Covered
<1>2. CASE queue # <<>>
  <2>0. PICK h \in Jobs : h = Head(queue)
    BY <1>2 DEF Places, PoolShape
  <2>1. queue' = Tail(queue) /\ worker' = [worker EXCEPT ![w] = "busy"] /\ running' = [running EXCEPT ![w] = h]
    BY <1>2, <2>0 DEF PopOrPark, Move
  <2>2. /\ h \in Jobs /\ Queued(h)
        /\ \A k \in Jobs : Queued(k)' <=> Queued(k) /\ k # h
    BY <1>2, <2>0, <2>1, PopFront DEF Places, PoolShape
  <2>3. \A k \in Jobs : parent[k] # h
    BY <2>2 DEF Places, Counted
  <2>4. Apart(h, {h})'
    BY <2>2, <2>3 DEF Apart
  <2>5. worker'[w] = "busy" /\ running'[w] = h /\ {h} \in SUBSET Jobs
    BY <2>1, <2>2 DEF Places, PoolShape
  <2>6. \E S \in SUBSET Jobs : Apart(running[w], S)'
    BY <2>4, <2>5 DEF Apart
  <2> QED
    BY <2>5, <2>6 DEF Covered
<1> QED
  BY <1>1, <1>2

\* A job is queued only past an idle worker, and an idle worker leaves a queue
\* that is not empty only with its head.
LEMMA CoveredStep == Places /\ IdleExact /\ Covered /\ [Next]_vars => Covered'
<1> SUFFICES ASSUME Places, IdleExact, Covered, [Next]_vars PROVE Covered'
  OBVIOUS
<1>1. ASSUME NEW w \in Workers, WaitForJob(w) \/ Resume(w) PROVE Covered'
  BY <1>1, CoveredByPop DEF WaitForJob, Resume
<1>2. ASSUME NEW w \in Workers, Retire(w) PROVE Covered'
  BY <1>2 DEF Retire, Covered
<1>3. ASSUME NEW a \in Actors, SubmitToIdle(a) PROVE Covered'
  <2>1. Idle # {}
    BY <1>3, FS_EmptySet, FinitePools DEF SubmitToIdle, IdleExact
  <2>2. Idle' = Idle
    BY <1>3 DEF SubmitToIdle, NotifyOne, Parked, Move, Idle, Places, PoolShape
  <2>3. \E w \in Workers : w \in Idle'
    BY <2>1, <2>2 DEF Idle
  <2> QED
    BY <2>3 DEF Covered
<1>4. ASSUME UNCHANGED queue,
             \A w \in Workers : w \in Idle => w \in Idle',
             \A w \in Workers : worker[w] = "busy" => worker'[w] = "busy" /\ running'[w] = running[w]
      PROVE  Covered'
  <2>1. CASE queue = <<>>
    BY <1>4, <2>1 DEF Covered
  <2>2. ASSUME NEW w \in Workers, w \in Idle PROVE Covered'
    BY <1>4, <2>2 DEF Covered
  <2>3. ASSUME NEW w \in Workers, worker[w] = "busy",
               NEW S \in SUBSET Jobs, Apart(running[w], S)
        PROVE  Covered'
    <3>1. running[w] \in Jobs
      BY <2>3 DEF Apart
    <3>2. \E U \in SUBSET Jobs : Apart(running[w], U)'
      <4>1. \A k \in Jobs : Queued(k)' => Queued(k)
        BY <1>4, QueueAlone
      <4>2. PICK U \in SUBSET Jobs : U \subseteq Jobs /\ running[w] \in U
              /\ (\A k \in Jobs : parent'[k] \in U => k \in U)
              /\ (\A k \in U : ~Queued(k)')
        BY <2>3, <3>1, <4>1, ApartStays DEF Apart
      <4>3. running'[w] = running[w]
        BY <1>4, <2>3
      <4> QED
        BY <4>2, <4>3 DEF Apart
    <3> QED
      BY <1>4, <2>3, <3>2 DEF Covered
  <2> QED
    BY <2>1, <2>2, <2>3 DEF Covered
<1>5. ASSUME NEW w \in Workers, NEW a \in Actors, GrowSpawned(a, w) PROVE Covered'
  BY <1>4, <1>5 DEF GrowSpawned, Move, Idle, Places, PoolShape
<1>6. ASSUME NEW w \in Workers, WorkerExit(w) \/ SpuriousWake(w) \/ IdleTimeout(w) PROVE Covered'
  BY <1>4, <1>6 DEF WorkerExit, SpuriousWake, IdleTimeout, Move, Idle, Places, PoolShape
<1>7. CASE UNCHANGED <<queue, worker, running>>
  BY <1>4, <1>7 DEF Idle
<1> QED
  BY <1>1, <1>2, <1>3, <1>5, <1>6, <1>7
  DEF Next, vars, pool, ActorStep, JobStep, WorkerStep, Clock, ScopeSpawn, WaitBegin, SubmitGrows,
      GrowCount, GrowRefused, ScopeUndo, ScopeJoin, JobEnd, ScopeDecrement

-----------------------------------------------------------------------------
(***************************************************************************)
(* The theorems.                                                           *)
(***************************************************************************)
LEMMA PoolInitInv == Init => PoolInv
<1> SUFFICES ASSUME Init PROVE PoolInv
  OBVIOUS
<1>1. Idle = {} /\ Alive = {} /\ Spawning = {}
  BY DEF Init, Idle, Alive, Spawning
<1>2. IdleExact /\ LiveExact
  BY <1>1, FS_EmptySet DEF Init, IdleExact, LiveExact
<1>3. Covered /\ NoCycle
  BY DistinctNames DEF Init, Covered, NoCycle
<1> QED
  BY <1>2, <1>3, InitPlaces DEF PoolInv

\* Every step of the pool keeps the invariant.
LEMMA PoolStepInv == PoolInv /\ [Next]_vars => PoolInv'
  BY PlacesStep, IdleStep, LiveStep, CoveredStep, NoCycleStep DEF PoolInv

\* The inductive invariant of the pool holds in every state.
THEOREM PoolInvariance == Spec => []PoolInv
  BY PoolInitInv, PoolStepInv, PTL DEF Spec

\* Every variable keeps its type; in particular neither counter goes below
\* zero, though one is lowered outside the lock that raised it.
THEOREM PoolTyped == Spec => []TypeOK
<1>1. PoolInv => TypeOK
  BY FinitePools DEF PoolInv, Places, PoolShape, IdleExact, LiveExact, TypeOK
<1> QED
  BY <1>1, PoolInvariance, PTL

\* A job is in exactly one of the queue, a worker and its submitter's hands,
\* whatever actors submit and wait for.
THEOREM JobsExact == Spec => []JobsNeitherLostNorDoubled
<1>1. PoolInv => JobsNeitherLostNorDoubled
  <2> SUFFICES ASSUME PoolInv PROVE JobsNeitherLostNorDoubled
    OBVIOUS
  <2>1. ASSUME NEW j \in Jobs, Queued(j) PROVE actor[j] = "off" /\ ~OnWorker(j) /\ ~InHands(j)
    BY <2>1 DEF PoolInv, Places, Counted, Runs, OnWorker, InHands, Held, Holding
  <2>2. ASSUME NEW j \in Jobs, outstanding[j] = 0 PROVE actor[j] \in {"off", "ended"} /\ ~Queued(j)
    BY <2>2 DEF PoolInv, Places, Counted
  <2> QED
    BY <2>1, <2>2
    DEF PoolInv, Places, Counted, DistinctQueue, OneWorkerEach, JobsNeitherLostNorDoubled
<1> QED
  BY <1>1, PoolInvariance, PTL

\* When the waits of a state are for children, it has no queued job with every
\* worker and every actor waiting: the worker that covers the queue runs a job
\* whose wait leads, child by child, to one that runs.
LEMMA CoveredMeansProgress == PoolInv => NoSelfInflictedDeadlock
<1> SUFFICES ASSUME PoolInv, WaitsForOwn, queue # <<>>,
                    \A w \in Workers : worker[w] = "busy" => Stuck(running[w]),
                    \A w \in Workers : worker[w] \in {"none", "gone", "busy"},
                    \A a \in Actors : actor[a] \in {"off", "ended"} \/ Stuck(a)
             PROVE  FALSE
  BY DEF NoSelfInflictedDeadlock, Starved
<1>1. PICK w \in Workers, S \in SUBSET Jobs : worker[w] = "busy" /\ Apart(running[w], S)
  BY DEF PoolInv, Covered, Idle
<1> DEFINE T == {j \in S : OnWorker(j)}
<1>2. T \in SUBSET Jobs /\ running[w] \in T
  BY <1>1 DEF Apart, OnWorker
<1>3. ASSUME NEW j \in T PROVE \E k \in T : parent[k] = j
  <2>1. j \in Jobs /\ j \in Actors /\ Stuck(j)
    BY <1>2 DEF OnWorker, Actors
  <2>2. about[j] \in Jobs /\ parent[about[j]] = j /\ outstanding[about[j]] = 1
    BY <2>1 DEF Stuck, PoolInv, Places, Waits, Counted, WaitsForOwn
  <2>3. about[j] \in S /\ ~Queued(about[j])
    BY <1>1, <2>2 DEF Apart
  <2>4. ~InHands(about[j])
    BY DEF InHands, Stuck
  <2>5. OnWorker(about[j])
    BY <2>2, <2>3, <2>4 DEF PoolInv, Places, Counted
  <2> QED
    BY <2>2, <2>3, <2>5
<1>4. \E j \in T : \A k \in T : parent[k] # j
  BY <1>2 DEF PoolInv, NoCycle
<1> QED
  BY <1>3, <1>4

\* Eager growth leaves no room for a self-inflicted deadlock, for any number
\* of jobs and workers and whatever actors waited for before: a state in which
\* a queued job starves has an actor that waits for a job of another's.
THEOREM NoPoolDeadlock == Spec => []NoSelfInflictedDeadlock
<1>1. PoolInv => NoSelfInflictedDeadlock
  BY CoveredMeansProgress
<1> QED
  BY <1>1, PoolInvariance, PTL
=============================================================================
