# Nirdosha: TLA+ models of the compiler and its runtime, checked with TLC and TLAPS

Nirdosha is a statically checked language. `crates/compiler` parses, type-,
effect- and ownership-checks a program and emits LLVM IR; the IR is linked with
`crates/runtime-kernels`, the runtime that every compiled program calls for
threads, channels, connections, transactions and I/O. `crates/compiled-serve`
and `crates/presence-gateway` serve compiled programs over the network.

The models follow a program from its checks to its run. They start where a
compiled program is hardest to test, the runtime's concurrent state and its
recovery from crashes; go on to what the checkers promise about the code that is
then generated (memory, guards, contracts, types); and end with the program
served over HTTP.

## 1. Inventory

| Part | State it keeps | Operations | Hard behaviour | What makes it correct |
|---|---|---|---|---|
| Spawn, join, channels (`runtime-kernels/src/lib.rs`), stall detector (`kernel/mod.rs`) | `channel_table`, `thread_table`, result boxes, `STALL.live/blocked`, `waiting_registry`, the `thread` admission count | `nir_chan_new/send/recv`, `nir_thread_spawn/join`, `register_wait_and_check_stall`, `concurrency_wait_begin/end`, `concurrency_thread_finished` | several locks per call, taken one after the other; handles moved between threads; raw result pointers | counters exact; a result is read after it is written and freed once; every stall seen, no false one |
| Worker pool (`kernel/thread_pool.rs`) | `queue`, `idle_count`, `live_workers`, `Scope.outstanding` | `submit`, `worker_loop`, `wait_for_job`, `Scope::spawn/join` | spurious wake-ups, timeouts that race notifications, an OS that refuses threads | no job lost, doubled or starved; no deadlock of the pool's own making |
| Admission (`kernel/mod.rs`) | one lock-free `held` counter per domain | `acquire`, `release` | load and compare-exchange are two steps | exactly the ceiling is granted: an atomic semaphore |
| Connections (`kernel/pool.rs`, `db.rs`, `plugin_provider.rs`, `reaper.rs`) | `PoolRegistry.pools`, r2d2's idle lists, the caller's slot | `connect`, `connect_conn_shape`, `call_via`, `checkout_with_key_cap`, drops, `sweep_one_round` | pools built outside the lock, error paths with three ways to release a slot, a sweeper beside the sessions | every session paid for once; a session alone on its connection; nothing leaked |
| Transact (`codegen.rs` `emit_transact`, `kernel/transact.rs`, `kernel/instance_lock.rs`) | one row per transaction in a SQLite log, the lock file | the emitted `network / verify / commit / compensate` flow, retries, `nir_transact_replay_all` | a crash between any two steps, failed log writes, rebuilds, a second process | `verify`'s decision is durable, never reversed, finally carried out |
| HTTP client (`kernel/http.rs`) | keep-alive pool per host | send, read, retry | a broken connection after the request may have been sent | retried only when nothing was sent; no dirty connection is reused |
| Recorder, NFR, mailbox (`kernel/recorder.rs`, `nfr.rs`, `mailbox.rs`) | double-buffered pages, histograms | record, flush, escalate | a page taken while written to, flush at exit | every event in exactly one flush |
| Identity (`kernel/identity.rs`, `compiled-serve/src/identity.rs`) | revoked tokens, sessions, refresh handles | validate, check role or claim, create and verify a session, exchange, revoke | expiry between check and use, concurrent redemption | a gate opens only for a live token that has the claim; a handle is redeemed once |
| Handle tables, domain registry (`kernel/mod.rs`) | id allocation, limits | insert, get, remove | several tables and the OS share one number space | a number names what its owner opened |
| TCP, file, database, MQ, notification kernels (`lib.rs`, `kernel/db.rs`) | connections, slots, queues | open, use, `stop` and the wrapper codegen emits for each builtin | partial failures, a lock held across a wait, conversions of values | results say what happened; slots exact; calls return |
| Workflows (`workflow_lower.rs`, `workflow_conformance.rs`, `lib.rs`) | instance rows, history | start, advance, overdue | read, act and write are separate calls | a workflow moves along its declared transitions |
| Type checker (`typeck.rs`) | scopes during one pass | one function per AST node | the expected type flows down, the inferred one up | what codegen infers again agrees |
| Ownership checker (`ownership.rs`) | scopes, moved names, `FreeMap` | touch, move, branches, loops | joins of branches, a loop's second round | accepted programs touch no freed memory and leak none |
| Refinement passes (`smt.rs`, `contract_check.rs`, `refine.rs`) | terms, facts, paths | one function per AST node | what a branch or a loop makes stale | a guard left out is never needed; a verdict is true |
| Code generation (`codegen.rs`) | scopes, frees, layouts | one function per AST node | frees on every exit, types inferred a second time, narrowing | freed once on each path; values fit their slots |
| Compiled serve (`crates/compiled-serve`) | rate-limit table, connections | accept, read, dispatch, answer | requests in pieces, many connections at a limit | no handler past its gate, no address past its limit, each answer its own |
| Presence gateway | connection registry | connect, disconnect, broadcast | reconnect races disconnect | presence follows the last connection |
| Effect checker, lexer, parser, loader, migrations, generators, console, CLI | none that outlives a call | | | |

How they interact: a spawned function runs as a job of the worker pool, in a
`Scope` of its own, and holds a `thread` admission slot until it is joined.
Every connection holds a slot of its provider's domain. `transact` slots are
called from generated code, live or by a trampoline during replay, and the log
is shared by all threads, and by every process pointed at the same file.
A compiled program reaches the kernels only through wrappers that code
generation emits, which turn kernel statuses into `Result` values. The checkers
hand code generation three tables: which names to free where (`FreeMap`), which
guards to leave out, which contracts hold. A served function runs behind a
wrapper that decodes its arguments, checks its token and encodes its result.

`PROJECT.json` lists the components with their status, and under `hazards` the
places where each of these can go wrong.

## 2. Modules

| Module | Models | Extends / instantiates |
|---|---|---|
| `SpawnJoin` | channels, spawn/join, the stall detector, the ownership rules for handles | |
| `ThreadPool` | the pool and its scopes | |
| `AtomicAdmission` | what admission promises: an atomic counting semaphore per domain | |
| `Admission` | `acquire`/`release` as they are written | instantiates `AtomicAdmission` (property `AcquireIsAtomic`) |
| `Connections` | connection registries, sessions, `call_via`, key cap, reaper | extends `Admission`: the composition of the two |
| `Transact` | the transact block, its log, replay, the instance lock | |
| `Scopes`, `Typeck`, `Ownership`, `Codegen` | scopes; the typing of affine programs; the ownership pass and its `FreeMap`; the instructions generated from both | each extends the one before |
| `CompiledProgram` | a function through these passes, then its instructions run on a heap | extends `Codegen`: the composition |
| `SmtCheck`, `ContractCheck`, `Refine` | the solver pass, the contract pass, interval analysis | `Refine` extends `Intervals`, its arithmetic of intervals |
| `CheckedProgram` | a function through these passes, then run with every input | extends all three |
| `Types`, `TypeInference`, `CodegenTypes` | types, registry and layouts; `typeck.rs`'s inference; `codegen.rs`'s second one | each extends the one before |
| `Frontend` | a statement through both inferences, declarations through their layout | extends `CodegenTypes` |
| `HttpClient` | requests over pooled keep-alive connections | |
| `JsonText`, `Identity`, `Served` | JSON texts and their kernels; identity kernels; the server | each extends the one before |
| `JsonWire` | encoding of arguments and results | extends `JsonText`; the codec `Served` is run with |
| `Builtins`, `Rows`, `KernelCalls`, `Workflow` | wrappers of builtins; SQL binds and rows; threads calling the kernels; workflow programs and their calls | the first two extend `JsonText`, `KernelCalls` both, `Workflow` `KernelCalls` |
| `MC*` | the instances for the runs | one per specification |
| `*Proofs` | theorems | one per proved specification, but that `ConnectionsProofs` holds `Admission`'s too; `Intervals` holds its own |

Correspondence with the code. One action is what the code does between two
acquisitions of a lock (or two atomic operations, or two statements of the log);
`PROJECT.json`'s `map` gives the lines. Names are the source's where there is a
function of that name. An operator commented `Mutant:` is the definition next to
it with a plausible mistake; no specification uses it.

* **SpawnJoin.** `pc` holds the kernel call each participant is in; `holder` is
  the ownership checker's view of a handle (a binding of a participant, a
  channel it was sent on, `Lost`); `live`, `blocked`, `registry`, `reported` are
  the `StallTracker`, `waiting_registry` and `DEADLOCK_REPORTED`. What programs do
  is any sequence of the operations the ownership rules permit. A trap in user
  code aborts the process (it cannot unwind through the `extern "C"`
  trampoline). The pool underneath is abstracted to `JobStart`: an accepted job
  starts at some time, or never.
* **ThreadPool.** `worker` and `actor` are program counters; a notified worker is
  `woken` but still counted idle until it runs again, as in `wait_for_job`.
  An actor may wait for any job that has been submitted (`MayWaitFor`): for its own
  (`join`), and for another's through a handle or a message it was sent.
* **Admission, Connections.** `adm`, `dom`, `held` and the value each caller has
  loaded are the lock-free loop; `home` is the pool a physical connection
  belongs to, `registry` the pool installed for each key. r2d2 is not part of
  the repository: `Get*`, `OpenConnection` and `IdleExpires` state what the code
  relies on.
* **Transact.** `row` is the log, `exec` what each process is doing for each
  transaction; `net`, `verdict`, `tried`, `done` and `badlog` are history
  variables that outlive processes. `Crash` is possible at every step. `Write` may
  fail: the generated code drops the status. `Acquire` follows SQLite's exclusive locking mode:
  the exclusive lock is taken by the `CREATE TABLE` that creates the lock table, and
  only a shared one when the table is already there.
* **CompiledProgram.** A program is a record of its syntax. `Compile` runs the type
  checker and the ownership checker; what they accept becomes a list of
  instructions, frees included, and `Step` executes one of them on `heap`, the cells
  and handles that `nir_alloc` and the kernels gave out. Every branch may go either way.
  `gaps` marks the programs whose account in `ownership.rs` is known not to be
  exact (section 5); `wrong` collects every bad access.
* **CheckedProgram.** The passes work on terms; Z3 is replaced by the assignments over
  small words that satisfy what it was told, so it answers as a complete solver would.
  The code that runs computes in words that wrap, guards a let, an assignment and a
  return, and narrows there.
* **Frontend.** An expression is a tuple; `Write` puts a form around the previous one,
  so the expressions get deeper; `sites` are the places code generation fills, each with
  the type `typeck.rs` gave the value and the one `local_ty_of` takes it to have.
  `Size` and `Align` state LLVM's layout rules, independently of the code's count of words.
* **HttpClient.** A call's `pc` is where it is in `request_http(s)` and
  `read_http_response`; a connection holds what is on its wire in both directions.
  The server is external: it answers in any framing, in pieces, and may close at any
  time. Which errors are retried is the code's rule (`SendError` before the last write).
* **Served.** One action per read of the stream, per dispatch and per answer of a
  connection's thread; the rate limiter's table, the identity kernels and the admission
  slot are shared. A client puts a head, the blank line that ends it and a body on
  `wire`, and a read takes some of those that have come; what it took beyond the request
  is dropped, so the next head of a client that pipelines may be cut short (`Garbled`).
  `asked` is the request a client waits on. Tokens are records with a validity; signatures are valid or not. The codec is a
  parameter (`Encode`, `Decode`); `VerifiedIdentity` is decoded by the unrolled
  `DecodeIdentityJson`, which the run compares with the codec of `JsonWire`.
* **KernelCalls, Workflow.** A thread is in one kernel call at a time, split where the
  code takes or gives up a table's lock. Handles are affine and may be moved to the other
  thread. Lowered workflow functions are the calls `workflow_lower.rs` generates; `path`
  is the history of an instance's states, `seen` how much of it an advance had read. A
  SQLite column converts what it is given by its affinity (`Affinity`: a number in a
  text column becomes a text, a numeric text in a number column a number), a Postgres
  column takes the types of its own.

The compiler passes are functions of a whole program. The specifications take them as
constant operators (`Build`, `Result`, `Typed`, `Supports`, `Emitted`, `Encode`, `Decode`), to which each
configuration gives the operator of the module that defines the pass.

## 3. Runs

| Run | Bounds | Distinct states | What it shows |
|---|---|---|---|
| `SpawnJoin` | 2 threads and main, a word channel and a handle channel, ceiling 1 or 2, 6 sends and receives | 732,000 | counters, boxes, handles; stalls are seen; clean exit |
| `SpawnJoinFalseDeadlock` | 3 operations | | finding |
| `ThreadPool` | 3 jobs, 3 workers, waits for any submitted job | 258,000 | no job lost, doubled, starved |
| `Connections` | 2 callers, 3 connections, one key per provider, `MaxSize` 2, 1 key under the cap, ceilings 2/1/2 | 201,000 | slots, pools, sessions; refinement of `AtomicAdmission` |
| `Transact` | 1 transaction, 2 processes, 2 sites, a build with both and one that dropped the first, 3 attempts | 15,000 | decision, rows, recovery |
| `CompiledProgram` | one compound statement with a statement before and after, blocks of up to two, 3 rounds of loops | 154,000 | memory safety, no leaks |
| `CheckedProgram` | words -8..7, narrow type -4..3, vectors of 2, 4 rounds of loops | 26,000 | guards, intervals, contracts |
| `CheckedProgramElided` | the same programs | | finding |
| `Frontend` | expressions of 3 forms over 32 locals, 11 declared types; 2,000 pairs of declarations | 45,000 | two inferences agree; layouts |
| `HttpClient` | 3 calls, of which 2 over TLS, 2 connections, five framings, ceiling 2 | 110,000 | at most once, own response, every call returns |
| `Served` | 3 connections from 2 addresses, one of which pipelines, 2 slots, 3 requests in up to 3 pieces, 2 per connection, clock 0..1, window, lifetimes and limit 1, 1 tracked address | 1,969,000 | gate, limit, redemption, answers |
| `Runtime` | 2 threads, 3 calls each, 6 mixes of calls, columns of 4 affinities and 6 types, clock 0..1 | 354,000 | handles, slots, results, transitions, calls return |

Why the bounds suffice. *SpawnJoin*: two threads and main are the least with a
cycle of joins that leaves main out, a handle passed to a third party, and a ceiling
reached by a sibling; the interesting behaviours need at most two messages per
participant. *ThreadPool*: three jobs give a parent, a child and a queued job behind
them, and any of the three may wait for any other; each worker is created for a job, so more workers than jobs change nothing.
*Connections*: two callers race for the registry, the last slot and one connection;
with one key under the cap a second plugin key is always dialled directly; three
connections let the reaper hold one while both callers have one. *Transact*:
transactions share nothing but the process, so one transaction with two processes,
which may both run and replay it, shows each interleaving; the proofs cover the rest.
*CompiledProgram*: one compound statement between two others reaches each pair of a move
and a later use on a path, and the second round of a loop; the blocks of two let a name
hide another. *CheckedProgram*: the passes compare against bounds only, so a word with
room beyond the narrow type on both sides shows each case. *Frontend*: three forms are a
constructor or branch in a branch or match around an operand; deeper nesting repeats the
same calls. *HttpClient*: the third call gets a connection that failed under one and was
handed to another. *Served*: one connection sends requests of every kind, one comes through a proxy,
evicts and pipelines, the third shares the first one's address and what it issued; three
requests fill a connection's two and leave one for another to race with; a body is one
piece, since a body that is missing in part is read like one that is missing whole; a
clock of two instants has a before and an after of each lifetime and of the window. *Runtime*: each mix gives the two threads the calls that meet on one
table; three calls open, use and stop.

Deadlock is not checked where programs, calls or statements end (all runs but
`Connections` and `Transact`); `StallIsDetected`, `NoSelfInflictedDeadlock`,
`EveryCallReturns` and `CallsReturn` say which stops are wrong. `Connections` uses symmetry on callers
and connections (its only temporal property is a safety property).

### Properties

* `CountersExact`, `HeldExact`: at every instant, in the middle of any calls, each
  counter is the number of things it stands for.
* `ResultBoxSafe`, `HandleResolves`: the raw result pointer and the handle table
  are used only while valid, whatever route the handle took.
* `StallIsDetected`, `DetectorExactForJoins`: when no participant can ever move again, one
  has seen it (but for the case `concurrency_thread_finished` documents), and a
  participant in a join was rightly counted.
* `CleanExit`: a program that moves no handle leaves nothing behind.
* `JobsNeitherLostNorDoubled`, `NoSelfInflictedDeadlock`, `AcceptedJobEnds`: the pool's
  promise, the last two while whoever waits does so for a job of its own (`WaitsForOwn`).
* `SlotCoversSession`, `OnePoolPerKey`, `SessionIsExclusive`, `NoConnectionLeaks`,
  `AcquireIsAtomic`: the connection kernels' promise.
* `OneOutcome`, `TerminalRowIsTrue`, `DecisionSurvives`, `FinishedStaysFinished`,
  `PendingIsFinished`: transact's promise.
* `MemorySafe`, `NothingLeaks`: what the ownership checker accepts never touches freed
  memory, and frees or hands on everything, on every path; outside the gaps of section 5.
* `ElidedGuardsHold`, `IntervalsHold`, `ContractVerdictIsTrue`: nothing a pass proves is false
  of a run; outside the shape of finding 2.
* `ShapesAgree`: where a value determines its type, codegen's inference gives the
  checker's type, up to integer widths. `PayloadsFit`, `FiniteLayout`: every accepted
  declaration has a finite layout, in which each payload fits in the words counted for it.
* `AtMostOnce`, `OwnResponse`, `EveryCallReturns`: the HTTP client's promise.
* `GateHolds`, `LimitHolds`, `HandleRedeemedOnce`, `AnswerIsTheReturn`: the server's
  promise, the last to clients that wait for their answers.
* `HandleIsOwn`, `SlotsExact`, `ResultIsTrue`, `MovesAreDeclared`, `CallsReturn`: the kernels'
  promise to the program.

### Fairness

* `ThreadPool`: weak fairness of a submitter's, a worker's and a job's next step, and
  of a wait that can end. None for timeouts, spurious wake-ups or new submissions.
* `Transact` (for `PendingIsFinished`): a running process makes progress; the
  operator keeps ending and starting the program, and from some time on does not
  kill it in its replay; the scan, the slots and the log writes succeed again and again
  when tried again and again (strong fairness). Each is needed: a slot that always
  fails leaves its row pending for ever, by design.
* `HttpClient`: weak fairness of each call's next step and of the server, which finally
  answers or closes; without the second the code waits for its peer, by design.
* `Runtime`: weak fairness of each thread's step, `tcp_accept` excepted, which waits for a peer.
  An operation that fails is an outcome of that step; a broker's failure is not assumed.
* The other runs state no fairness: their properties are safety properties.

## 4. Findings

Each is a run that TLC refutes, with the text it contradicts quoted in `PROJECT.json`.

1. **A stall is reported although a message has arrived** (`kernel/mod.rs:750`,
   `SpawnJoinFalseDeadlock`). A receiver counts as blocked until it has run again.
   Main waits in `recv`, a thread sends to it and then waits in `recv` itself: the process
   aborts. Joins alone do not have the problem (`DetectorExactForJoins`).
2. **A needed guard is left out** (`smt.rs:354`, `CheckedProgramElided`). An assignment in a
   branch replaces the variable's term for good: after `let d = a + 1; if a == 0 { d = 1 }`
   the solver takes `d` for 1, and `a / d` is emitted without its test for zero.

## 5. Known exceptions

What the models also show, or what reading for them showed, where the code falls short of a
comment or of the obvious property. The properties are stated outside these cases. Where no
premise of the property names the case, this list says what leaves it out.

Runtime kernels:
* A thread may be left unjoined (`ownership.rs:748`): its handle was sent on a channel nobody
  reads, or was the discarded result of a joined thread (`CleanExit`'s premise).
* The pool can deadlock itself when a job waits for one it did not submit
  (`thread_pool.rs:163`), although `49-53` and `60-66` call that structurally impossible:
  `idle_count` includes a worker already woken for another job. A worker is woken for j1;
  before it runs, j2 is queued for the same worker; it takes j1, which waits for j2 (a message,
  or a handle it was sent), and main waits for j2: no worker is left and none is made.
  Without the premise `WaitsForOwn` TLC refutes `NoSelfInflictedDeadlock` in 15 states.
* `call_via` uses a connection after giving it back (`plugin_provider.rs:364`).
* The instance lock holds on the first start only (`instance_lock.rs:57`): two later
  processes both get a shared lock. The theorems about `Transact` do not rely on it.
* `network` is not remembered across a crash (`codegen.rs:8893`).
* A connection whose response failed to parse goes back to the pool (`http.rs:479`, `517`),
  although `has_broken` is meant to prevent it (`http.rs:225-232`). `Framings` of the run has
  no chunk size that does not parse; `ResponsesAreOwn` has that as its hypothesis.
* Two threads that advance one workflow instance at once both succeed: state is read,
  acted upon and written in three calls under no common lock (`codegen.rs:9211-9328`). The
  later write moves the instance out of whatever state the earlier one left it in, a
  terminal one included, along what may be no edge. `MovesAreDeclared` asks for an edge out
  of the state the writer read, and for the present state to be that one only where nobody came
  between. Failing actions are ignored.
* `mq_consume` with timeout 0 holds the table of queues for ever, and then no publish can end the
  wait (the timeouts of the model are positive). A queue is last in, first out.
* `int2` and `int4` binds are truncated silently, and a SQLite column converts a value of
  another type (`Fits`: `ResultIsTrue` is about values their column can hold). Failing to open a socket or a file
  aborts the program. A `str` from `recv` points into a buffer that is used again.
* A workflow with link events never compiles (`__workflow_link_advance` is refused).

Ownership and frees (`gaps` in `CompiledProgram`):
* A loop condition that moves a box is touched once (`ownership.rs:533`), contrary to
  `ownership.rs:19-21` and `55-56`: the second test uses the moved box, a double free.
* An owner hidden by a `let` of the same name is freed twice at a `return`.
* Leaks: a value moved in one branch only (the right side of `&&` included), an owner
  overwritten by an assignment, the outer box of `*bb`, a discarded temporary.
* Files are never closed by a free; `froze` cells and channels are never freed.

Refinement passes:
* `call_args` narrows without a guard (`codegen.rs:4915-4930`); i64 overflow wraps unseen;
  `MIN / -1` is not guarded.
* `contract_check` forgets a return made on one of several paths. For a contract it cannot decide it
  says "enforced at runtime on every call instead" (`contract_check.rs:341-350`), and no
  check is emitted.
* `refine.rs` has the staleness of finding 2; only tests call it.

Types and layouts:
* The expected type does not reach "any nesting depth" (`codegen.rs:2496-2499`): an `else if`
  (`10752-10766`), an assignment of an aggregate (`5737-5743`) and a constructor argument
  that is no constructor (`2453`) are built without it: `p = Pair(1, 1)` with
  `p: Pair(i8, i8)` builds a `Pair(i64, i64)` and copies two bytes of it.
* With a literal on the left the result is i64: `[1 + x, x]` with `x: i8` becomes a
  `Vector(i64, 2)` (contrary to `2838-2844` and `3216`). `ShapesAgree` is therefore up to integer widths.
* `json` is counted as one word but is two (`749-761`): `Option(json)` writes past its buffer.
  `PayloadsFit` leaves json out.
* `local_ty_of` has no arm for `open`, `transact`, `send`, `stop`, `print` and `recv` from a file, and
  takes an `if` without `else` for its branch (`Unasked`). A `None` or `Ok` that nothing
  determines gets a placeholder type (`Determined`).
* `has_cyclic_layout` goes by name, and so refuses `Option(Option(t))` in a declaration. `check_supported` looks
  only at declared types, so some refusals, and a few panics (`box dec128`, a vector
  of `str`, a `match` of `str` with only `_`), come later, during emission.
* A negated `dec128` and an equality of `json` or boxes are emitted as 64-bit integer operations; the
  comparison of an r x n matrix covers n x n elements (`10207-10208`). A narrow `if` or
  `match` value is not widened (`3325`). Qualified `E::V` arms are not found.

Server:
* `/api/_demo_login` is answered before the rate limiter, although `lib.rs:143-144` counts it
  among the paths that are limited; `LimitHolds` counts what reaches the limiter (`granted`).
* An address evicted from a full table starts a fresh window (`LimitHolds` leaves out the
  addresses in `evicted`).
* What comes in the same read behind a request is dropped (`http.rs:121`), so a client that
  sends before it has its answer may lose a request, or have the rest of one read as another's
  head. In `AnswerIsTheReturn` only the answers' encoding is about such clients (`Pipelined`).
* A business error's body is not written (`codegen.rs:8298-8306` says it is); narrow JSON
  integers are truncated silently.
* `main` replays transactions before it binds, the listener's doc says after.
* `check_role` accepts a comma-separated list as a fallback; `acquire` with a claim compares the value
  only; an exchange takes its issue time from the caller.

## 6. Proofs

TLAPS checks these for every value of the constants, from the named `ASSUME`s
only (finite sets, distinct names, bounds at least 1).

* **`SpawnJoinProofs`**: `TypeCorrect`, `CountersCorrect`, `ResultBoxCorrect`,
  `HandlesCorrect`, `StallDetected`, `DetectorCorrect`, `ExitIsClean`. The counters are
  not inductive by themselves: which job a count stands for depends on where its spawner
  or joiner is, so the invariant fixes the shape of each call, the life cycle of each
  thread, and that a handle is in one place. `ExitIsClean` adds the guardians: while no
  handle has escaped, a job that is not joined is answered for by a participant that has
  not returned, and no set of jobs has all its guardians among its own, so the
  last one is main.
* **`ThreadPoolProofs`**: `PoolTyped`; `JobsExact`, from what each actor, job and worker
  knows of the others; `NoPoolDeadlock`, for states in which each wait is for a job
  the waiter submitted, whatever was waited for before. Its invariant says that a
  queued job is covered: some worker is idle, or is busy with a job none of whose
  descendants is queued. A job is queued only past an idle worker, and the worker that
  stops being idle does so with a job that has submitted nothing yet.
* **`ConnectionsProofs`**, on `Admission`: `HeldIsExact`; `AdmissionRefines`, that the
  compare-exchange loop implements `AtomicAdmission`. The refinement maps a caller in the
  loop to one that is still asking, unless the value it last read has reached the ceiling:
  then it is denied already, at the read, since by the time it returns a slot may be free
  again. That a read of the ceiling means every slot was taken needs `HeldExact`.
  On `Connections`: every step is a step of `Admission` or leaves it alone
  (`ConnectionsAdmit`), so the two theorems carry over; `ConnectionsTyped`;
  `SessionsPaidFor`, from an invariant that ties each label to the state of the caller's
  slot and to the locals it needs; `PoolIsOne`, `SessionsApart` and
  `ConnectionsNotLeaked`, from one that says, of each connection, the one place it is in.
* **`HttpClientProofs`**: `ExecutedAtMostOnce`, whatever the server sends: what an open
  connection has of a request is whole, and its call is past writing. `ResponsesAreOwn`
  and `HttpTyped` suppose that no framing is "bad". The invariant places
  each open connection in the response it carries: what the reader has, what has arrived
  and what is to come are, in order, the response to the reader's request; a connection
  nobody reads is silent, but for the body of a response that ends with the connection,
  and its arrival closes it; a closed one carries no head but its reader's. With a chunk
  size that does not parse, `read_http_response` returns without `should_close`
  (`http.rs:479`, `http.rs:517`), the connection goes back to its pool with the rest of the
  response on it, and the next call may be given that rest. Hence the hypothesis.
* **`TransactProofs`**: `TransactTyped`, `OutcomeUnique`, `RowsTrue`, `DecisionDurable`,
  `FinishedIsFinal`, for any number of processes running and replaying at once.
  The invariant is stated per transaction. What a replay will do comes from rows it
  scanned earlier, what a retry loop does from the branch that entered it, and neither is visible
  in the row at the time; so it says that scanned rows and running
  slots agree with the verdict and the log, and that a block before its branch is
  alone with its transaction.
* **`RuntimeProofs`**: `HandlesAreOwn` and `SlotsAreExact`, from `KernelInvariance`. A
  resource is claimed by the thread that owns a handle of it or, between a mint and its
  insert and between a stop and its removal, by the call in progress. The invariant says
  that claims are of different resources, that a claimed resource is where its handle says,
  and that a table maps different numbers to different resources. A database handle is
  looked up in two tables, so it also needs that their numbers do not meet: every number
  costs one of the calls the threads may still make (`Unminted`), and `PluginStart` is above
  all of them. `MovesDeclared` has no premise on who advances what: its invariant ties what an
  advance carries to `path`, the states its instance was in up to the read (`seen`), so the
  edge that was looked up is one out of the last of these, and the present state is the last
  of `path`. `ResultsAreTrue`: every value a call returns is built of
  texts that have been written, through every kernel, wrapper and accessor; and a row read
  back is the value that was bound, because a cell holds what its database and its column, by affinity or
  by type, make of a bind it was sent, and a statement in progress keeps the binds it came with (`ResultInv`). It
  supposes, of the inputs, that their texts are written (`TextsWritten`), that binds and
  columns are of the types the compiler emits (`BindsType`, `ColumnsType`), and
  `NumbersParams`: the scan of a statement for `?` finds the parameters SQL sees in it. That
  scan is a fold over characters; for the statements of the run TLC evaluates it, with
  quotes and comments among them.
* **`ServedProofs`**: `GateKept`, `LimitKept`, `RedeemedOnce`, `AnswerKept`. `GateKept` needs
  that every identity in the system has the subject and claims of a genuine token: the one
  the header resolved to, the one the wrapper decoded from its own JSON, those in sessions.
  It rests on `Unforgeable` (what verifies under a configured key was issued by the
  provider, and a token's claims are an object) and on `RoutesType` (only functions with a
  requirement are acquired, which `typeck.rs` checks). An identity made from an API key has
  no claims, so no proof, and opens nothing. `LimitKept` is about an address that
  was never forgotten: its grants but those of the current window are older than the
  window, and those but `RateMax` are older by more than a window. `RedeemedOnce`: a handle's
  record is marked exactly when it has been redeemed. `AnswerKept` (`AnswerIsTheReturn`): while
  a client waits, what its connection's thread has read and what is on the wire are together,
  in order, the pieces of the request it asked for, or the thread has read it all and nothing
  else is on the wire (`WaitInv`), so neither a cut between two pieces nor the bytes dropped
  behind a request can mix requests; and from then to the reply what the connection
  holds is of that request, so the function that the path names gets the arguments the body
  carries and its return is what is answered.
  It is proved for any codec whose decoders undo its encoders (`CodecIsExact`) and any
  functions that return a value of their type (`FunctionsTyped`); TLC evaluates both for
  `JsonWire`'s recursive codec. The other three hold for any codec.
* **`Intervals`**: `IntervalsSound`: if an interval contains each of two values, the one that
  interval analysis computes for their sum, difference, product, negation, or for the join of
  two branches contains the result, unless that is beyond the ends of `i128`; saturating at
  these ends widens an interval and never narrows it, as `refine.rs:74-76` claims.
  `GuardsUnneeded`: what the pass concludes from an interval (no overflow of the type, no
  zero divisor, no index out of bounds) is so of every value in it. Both are for every
  `Limit`. The walk over the syntax tree that applies them is recursive and stays with
  TLC (`IntervalsHold`, `ElidedGuardsHold`).

Every inductive invariant was model-checked on the run's instance before it was proved.
Type correctness of these is a theorem and is not repeated as an invariant of the runs.

Only model-checked: liveness (`AcceptedJobEnds`, `PendingIsFinished`, `EveryCallReturns`,
`CallsReturn`), which is out of the prover's reach; everything about whole runs of the
compiler passes (`MemorySafe`, `NothingLeaks`, `ElidedGuardsHold`, `IntervalsHold`,
`ContractVerdictIsTrue`, `FiniteLayout`, `ShapesAgree`, `PayloadsFit`), which are recursive
functions of syntax trees and need induction over data, beyond the prover; and, for the
same reason, `JsonWire`'s codec and the placeholder scan, of which `AnswerKept` and
`ResultsAreTrue` suppose what TLC evaluates.

## 7. Not modelled

* The unpooled `:memory:` database, pool settings from the environment, SQL text, and the
  statistics beside `held`.
* The key cap as an exact bound: the lookup, the count and the insertion are three lock
  acquisitions and concurrent callers can exceed it by one each.
* Argument encoding in the transact log; rebuilds that renumber sites (disclosed by
  ADR 0009) or drop only a compensate slot.
* The text of things: SQL beyond its quotes and markers, HTTP headers, IR syntax, messages. The lexer,
  parser, loader, migrations, generators, console and command line are sequential functions
  from text to text.
* The arithmetic inside a matrix or decimal builtin: only its types are modelled.
* The effect checker, and typeck's checks of declarations.
* The flight recorder and the NFR statistics: they observe, and change nothing a program
  sees. A page may be flushed while an event is pushed (`recorder.rs:77`); no property covers it.
* The presence gateway, a server of its own.
* Password hashing and signatures: a token's signature is valid or not.

## 8. Plan

1. Proofs: type correctness of the server and of the kernel calls; what the layout
   operators of the compiler return on one step of their recursion.
2. The presence gateway: registry, reconnects, broadcast.
3. The recorder's pages and the flush at exit; the effect checker's fixpoint.
