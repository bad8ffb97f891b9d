---------------------------- MODULE KernelCalls ----------------------------
(***************************************************************************)
(* Threads of a compiled program calling the resource kernels: sockets and *)
(* files are operating-system descriptors; database and queue connections  *)
(* are numbers minted by handle tables. Opening costs a slot of the        *)
(* domain, stop gives it back. A table's lock is held for as long as the   *)
(* operation on the connection runs. Handles are affine: one owner each,   *)
(* who may move them to another thread. Admission itself is one step here: *)
(* Admission shows that it may be.                                         *)
(***************************************************************************)
EXTENDS Builtins, Rows

CONSTANTS
  Threads, Nil,
  Fds,          \* the operating system's descriptors
  Ceiling,      \* domain |-> NIRDOSHA_KERNEL_MAX_*
  PluginStart,  \* where the plugin table's numbers begin (1 << 62)
  Mixes,        \* what the threads' code may call: thread |-> calls, each
  MaxCalls,     \* bound: calls per thread
  Statements,   \* SQL statements: [chars, params], params as SQL reads them
  Binds,        \* what the program binds: [ty, v], or Nil for no `?` argument
  Timeouts      \* what the program passes to mq_consume

Domains == {"tcp", "file", "db", "plugin", "mq"}
Tables  == {"db", "plugin", "mq"}

ASSUME KernelCallsType ==
  /\ Ceiling \in [Domains -> Nat \ {0}] /\ MaxCalls \in Nat
  /\ PluginStart \in Nat /\ PluginStart > MaxCalls * Cardinality(Threads)
  /\ IsFiniteSet(Threads)
  /\ IsFiniteSet(Fds) /\ Fds \subseteq Nat /\ Timeouts \subseteq Nat

\* typeck.rs: a `?` argument is an i64, a finite or other f64, a str or a bool.
ASSUME BindsType ==
  \A x \in Binds \ {Nil} :
    \/ x.ty = "i64" /\ x.v.n \in Word /\ x.v = Val(x.v.n)
    \/ x.ty = "f64" /\ x.v.n \in Int /\ (Finite(x.v) => x.v = Val(x.v.n))
    \/ x.ty = "str" /\ x.v = StrVal(x.v.kids[1])
    \/ x.ty = "bool" /\ x.v \in {Val(0), Val(1)}

VARIABLES
  fds,      \* descriptor |-> the resource behind it, for the open ones
  held,     \* slots taken in each domain
  table,    \* HandleTable: [next, map] for each of Tables
  lock,     \* who holds a table's mutex
  call,     \* what each thread is doing inside a kernel
  mine,     \* the handles each thread owns: [d, h, r]
  made,     \* what each resource is, in the order they were opened
  cell,     \* the one row of each database: Nil, or what was bound and stored
  queue,    \* messages in Redis
  calls,    \* the one of Mixes that this program is
  left,     \* calls each thread may still make
  result,   \* what the last kernel call gave the program
  aborted

kernelVars == <<fds, held, table, lock, call, mine, made, cell, queue, calls,
                left, result, aborted>>

Including(f, x, v) == [y \in {x} \cup DOMAIN f |-> IF y = x THEN v ELSE f[y]]
Without(f, x)      == [y \in DOMAIN f \ {x} |-> f[y]]

Call(k, at, d, h, r, arg) == [k |-> k, at |-> at, d |-> d, h |-> h, r |-> r, arg |-> arg]
Idle == Call("none", "idle", "none", 0, 0, Nil)

\* Mutant: every table mints from one.
TableStartAtOne == [db |-> 1, plugin |-> 1, mq |-> 1]

TableStart == [db |-> 1, plugin |-> PluginStart, mq |-> 1]

KernelInit ==
  /\ fds = <<>> /\ held = [d \in Domains |-> 0]
  /\ table = [n \in Tables |-> [next |-> TableStart[n], map |-> <<>>]]
  /\ lock = [n \in Tables |-> Nil] /\ call = [t \in Threads |-> Idle]
  /\ mine = [t \in Threads |-> {}] /\ made = <<>>
  /\ cell = [b \in {"sqlite", "postgres"} |-> Nil] /\ queue = 0
  /\ calls \in Mixes /\ left = [t \in Threads |-> MaxCalls] /\ result = Nil /\ aborted = FALSE

-----------------------------------------------------------------------------
(* Calling and returning                                                   *)

Raw(d) == d \in {"tcp", "file"}     \* answers -1 where the others write an Err

Begin(t, k) == /\ call[t] = Idle /\ left[t] > 0 /\ k \in calls[t]
               /\ UNCHANGED calls /\ left' = [left EXCEPT ![t] = @ - 1]

Enter(t, c) == call' = [call EXCEPT ![t] = c] /\ result' = Nil
GoTo(t, at) == call' = [call EXCEPT ![t].at = at] /\ result' = Nil

Gives(v)      == [v |-> v, row |-> Nil, refused |-> Nil]
Return(t, r)  == call' = [call EXCEPT ![t] = Idle] /\ result' = r

\* Dump the flight recorder and abort.
Trap(t) == aborted' = TRUE /\ Return(t, Nil)

GuardIoOk(n)   == n >= 0
GuardRecvOk(n) == n > 0

EmitConnect(d, r) == IF d = "mq" THEN EmitMqConnect(r) ELSE EmitDbConnect(r)
GiveUp(t, d) == IF Raw(d) THEN ~GuardIoOk(-1) /\ Trap(t)
                ELSE Return(t, Gives(EmitConnect(d, Failed))) /\ UNCHANGED aborted

-----------------------------------------------------------------------------
(* Opening: bad arguments and a full domain first, then the resource.      *)

Opens == [tcp_connect |-> "stream", tcp_listen |-> "listener",
          tcp_accept |-> "stream", file_open |-> "file", sqlite |-> "sqlite",
          postgres |-> "postgres", plugin |-> "plugin", mq_connect |-> "redis"]

\* db_connect: a scheme that is not built in is a plugin's.
IsBuiltinScheme(k) == k \in {"sqlite", "postgres"}

DomainOf(k) == CASE k \in {"tcp_connect", "tcp_listen", "tcp_accept"} -> "tcp"
                 [] k = "file_open"  -> "file"
                 [] k = "mq_connect" -> "mq"
                 [] OTHER -> IF IsBuiltinScheme(k) THEN "db" ELSE "plugin"

BadArgument(t, k) ==
  /\ Begin(t, k) /\ k \in DOMAIN Opens \ {"tcp_accept"}
  /\ GiveUp(t, DomainOf(k))
  /\ UNCHANGED <<fds, held, table, lock, mine, made, cell, queue>>

Admit(t, k) ==
  LET d == DomainOf(k)
  IN  /\ Begin(t, k) /\ k \in DOMAIN Opens
      /\ k = "tcp_accept" => \E m \in mine[t] : made[m.r] = "listener"
      /\ IF held[d] < Ceiling[d]
           THEN /\ held' = [held EXCEPT ![d] = @ + 1]
                /\ Enter(t, Call(k, "opening", d, 0, 0, Nil))
                /\ UNCHANGED aborted
           ELSE GiveUp(t, d) /\ UNCHANGED held
      /\ UNCHANGED <<fds, table, lock, mine, made, cell, queue>>

\* Mutant: only the descriptor kernels give the slot back.
OpenFailsKeepingSlot(t) ==
  /\ call[t].at = "opening"
  /\ held' = [held EXCEPT ![call[t].d] = IF Raw(call[t].d) THEN @ - 1 ELSE @]
  /\ GiveUp(t, call[t].d)
  /\ UNCHANGED <<fds, table, lock, mine, made, cell, queue, calls, left>>

\* The operating system, or the file mode, refuses.
OpenFails(t) ==
  /\ call[t].at = "opening"
  /\ held' = [held EXCEPT ![call[t].d] = @ - 1]
  /\ GiveUp(t, call[t].d)
  /\ UNCHANGED <<fds, table, lock, mine, made, cell, queue, calls, left>>

Fresh == Len(made) + 1
Owned(d, h, r) == [d |-> IF d = "plugin" THEN "db" ELSE d, h |-> h, r |-> r]

OpenFd(t) ==
  /\ call[t].at = "opening" /\ Raw(call[t].d)
  /\ \E fd \in Fds \ DOMAIN fds :
       /\ fds' = Including(fds, fd, Fresh)
       /\ mine' = [mine EXCEPT ![t] = @ \cup {Owned(call[t].d, fd, Fresh)}]
  /\ made' = Append(made, Opens[call[t].k])
  /\ Return(t, Nil)
  /\ UNCHANGED <<held, table, lock, cell, queue, calls, left, aborted>>

\* HandleTable::insert: the number first, the entry under the lock.
Mint(t) ==
  LET d == call[t].d
  IN  /\ call[t].at = "opening" /\ ~Raw(d)
      /\ table' = [table EXCEPT ![d].next = @ + 1]
      /\ made' = Append(made, Opens[call[t].k])
      /\ Enter(t, Call(call[t].k, "insert", d, table[d].next, Fresh, Nil))
      /\ UNCHANGED <<fds, held, lock, mine, cell, queue, calls, left, aborted>>

Insert(t) ==
  LET c == call[t]
  IN  /\ c.at = "insert" /\ lock[c.d] = Nil
      /\ table' = [table EXCEPT ![c.d].map = Including(@, c.h, c.r)]
      /\ mine' = [mine EXCEPT ![t] = @ \cup {Owned(c.d, c.h, c.r)}]
      /\ Return(t, Gives(EmitConnect(c.d, Found(c.h))))
      /\ UNCHANGED <<fds, held, lock, made, cell, queue, calls, left, aborted>>

-----------------------------------------------------------------------------
(* Closing                                                                 *)

\* The descriptor goes before its slot does.
Stop(t, m) ==
  /\ Begin(t, "stop") /\ m \in mine[t]
  /\ mine' = [mine EXCEPT ![t] = @ \ {m}]
  /\ fds' = IF Raw(m.d) THEN Without(fds, m.h) ELSE fds
  /\ Enter(t, Call("stop", IF Raw(m.d) THEN "release" ELSE "remove", m.d, m.h, m.r, Nil))
  /\ UNCHANGED <<held, table, lock, made, cell, queue, aborted>>

\* nir_db_stop looks in the core table first, then in the plugins'.
RemoveEntry(t) ==
  LET c == call[t]
  IN  /\ c.at = "remove" /\ lock[c.d] = Nil
      /\ IF c.h \in DOMAIN table[c.d].map
           THEN /\ table' = [table EXCEPT ![c.d].map = Without(@, c.h)]
                /\ GoTo(t, "release")
           ELSE /\ UNCHANGED table
                /\ IF c.d = "db" THEN Enter(t, [c EXCEPT !.d = "plugin"])
                                 ELSE Return(t, Nil)
      /\ UNCHANGED <<fds, held, lock, mine, made, cell, queue, calls, left, aborted>>

Release(t) ==
  /\ call[t].at = "release"
  /\ held' = [held EXCEPT ![call[t].d] = @ - 1]
  /\ Return(t, Nil)
  /\ UNCHANGED <<fds, table, lock, mine, made, cell, queue, calls, left, aborted>>

-----------------------------------------------------------------------------
(* Reading and writing descriptors: the bytes moved, or -1.                *)

Stream(t, m) == Begin(t, "io") /\ m \in mine[t] /\ Raw(m.d) /\ made[m.r] # "listener"

SendTo(t, m) ==
  /\ Stream(t, m)
  /\ \E n \in {-1, 1} : IF GuardIoOk(n) THEN Return(t, Nil) /\ UNCHANGED aborted
                         ELSE Trap(t)
  /\ UNCHANGED <<fds, held, table, lock, mine, made, cell, queue>>

\* No bytes: the end of a file, and a trap on a socket.
RecvFrom(t, m) ==
  /\ Stream(t, m)
  /\ \E n \in {-1, 0, 1} :
       IF IF m.d = "tcp" THEN GuardRecvOk(n) ELSE GuardIoOk(n)
         THEN Return(t, Nil) /\ UNCHANGED aborted ELSE Trap(t)
  /\ UNCHANGED <<fds, held, table, lock, mine, made, cell, queue>>

-----------------------------------------------------------------------------
(* Operations on a connection, under the lock of the table it is found in. *)

Use(t, m, k, arg) ==
  /\ Begin(t, k) /\ m \in mine[t]
  /\ m.d = IF k \in {"mq_publish", "mq_consume"} THEN "mq" ELSE "db"
  /\ Enter(t, Call(k, "lock", m.d, m.h, m.r, arg))
  /\ UNCHANGED <<fds, held, table, lock, mine, made, cell, queue, aborted>>

With(t, missing) ==
  LET c == call[t]
  IN  /\ c.at = "lock" /\ lock[c.d] = Nil
      /\ IF c.h \in DOMAIN table[c.d].map
           THEN lock' = [lock EXCEPT ![c.d] = t] /\ GoTo(t, "op")
           ELSE /\ UNCHANGED lock
                /\ IF c.d = "db" /\ c.k \in {"db_execute", "db_query"}
                     THEN Enter(t, [c EXCEPT !.d = "plugin"])
                     ELSE Return(t, Gives(missing))
      /\ UNCHANGED <<fds, held, table, mine, made, cell, queue, calls, left, aborted>>

Ops == {"db_execute", "db_query", "mq_publish", "mq_consume"}
Running(t, k) == call[t].at = "op" /\ call[t].k = k
Behind(t)     == made[table[call[t].d].map[call[t].h]]

Finish(t, r) ==
  /\ lock' = [lock EXCEPT ![call[t].d] = Nil] /\ Return(t, r)
  /\ UNCHANGED <<fds, held, table, mine, made, calls, left, aborted>>

EmitOp(k, r) == CASE k = "db_execute" -> EmitDbExecute(r) [] k = "db_query" -> EmitDbQuery(r)
                  [] k = "mq_publish" -> EmitMqPublish(r) [] k = "mq_consume" -> EmitMqConsume(r)

\* The server, or the driver, answers with an error.
OpFails(t, k) ==
  Running(t, k) /\ Finish(t, Gives(EmitOp(k, Failed))) /\ UNCHANGED <<cell, queue>>

\* plugin_provider::op takes no bind values; its text must be a row count.
PluginExecute(t) ==
  /\ Running(t, "db_execute") /\ Behind(t) = "plugin"
  /\ \E decimal \in BOOLEAN :
       Finish(t, Gives(EmitDbExecute(When(call[t].arg.x = Nil /\ decimal, 1))))
  /\ UNCHANGED <<cell, queue>>

PluginQuery(t) ==
  /\ Running(t, "db_query") /\ Behind(t) = "plugin"
  /\ Finish(t, Gives(EmitDbQuery(When(call[t].arg.x = Nil, Words("rows")))))
  /\ UNCHANGED <<cell, queue>>

\* What the server says of a statement whose ?s are not as many as its binds.
Refused(k, stmt, x) ==
  [Gives(EmitOp(k, Failed)) EXCEPT !.refused = [stmt |-> stmt, x |-> x]]
Takes(b, stmt, x) ==
  (IF x = Nil THEN 0 ELSE 1) =
  (IF b = "postgres" THEN RewritePlaceholders(stmt.chars) ELSE stmt.params)

\* Stores the bound value, as the database takes it.
DbExecute(t) ==
  LET b == Behind(t)
      x == call[t].arg.x
      bound == EmitDbBinds(x)
      Put(sv, col) ==
        /\ cell' = [cell EXCEPT ![b] = [sent |-> x, col |-> col, sv |-> sv]]
        /\ Finish(t, Gives(EmitDbExecute(Found(1))))
      Keep(r) == UNCHANGED cell /\ Finish(t, r)
  IN  /\ Running(t, "db_execute") /\ b \in DOMAIN cell /\ UNCHANGED queue
      /\ \/ ~Takes(b, call[t].arg.stmt, x) /\ Keep(Refused("db_execute", call[t].arg.stmt, x))
         \/ /\ Takes(b, call[t].arg.stmt, x) /\ x = Nil
            /\ Keep(Gives(EmitDbExecute(Found(0))))
         \/ /\ Takes(b, call[t].arg.stmt, x) /\ x # Nil /\ b = "sqlite"
            /\ \E col \in Affinities : Put(Affinity(BindValuesFromRaw(bound), col), col)
         \/ /\ Takes(b, call[t].arg.stmt, x) /\ x # Nil /\ b = "postgres"
            /\ \E col \in DOMAIN PgColumns :
                 LET w == ToSql(PgBindValuesFromRaw(bound), col)
                 IN  IF w.found THEN Put(w.out, col)
                     ELSE Keep(Gives(EmitDbExecute(Failed)))

RowJson(b, sv) == IF b = "sqlite" THEN SqliteRowToJson(sv) ELSE PgRowToJson(sv)

\* The accessor the program reads a column of that type with.
Accessor(ty, row) ==
  CASE ty = "i64" -> EmitJsonGetI64(row, "c") [] ty = "f64" -> EmitJsonGetF64(row, "c")
    [] ty = "str" -> EmitJsonGetStr(row, "c") [] ty = "bool" -> EmitJsonGetBool(row, "c")

\* Every row an object, all of them an array; the program takes the first
\* and reads its column.
DbQuery(t) ==
  LET b    == Behind(t)
      c    == cell[b]
      rows == IF c = Nil THEN <<>> ELSE <<JObj([c |-> RowJson(b, c.sv)])>>
      ans  == Gives(EmitDbQuery(Found(JArr(rows))))
      first == EmitJsonArrayGet(JArr(rows), 0).kids[1].kids[1]
  IN  /\ Running(t, "db_query") /\ b \in DOMAIN cell /\ UNCHANGED <<cell, queue>>
      /\ IF ~Takes(b, call[t].arg.stmt, call[t].arg.x)
           THEN Finish(t, Refused("db_query", call[t].arg.stmt, call[t].arg.x))
         ELSE IF c = Nil THEN Finish(t, ans)
         ELSE Finish(t, [ans EXCEPT !.row = [sent |-> c.sent, col |-> c.col,
                                             got |-> Accessor(c.sent.ty, first)]])

\* LPUSH
MqPublish(t) ==
  /\ Running(t, "mq_publish") /\ queue' = queue + 1
  /\ Finish(t, Gives(EmitMqPublish(Found(0)))) /\ UNCHANGED cell

\* BLPOP, with the table's lock held until it answers.
MqConsume(t) ==
  /\ Running(t, "mq_consume") /\ queue > 0 /\ queue' = queue - 1
  /\ Finish(t, Gives(EmitMqConsume(Found(Words("message")))))
  /\ UNCHANGED cell

\* Mutant: BLPOP is always given 0, which waits for ever.
MqConsumeTimesOutNever(t) == FALSE

\* A timeout of 0 waits for ever.
MqConsumeTimesOut(t) ==
  /\ Running(t, "mq_consume") /\ queue = 0 /\ call[t].arg > 0
  /\ Finish(t, Gives(EmitMqConsume(Failed))) /\ UNCHANGED <<cell, queue>>

-----------------------------------------------------------------------------
\* spawn moves the handle into the thread that will use it.
Move(t, u, m) ==
  /\ call[t] = Idle /\ m \in mine[t] /\ u # t
  /\ mine' = [mine EXCEPT ![t] = @ \ {m}, ![u] = @ \cup {m}] /\ result' = Nil
  /\ UNCHANGED <<fds, held, table, lock, call, made, cell, queue, calls, left, aborted>>

\* A builtin without state; bound: as a thread's first call, since nothing
\* that it returns depends on the others.
CallBuiltin(t) ==
  /\ Begin(t, "builtin") /\ left[t] = MaxCalls
  /\ \E v \in BuiltinValues : Return(t, Gives(v))
  /\ UNCHANGED <<fds, held, table, lock, mine, made, cell, queue, aborted>>

KernelBegin(t) ==
  \/ \E k \in DOMAIN Opens : BadArgument(t, k) \/ Admit(t, k)
  \/ \E m \in mine[t] :
       \/ Stop(t, m) \/ SendTo(t, m) \/ RecvFrom(t, m) \/ Use(t, m, "mq_publish", Nil)
       \/ \E n \in Timeouts : Use(t, m, "mq_consume", n)
       \/ \E s \in Statements, x \in Binds, k \in {"db_execute", "db_query"} :
            Use(t, m, k, [stmt |-> s, x |-> x])
       \/ \E u \in Threads : Move(t, u, m)
  \/ CallBuiltin(t)

KernelStep(t) ==
  \/ OpenFails(t) \/ OpenFd(t) \/ Mint(t) \/ Insert(t)
  \/ RemoveEntry(t) \/ Release(t)
  \/ call[t].k \in Ops /\ With(t, EmitOp(call[t].k, Failed))
  \/ \E k \in Ops \ {"mq_consume"} : OpFails(t, k)
  \/ PluginExecute(t) \/ PluginQuery(t) \/ DbExecute(t) \/ DbQuery(t)
  \/ MqPublish(t) \/ MqConsume(t) \/ MqConsumeTimesOut(t)
=============================================================================
