---------------------------- MODULE Connections ----------------------------
(***************************************************************************)
(* Database and plugin connections: the keyed registries of r2d2 pools     *)
(* (kernel/pool.rs), the core `db` path (kernel/db.rs, nir_db_connect and  *)
(* nir_db_stop of lib.rs), the plugin path with its key cap and unpooled   *)
(* fallback (kernel/plugin_provider.rs), `call_via`, and the reaper's      *)
(* sweep (kernel/reaper.rs), all bracketed by module Admission's counters. *)
(*                                                                         *)
(* A caller is a thread that opens a session, uses it and stops it, or     *)
(* makes one call_via request. A key stands for a connection string; its   *)
(* provider is the core `db`, a plugin of `conn` shape or one of `call`    *)
(* shape. All plugin providers share one registry and one key cap.         *)
(* r2d2 itself is external: Get*, OpenConnection, IdleExpires, CheckIn     *)
(* model what its get(), background opener, idle timeout and put_back do.  *)
(***************************************************************************)
EXTENDS Admission

CONSTANTS
  CoreKeys,   \* connection strings with a built-in scheme
  ConnKeys,   \* URLs of a plugin registered for db_connect
  CallKeys,   \* URLs of a plugin registered for call_via
  Conns,      \* physical connections that may exist at a time
  MaxSize,    \* PoolConfig.max_size as configured
  MaxKeys,    \* NIRDOSHA_KERNEL_POOL_MAX_KEYS
  Direct      \* the home of a connection dialled outside any pool

ASSUME KeysDistinct ==
  /\ CoreKeys \cap (ConnKeys \cup CallKeys) = {} /\ ConnKeys \cap CallKeys = {}
  /\ None # Direct /\ {None, Direct} \cap (Conns \cup Callers \cup (Callers \X (CoreKeys \cup ConnKeys \cup CallKeys))) = {}
ASSUME DomainsOfProviders == Domains = {"db", "conn", "call"}
ASSUME ConnsFinite == IsFiniteSet(Conns)
ASSUME Sizes == MaxSize \in Nat \ {0} /\ MaxKeys \in Nat \ {0}

Keys       == CoreKeys \cup ConnKeys \cup CallKeys
PluginKeys == ConnKeys \cup CallKeys
\* The pool a caller builds for a key; at most one is ever installed.
Pools      == Callers \X Keys
Provider(k) == IF k \in CoreKeys THEN "db" ELSE IF k \in ConnKeys THEN "conn" ELSE "call"

VARIABLES
  pc,        \* where each caller is
  key,       \* the key it connects to
  conn,      \* the connection it uses: checked out, dialled, or call_via's `raw`
  registry,  \* PoolRegistry.pools
  home,      \* of each physical connection: its pool, Direct, None (closed)
  idle,      \* the connections in their pool's idle list
  swept      \* the connection the reaper holds, if any

vars == <<admission, pc, key, conn, registry, home, idle, swept>>

Go(p, l)   == pc' = [pc EXCEPT ![p] = l]
\* The call is over, or the session; its locals are gone.
Return(p)  == /\ Go(p, "idle")
              /\ key' = [key EXCEPT ![p] = None]
              /\ conn' = [conn EXCEPT ![p] = None]
Idle(q)    == {c \in idle : home[c] = q}
Pooled(q)  == {c \in Conns : home[c] = q}
\* A name is not given to a new connection while some caller still uses it.
Free       == {c \in Conns : home[c] = None /\ \A p \in Callers : conn[p] # c}
\* max_size after clamp_max_size_to_ceiling / plugin_pool_config.
PoolMax(k) == IF MaxSize > Ceiling[Provider(k)] THEN Ceiling[Provider(k)] ELSE MaxSize

Init ==
  /\ AdmInit
  /\ pc = [p \in Callers |-> "idle"]
  /\ key = [p \in Callers |-> None]
  /\ conn = [p \in Callers |-> None]
  /\ registry = [k \in Keys |-> None]
  /\ home = [c \in Conns |-> None]
  /\ idle = {} /\ swept = None

-----------------------------------------------------------------------------
(***************************************************************************)
(* Finding the pool.                                                       *)
(***************************************************************************)
\* kernel::db::connect: admission first, then the pool.
db_connect(p, k) ==
  /\ pc[p] = "idle" /\ k \in CoreKeys
  /\ AcquireCall(p, "db")
  /\ key' = [key EXCEPT ![p] = k]
  /\ Go(p, "admit_core")
  /\ UNCHANGED <<conn, registry, home, idle, swept>>

\* connect_conn_shape and call_via: the pool first, then admission.
connect_plugin(p, k) ==
  /\ pc[p] = "idle" /\ k \in PluginKeys
  /\ key' = [key EXCEPT ![p] = k]
  /\ Go(p, "has_key")
  /\ UNCHANGED <<admission, conn, registry, home, idle, swept>>

\* checkout_with_key_cap: contains_key and pool_count are two lock acquisitions.
HasKey(p) ==
  /\ pc[p] = "has_key"
  /\ Go(p, IF registry[key[p]] # None THEN "lookup" ELSE "count")
  /\ UNCHANGED <<admission, key, conn, registry, home, idle, swept>>

pool_count == Cardinality({k \in PluginKeys : registry[k] # None})

UnderCap(p) ==
  /\ pc[p] = "count" /\ pool_count < MaxKeys
  /\ Go(p, "lookup")
  /\ UNCHANGED <<admission, key, conn, registry, home, idle, swept>>

\* Past the cap: AdmissionGrant::acquire, then a dial outside any pool.
OverCap(p) ==
  /\ pc[p] = "count" /\ pool_count >= MaxKeys
  /\ AcquireCall(p, Provider(key[p]))
  /\ Go(p, "admit_direct")
  /\ UNCHANGED <<key, conn, registry, home, idle, swept>>

\* get_or_create, first lock.
Lookup(p) ==
  /\ pc[p] = "lookup"
  /\ Go(p, IF registry[key[p]] # None THEN "found" ELSE "build")
  /\ UNCHANGED <<admission, key, conn, registry, home, idle, swept>>

\* Mutant: no second look before the insert.
InstallUnchecked(p) ==
  /\ pc[p] = "build"
  /\ registry' = [registry EXCEPT ![key[p]] = <<p, key[p]>>]
  /\ Go(p, "found")
  /\ UNCHANGED <<admission, key, conn, home, idle, swept>>

\* get_or_create, second lock: the pool built without the lock is installed
\* unless another caller was first, whose pool is used instead.
Install(p) ==
  /\ pc[p] = "build"
  /\ registry' = [registry EXCEPT ![key[p]] = IF @ = None THEN <<p, key[p]>> ELSE @]
  /\ Go(p, "found")
  /\ UNCHANGED <<admission, key, conn, home, idle, swept>>

\* make_manager fails: a malformed Postgres URL. Only the core path has one.
BuildFails(p) ==
  /\ pc[p] = "build" /\ key[p] \in CoreKeys
  /\ Go(p, "undo")
  /\ UNCHANGED <<admission, key, conn, registry, home, idle, swept>>

FoundCore(p) ==
  /\ pc[p] = "found" /\ key[p] \in CoreKeys
  /\ Go(p, "get")
  /\ UNCHANGED <<admission, key, conn, registry, home, idle, swept>>

FoundPlugin(p) ==
  /\ pc[p] = "found" /\ key[p] \in PluginKeys
  /\ AcquireCall(p, Provider(key[p]))
  /\ Go(p, "admit_pooled")
  /\ UNCHANGED <<key, conn, registry, home, idle, swept>>

-----------------------------------------------------------------------------
(***************************************************************************)
(* Admission.                                                              *)
(***************************************************************************)
Admit(p) == acquire(p) /\ UNCHANGED <<pc, key, conn, registry, home, idle, swept>>

Admitted(p) ==
  /\ adm[p] = "granted"
  /\ \/ pc[p] = "admit_core"   /\ Go(p, "lookup")
     \/ pc[p] = "admit_pooled" /\ Go(p, "get")
     \/ pc[p] = "admit_direct" /\ Go(p, "dial")
  /\ UNCHANGED <<admission, key, conn, registry, home, idle, swept>>

\* Mutant: the error path releases a slot this caller was never granted.
RefusedReleases(p) ==
  /\ pc[p] \in {"admit_core", "admit_pooled", "admit_direct"}
  /\ adm[p] = "denied"
  /\ adm' = [adm EXCEPT ![p] = "idle"]
  /\ held' = [held EXCEPT ![dom[p]] = @ - 1]
  /\ dom' = [dom EXCEPT ![p] = None]
  /\ Return(p)
  /\ UNCHANGED <<seen, registry, home, idle, swept>>

\* "too many concurrently held connections": nothing to undo.
Refused(p) ==
  /\ pc[p] \in {"admit_core", "admit_pooled", "admit_direct"}
  /\ DenialReturned(p)
  /\ Return(p)
  /\ UNCHANGED <<registry, home, idle, swept>>

\* Mutant: the error path returns without releasing the admission.
UndoNothing(p) ==
  /\ pc[p] = "undo"
  /\ Return(p)
  /\ UNCHANGED <<admission, registry, home, idle, swept>>

\* connect's Err branch, get's Err branch, or AdmissionGrant's Drop.
Undo(p) ==
  /\ pc[p] = "undo"
  /\ release(p)
  /\ Return(p)
  /\ UNCHANGED <<registry, home, idle, swept>>

-----------------------------------------------------------------------------
(***************************************************************************)
(* r2d2: pool.get().                                                       *)
(***************************************************************************)
\* Where the caller goes with the connection it got.
Using(p) == IF key[p] \in CallKeys THEN "fetched" ELSE "open"

\* An idle connection that passes is_valid (test_on_check_out).
GetIdle(p, c) ==
  /\ pc[p] = "get" /\ c \in Idle(registry[key[p]])
  /\ idle' = idle \ {c}
  /\ conn' = [conn EXCEPT ![p] = c]
  /\ Go(p, Using(p))
  /\ UNCHANGED <<admission, key, registry, home, swept>>

\* An idle connection that fails is_valid is closed, and get goes on.
GetStale(p, c) ==
  /\ pc[p] = "get" /\ c \in Idle(registry[key[p]])
  /\ idle' = idle \ {c}
  /\ home' = [home EXCEPT ![c] = None]
  /\ UNCHANGED <<admission, pc, key, conn, registry, swept>>

\* While a caller waits in get(), r2d2's own thread opens a connection, up to
\* max_size of them; it joins the idle list for whoever comes first.
OpenConnection(p, c) ==
  /\ pc[p] = "get" /\ c \in Free
  /\ Cardinality(Pooled(registry[key[p]])) < PoolMax(key[p])
  /\ home' = [home EXCEPT ![c] = registry[key[p]]]
  /\ idle' = idle \cup {c}
  /\ UNCHANGED <<admission, pc, key, conn, registry, swept>>

\* connection_timeout runs out, or the server cannot be reached.
GetFails(p) ==
  /\ pc[p] = "get"
  /\ Go(p, "undo")
  /\ UNCHANGED <<admission, key, conn, registry, home, idle, swept>>

\* idle_timeout or max_lifetime: r2d2 closes an idle connection.
IdleExpires(c) ==
  /\ c \in idle
  /\ idle' = idle \ {c}
  /\ home' = [home EXCEPT ![c] = None]
  /\ UNCHANGED <<admission, pc, key, conn, registry, swept>>

\* The unpooled dial: manager.connect().
Dial(p, c) ==
  /\ pc[p] = "dial" /\ c \in Free
  /\ home' = [home EXCEPT ![c] = Direct]
  /\ conn' = [conn EXCEPT ![p] = c]
  /\ Go(p, IF key[p] \in CallKeys THEN "request_direct" ELSE "open")
  /\ UNCHANGED <<admission, key, registry, idle, swept>>

DialFails(p) ==
  /\ pc[p] = "dial"
  /\ Go(p, "undo")
  /\ UNCHANGED <<admission, key, conn, registry, home, idle, swept>>

-----------------------------------------------------------------------------
(***************************************************************************)
(* Using and giving back.                                                  *)
(***************************************************************************)
\* PooledConnection's Drop: back to the idle list, or closed if has_broken,
\* which is constant FALSE for a plugin connection.
CheckIn(c) ==
  \/ idle' = idle \cup {c} /\ UNCHANGED home
  \/ /\ home[c][2] \in CoreKeys
     /\ home' = [home EXCEPT ![c] = None] /\ UNCHANGED idle

\* call_via: `Ok(pooled) => pooled.raw` ends the arm, and with it `pooled`.
CallKeepsRaw(p) ==
  /\ pc[p] = "fetched"
  /\ CheckIn(conn[p])
  /\ Go(p, "request")
  /\ UNCHANGED <<admission, key, conn, registry, swept>>

\* request_fn returned; the Pooled branch releases and forgets `raw`.
CallReturns(p) ==
  /\ pc[p] = "request"
  /\ release(p)
  /\ Return(p)
  /\ UNCHANGED <<registry, home, idle, swept>>

\* The Unpooled branch leaves both to the guard: release, then close.
CallReturnsDirect(p) ==
  /\ pc[p] = "request_direct"
  /\ release(p)
  /\ Go(p, "close")
  /\ UNCHANGED <<key, conn, registry, home, idle, swept>>

\* nir_db_stop, core: db_table().remove drops the DbConn, then the release.
StopCore(p) ==
  /\ pc[p] = "open" /\ key[p] \in CoreKeys
  /\ CheckIn(conn[p])
  /\ conn' = [conn EXCEPT ![p] = None]
  /\ Go(p, "undo")
  /\ UNCHANGED <<admission, key, registry, swept>>

\* nir_db_stop, plugin: PluginConn's Drop (or UnpooledConnection's) releases,
\* then its fields are dropped.
StopPlugin(p) ==
  /\ pc[p] = "open" /\ key[p] \in PluginKeys
  /\ release(p)
  /\ Go(p, IF home[conn[p]] = Direct THEN "close" ELSE "check_in")
  /\ UNCHANGED <<key, conn, registry, home, idle, swept>>

\* Mutant: the handle is forgotten, not dropped.
StopForgets(p) ==
  /\ pc[p] = "check_in"
  /\ Return(p)
  /\ UNCHANGED <<admission, registry, home, idle, swept>>

StopCheckIn(p) ==
  /\ pc[p] = "check_in"
  /\ CheckIn(conn[p])
  /\ Return(p)
  /\ UNCHANGED <<admission, registry, swept>>

StopClose(p) ==
  /\ pc[p] = "close"
  /\ home' = [home EXCEPT ![conn[p]] = None]
  /\ Return(p)
  /\ UNCHANGED <<admission, registry, idle, swept>>

-----------------------------------------------------------------------------
(***************************************************************************)
(* The reaper: sweep_one_round's try_get, one connection at a time.        *)
(***************************************************************************)
\* Mutant: the sweep validates the idle connection in place.
SweepPeeks(c) ==
  /\ swept = None /\ c \in idle
  /\ swept' = c
  /\ UNCHANGED <<admission, pc, key, conn, registry, home, idle>>

SweepTake(c) ==
  /\ swept = None /\ c \in idle
  /\ swept' = c
  /\ idle' = idle \ {c}
  /\ UNCHANGED <<admission, pc, key, conn, registry, home>>

\* is_valid: the checkout succeeds and is dropped at once, back to the pool.
SweepReturn ==
  /\ swept # None
  /\ swept' = None
  /\ CheckIn(swept)
  /\ UNCHANGED <<admission, pc, key, conn, registry>>

\* Not valid: r2d2 drops it.
SweepEvict ==
  /\ swept # None
  /\ swept' = None
  /\ home' = [home EXCEPT ![swept] = None]
  /\ UNCHANGED <<admission, pc, key, conn, registry, idle>>

-----------------------------------------------------------------------------
Caller(p) ==
  \/ \E k \in Keys : db_connect(p, k) \/ connect_plugin(p, k)
  \/ HasKey(p) \/ UnderCap(p) \/ OverCap(p) \/ Lookup(p) \/ Install(p) \/ BuildFails(p)
  \/ FoundCore(p) \/ FoundPlugin(p)
  \/ Admit(p) \/ Admitted(p) \/ Refused(p) \/ Undo(p)
  \/ \E c \in Conns : GetIdle(p, c) \/ GetStale(p, c) \/ OpenConnection(p, c) \/ Dial(p, c)
  \/ GetFails(p) \/ DialFails(p)
  \/ CallKeepsRaw(p) \/ CallReturns(p) \/ CallReturnsDirect(p)
  \/ StopCore(p) \/ StopPlugin(p) \/ StopCheckIn(p) \/ StopClose(p)

Background ==
  \/ \E c \in Conns : IdleExpires(c) \/ SweepTake(c)
  \/ SweepReturn \/ SweepEvict

Next == (\E p \in Callers : Caller(p)) \/ Background

Spec == Init /\ [][Next]_vars

-----------------------------------------------------------------------------
(***************************************************************************)
(* Properties.                                                             *)
(***************************************************************************)
PcLabels == {"idle", "has_key", "count", "lookup", "build", "found", "admit_core",
             "admit_pooled", "admit_direct", "undo", "get", "dial", "fetched",
             "request", "request_direct", "open", "check_in", "close"}

\* Every variable has its type.
TypeOK ==
  /\ AdmTypeOK
  /\ pc \in [Callers -> PcLabels]
  /\ key \in [Callers -> Keys \cup {None}]
  /\ conn \in [Callers -> Conns \cup {None}]
  /\ registry \in [Keys -> Pools \cup {None}]
  /\ home \in [Conns -> Pools \cup {Direct, None}]
  /\ idle \subseteq Conns
  /\ swept \in Conns \cup {None}

\* A caller has a connection in its hands, or the result of one.
InSession(p) == pc[p] \in {"fetched", "request", "request_direct", "open"}

\* Every session and every request in flight is paid for by exactly one slot of
\* its own provider's domain, and a caller that is between calls has given its
\* slot back, whichever error path or drop order ended the last one.
SlotCoversSession ==
  \A p \in Callers :
    /\ InSession(p) => adm[p] = "granted" /\ dom[p] = Provider(key[p])
    /\ pc[p] \in {"idle", "has_key", "count", "check_in", "close"} => adm[p] = "idle"

\* Two concurrent misses on a key never leave two live pools: every pooled
\* physical connection belongs to the pool the registry names for its key, so
\* max_size, and with it the ceiling, bounds the connections of a key.
OnePoolPerKey ==
  \A k \in Keys :
    /\ \A c \in Conns : home[c] \in Callers \X {k} => home[c] = registry[k]
    /\ Cardinality({c \in Conns : home[c] \in Callers \X {k}}) <= PoolMax(k)

\* Who may be reading or writing on connection c.
SessionsOn(c) == {p \in Callers : conn[p] = c /\ pc[p] \in {"open", "fetched", "request_direct"}}

\* A session opened with db_connect, core or plugin, has its connection to
\* itself until it stops: no other session, no idle list, no reaper sweep has
\* it, and nobody closes it.
SessionIsExclusive ==
  \A p \in Callers : pc[p] \in {"open", "fetched", "request_direct"} =>
    /\ home[conn[p]] # None
    /\ SessionsOn(conn[p]) = {p}
    /\ conn[p] \notin idle /\ conn[p] # swept

\* No connection is forgotten: one that is open is idle, in the reaper's hands,
\* or on some caller that has yet to give it back.
NoConnectionLeaks ==
  \A c \in Conns : home[c] # None =>
    \/ c \in idle \/ c = swept
    \/ \E p \in Callers : conn[p] = c /\ pc[p] \in {"open", "fetched", "request_direct", "check_in", "close"}

\* What call_via's comments promise, "this checkout was only ever meant to
\* live for the duration of this one call": while a request runs on a raw
\* connection, no other session and no other request uses that connection.
RequestIsExclusive ==
  \A p, q \in Callers : (pc[p] = "request" /\ InSession(q) /\ conn[q] = conn[p]) => p = q
=============================================================================
