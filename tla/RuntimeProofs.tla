--------------------------- MODULE RuntimeProofs ---------------------------
(***************************************************************************)
(* Proofs about Workflow and the kernel calls below it: every handle names *)
(* the resource its owner opened (HandleIsOwn), every domain's counter is  *)
(* exact (SlotsExact), an instance is moved along declared edges, out of   *)
(* states it was in (MovesAreDeclared), and what a call returns is true of *)
(* what the outside answered (ResultIsTrue).                               *)
(*                                                                         *)
(* The first two share one inductive invariant. A resource is claimed by   *)
(* the thread that owns a handle of it or, between a mint and its insert   *)
(* and between a stop and its removal, by the call in progress. Claims are *)
(* of different resources, a claimed resource is where its handle says,    *)
(* tables map different numbers to different resources, and the numbers of *)
(* the core table stay below the first of the plugin table, because every  *)
(* number costs one of the calls the threads may still make.               *)
(***************************************************************************)
EXTENDS Workflow, FiniteSetTheorems, SequenceTheorems, TLAPS

IsCall(c) == c = [k |-> c.k, at |-> c.at, d |-> c.d, h |-> c.h, r |-> c.r, arg |-> c.arg]

Handle == [d : {"tcp", "file", "db", "mq"}, h : Nat, r : Nat \ {0}]

Resources == {Opens[k] : k \in DOMAIN Opens}

\* The shape of the state the kernel calls work on.
Shaped ==
  /\ DOMAIN call = Threads /\ \A t \in Threads : IsCall(call[t])
  /\ left \in [Threads -> 0 .. MaxCalls]
  /\ mine \in [Threads -> SUBSET Handle]
  /\ made \in Seq(Resources)
  /\ held \in [Domains -> Nat]
  /\ DOMAIN table = Tables
  /\ \A n \in Tables : table[n] = [next |-> table[n].next, map |-> table[n].map]

Slot  == {"opening", "insert", "release"}
Touch == Slot \cup {"remove"}

\* What a call that is on its way in or out says of itself.
CallsApt ==
  \A t \in Threads :
    /\ call[t].at = "opening" => /\ call[t].k \in DOMAIN Opens /\ left[t] < MaxCalls
                                 /\ call[t].d = DomainOf(call[t].k)
    /\ call[t].at \in {"insert", "remove"} => call[t].d \in Tables
    /\ call[t].at = "release" => call[t].d \in Domains

\* The numbers that may still be minted: one for each call not yet made, and
\* one for each that is opening.
Unminted == {p \in Threads \X (1 .. MaxCalls) :
               \/ p[2] <= left[p[1]]
               \/ p[2] = left[p[1]] + 1 /\ call[p[1]].at = "opening"}

Numbered ==
  /\ \A n \in Tables : /\ table[n].next \in Nat /\ TableStart[n] <= table[n].next
                       /\ \A h \in DOMAIN table[n].map :
                            h \in Nat /\ TableStart[n] <= h /\ h < table[n].next
  /\ table["db"].next + Cardinality(Unminted) <= MaxCalls * Cardinality(Threads) + 1

\* Open resources exist, and no two descriptors or numbers share one.
Apart ==
  /\ \A f \in DOMAIN fds : fds[f] \in 1 .. Len(made)
  /\ \A f, g \in DOMAIN fds : fds[f] = fds[g] => f = g
  /\ \A n \in Tables : \A h \in DOMAIN table[n].map : table[n].map[h] \in 1 .. Len(made)
  /\ \A n \in Tables : \A h, i \in DOMAIN table[n].map :
       table[n].map[h] = table[n].map[i] => h = i

\* A minted number that is not yet in its table.
Pending ==
  \A t \in Threads :
    call[t].at = "insert" =>
      /\ call[t].h \in Nat /\ call[t].r \in 1 .. Len(made)
      /\ TableStart[call[t].d] <= call[t].h /\ call[t].h < table[call[t].d].next
      /\ call[t].h \notin DOMAIN table[call[t].d].map
      /\ \A n \in Tables : \A h \in DOMAIN table[n].map : table[n].map[h] # call[t].r
      /\ \A u \in Threads \ {t} : call[u].at = "insert" /\ call[u].d = call[t].d
                                    => call[u].h # call[t].h

Claiming(t) == call[t].at \in {"insert", "remove"}

Exclusive ==
  /\ \A t, u \in Threads : \A m \in mine[t], o \in mine[u] : m.r = o.r => t = u /\ m = o
  /\ \A t, u \in Threads : \A m \in mine[u] : Claiming(t) => m.r # call[t].r
  /\ \A t, u \in Threads : Claiming(t) /\ Claiming(u) /\ call[t].r = call[u].r => t = u

Holds(n, h, r) == h \in DOMAIN table[n].map /\ table[n].map[h] = r

Located(d, h, r) == \/ Raw(d) /\ h \in DOMAIN fds /\ fds[h] = r
                    \/ ~Raw(d) /\ Holds(d, h, r)
                    \/ d = "db" /\ Holds("plugin", h, r)

Placed ==
  /\ \A t \in Threads : \A m \in mine[t] :
       /\ Located(m.d, m.h, m.r)
       /\ Raw(m.d) => made[m.r] \in Kinds[m.d]
  /\ \A t \in Threads : call[t].at = "remove" => Located(call[t].d, call[t].h, call[t].r)

KernelInv == /\ Shaped /\ CallsApt /\ Numbered /\ Apart /\ Pending /\ Exclusive
             /\ Placed /\ SlotsExact

\* The last state of an instance's path is the one it is in.
Tracked(id) == \E S : /\ path[id] \in Seq(S) /\ path[id] # <<>>
                      /\ path[id][Len(path[id])] = instances[id].state

\* A move that was looked up: an edge out of a state the instance was in.
Moving(c) ==
  /\ c.h \in DOMAIN instances /\ instances[c.h].workflow = c.arg.workflow
  /\ c.arg.seen \in 1 .. Len(path[c.h])
  /\ \E tr \in Transitions(decl[c.arg.workflow]) :
       tr.from = path[c.h][c.arg.seen] /\ tr.target = c.arg.target

\* Paths end where their instances are, and whoever is about to write an
\* instance has looked the move up on its path.
MoveInv ==
  /\ seq \in Nat \ {0}
  /\ \A id \in DOMAIN instances : id \in Nat /\ id < seq
  /\ DOMAIN path = DOMAIN instances /\ \A id \in DOMAIN instances : Tracked(id)
  /\ \A t \in Threads : call[t].at = "exit" => Moving(call[t])

-----------------------------------------------------------------------------
(* Operators.                                                              *)

Busy(d) == {t \in Threads : call[t].d = d /\ call[t].at \in Slot}

\* SlotsExact, with its two sets named.
LEMMA SlotsRead ==
  SlotsExact <=> \A d \in Domains : /\ held[d] = Cardinality(Live(d)) + Cardinality(Busy(d))
                                    /\ held[d] <= Ceiling[d]
BY DEF SlotsExact, Busy, Slot

\* There are finitely many numbers left to mint, before a step and after it.
LEMMA UnmintedFinite == /\ IsFiniteSet(Unminted) /\ IsFiniteSet(Unminted')
                        /\ Cardinality(Unminted) \in Nat /\ Cardinality(Unminted') \in Nat
<1>1. IsFiniteSet(1 .. MaxCalls)
  BY KernelCallsType, FS_Interval
<1>2. IsFiniteSet(Threads \X (1 .. MaxCalls))
  BY <1>1, KernelCallsType, FS_Product
<1>3. IsFiniteSet(Unminted) /\ IsFiniteSet(Unminted')
  BY <1>2, FS_Subset DEF Unminted
<1> QED BY <1>3, FS_CardinalityType

\* Busy is finite, and so are the live resources of a domain.
LEMMA FiniteParts ==
  ASSUME Shaped, Apart
  PROVE  /\ \A d : IsFiniteSet(Busy(d))
         /\ \A d \in Domains : IsFiniteSet(Live(d))
<1>1. \A d : IsFiniteSet(Busy(d))
  BY KernelCallsType, FS_Subset DEF Busy
<1>3. IsFiniteSet(1 .. Len(made))
  BY FS_Interval, LenProperties DEF Shaped
<1>4. ASSUME NEW d \in Domains PROVE Live(d) \subseteq 1 .. Len(made)
  BY <1>4 DEF Live, Range, Apart, Raw, Domains, Tables
<1> QED BY <1>1, <1>3, <1>4, FS_Subset

\* Where a call only one thread makes changes, what it leaves alone.
LEMMA CallAt ==
  ASSUME Shaped, NEW t \in Threads, NEW c, IsCall(c), call' = [call EXCEPT ![t] = c]
  PROVE  /\ DOMAIN call' = Threads /\ call'[t] = c
         /\ \A u \in Threads : u # t => call'[u] = call[u]
         /\ \A u \in Threads : IsCall(call'[u])
BY DEF Shaped

\* A call that begins is one the thread may still make.
LEMMA Begun ==
  ASSUME Shaped, NEW t \in Threads, NEW k, Begin(t, k)
  PROVE  /\ call[t].at = "idle" /\ left[t] > 0
         /\ left' \in [Threads -> 0 .. MaxCalls] /\ left'[t] = left[t] - 1
         /\ \A u \in Threads : u # t => left'[u] = left[u]
BY KernelCallsType DEF Begin, Idle, Call, Shaped

\* A step that spends a call, or lets one go on, adds no number to mint.
LEMMA UnmintedShrinks ==
  ASSUME Shaped, Apart, NEW t \in Threads, left' \in [Threads -> 0 .. MaxCalls],
         left'[t] = left[t] \/ left'[t] = left[t] - 1,
         \A u \in Threads : u # t => left'[u] = left[u] /\ call'[u] = call[u],
         call'[t].at = "opening" => left'[t] = left[t] - 1 \/ call[t].at = "opening"
  PROVE  Cardinality(Unminted') <= Cardinality(Unminted)
<1>1. Unminted' \subseteq Unminted
  <2> SUFFICES ASSUME NEW u \in Threads, NEW i \in 1 .. MaxCalls,
                      \/ i <= left'[u]
                      \/ i = left'[u] + 1 /\ call'[u].at = "opening"
               PROVE  \/ i <= left[u]
                      \/ i = left[u] + 1 /\ call[u].at = "opening"
    BY DEF Unminted
  <2>1. left[u] \in Nat /\ left'[u] \in Nat /\ i \in Nat
    BY KernelCallsType DEF Shaped
  <2>2. CASE u = t
    BY <2>1, <2>2
  <2>3. CASE u # t
    <3>1. left'[u] = left[u] /\ call'[u] = call[u]
      BY <2>3
    <3> QED BY <3>1
  <2> QED BY <2>2, <2>3
<1> QED BY <1>1, UnmintedFinite, FS_Subset

\* Nothing that the resources depend on.
Still == UNCHANGED <<fds, held, table, mine, made>>

\* A step that leaves the resources alone, of a call that is not on its way
\* in or out, before or after.
Quiet(t) ==
  /\ Still /\ call[t].at \notin Touch
  /\ \E c : IsCall(c) /\ c.at \notin Touch /\ call' = [call EXCEPT ![t] = c]
  /\ left' \in [Threads -> 0 .. MaxCalls] /\ (left'[t] = left[t] \/ left'[t] = left[t] - 1)
  /\ \A u \in Threads : u # t => left'[u] = left[u]

\* Such a step keeps every part of the invariant.
LEMMA QuietKeeps ==
  ASSUME KernelInv, NEW t \in Threads, Quiet(t)
  PROVE  KernelInv'
<1> USE DEF KernelInv
<1>c. PICK c : IsCall(c) /\ c.at \notin Touch /\ call' = [call EXCEPT ![t] = c]
  BY DEF Quiet
<1>1. /\ call'[t] = c /\ \A u \in Threads : u # t => call'[u] = call[u]
      /\ DOMAIN call' = Threads /\ \A u \in Threads : IsCall(call'[u])
  BY <1>c, CallAt
<1>2. /\ fds' = fds /\ held' = held /\ table' = table /\ mine' = mine /\ made' = made
      /\ call[t].at \notin Touch
  BY DEF Quiet, Still
<1>3. \A u \in Threads : call'[u].at \in Touch => u # t /\ call'[u] = call[u] /\ left'[u] = left[u]
  BY <1>1, <1>c DEF Quiet
<1>4. Shaped'
  BY <1>1, <1>2 DEF Shaped, Quiet
<1>5. CallsApt'
  BY <1>3, <1>2 DEF CallsApt, Touch, Slot
<1>6. Numbered'
  <2>1. Cardinality(Unminted') <= Cardinality(Unminted)
    BY <1>1, <1>c, UnmintedShrinks DEF Quiet, Touch, Slot
  <2>2. Cardinality(Unminted') \in Nat /\ Cardinality(Unminted) \in Nat
    BY UnmintedFinite
  <2>3. MaxCalls * Cardinality(Threads) \in Nat /\ table["db"].next \in Nat
    BY KernelCallsType, FS_CardinalityType DEF Numbered, Tables
  <2> QED BY <2>1, <2>2, <2>3, <1>2 DEF Numbered
<1>7. Apart'
  BY <1>2 DEF Apart
<1>8. Pending'
  BY <1>3, <1>2 DEF Pending, Touch, Slot
<1>9. Exclusive'
  BY <1>3, <1>2 DEF Exclusive, Claiming, Touch, Slot
<1>10. Placed'
  BY <1>3, <1>2 DEF Placed, Located, Holds, Touch, Slot
<1>11. SlotsExact'
  <2>1. ASSUME NEW d \in Domains PROVE Busy(d)' = Busy(d) /\ Live(d)' = Live(d)
    BY <1>1, <1>2, <1>c DEF Busy, Live, Range, Touch
  <2> QED BY <2>1, <1>2, SlotsRead DEF SlotsExact, Busy, Slot
<1> QED BY <1>4, <1>5, <1>6, <1>7, <1>8, <1>9, <1>10, <1>11

\* No table changes and no number is added to mint: the numbers stay in bounds.
LEMMA NumbersStay ==
  ASSUME Numbered, table' = table, Cardinality(Unminted') <= Cardinality(Unminted)
  PROVE  Numbered'
<1>1. MaxCalls * Cardinality(Threads) \in Nat /\ table["db"].next \in Nat
  BY KernelCallsType, FS_CardinalityType DEF Numbered, Tables
<1> QED BY <1>1, UnmintedFinite DEF Numbered

\* Every kind of open call has a domain, a table or descriptors behind it, and
\* a resource of a kind that only that domain has.
LEMMA OpensApt ==
  ASSUME NEW k \in DOMAIN Opens
  PROVE  /\ DomainOf(k) \in Domains /\ Opens[k] \in Resources
         /\ ~Raw(DomainOf(k)) => DomainOf(k) \in Tables
         /\ \A d \in {"tcp", "file"} : Opens[k] \in Kinds[d] <=> DomainOf(k) = d
<1>1. k \in {"tcp_connect", "tcp_listen", "tcp_accept", "file_open", "sqlite", "postgres",
            "plugin", "mq_connect"}
  BY DEF Opens
<1>2. /\ Kinds["tcp"] = {"stream", "listener"} /\ Kinds["file"] = {"file"}
  BY DEF Kinds
<1>3. CASE k \in {"tcp_connect", "tcp_listen", "tcp_accept"}
  <2>1. DomainOf(k) = "tcp" /\ Opens[k] \in {"stream", "listener"}
    BY <1>3 DEF DomainOf, Opens
  <2>2. Opens[k] \in Kinds["tcp"] <=> DomainOf(k) = "tcp"
    BY <2>1, <1>2
  <2>3. Opens[k] \in Kinds["file"] <=> DomainOf(k) = "file"
    BY <2>1, <1>2
  <2>4. DomainOf(k) \in Domains /\ (~Raw(DomainOf(k)) => DomainOf(k) \in Tables)
    BY <2>1 DEF Domains, Tables, Raw
  <2>5. Opens[k] \in Resources
    BY DEF Resources
  <2> QED BY <2>2, <2>3, <2>4, <2>5
<1>4. CASE k = "file_open"
  <2>1. DomainOf(k) = "file" /\ Opens[k] = "file"
    BY <1>4 DEF DomainOf, Opens
  <2>2. Opens[k] \in Kinds["tcp"] <=> DomainOf(k) = "tcp"
    BY <2>1, <1>2
  <2>3. Opens[k] \in Kinds["file"] <=> DomainOf(k) = "file"
    BY <2>1, <1>2
  <2>4. DomainOf(k) \in Domains /\ (~Raw(DomainOf(k)) => DomainOf(k) \in Tables)
    BY <2>1 DEF Domains, Tables, Raw
  <2>5. Opens[k] \in Resources
    BY DEF Resources
  <2> QED BY <2>2, <2>3, <2>4, <2>5
<1>5. CASE k \in {"sqlite", "postgres", "plugin", "mq_connect"}
  <2>1. /\ DomainOf(k) \in {"db", "plugin", "mq"}
        /\ Opens[k] \in {"sqlite", "postgres", "plugin", "redis"}
    BY <1>5 DEF DomainOf, IsBuiltinScheme, Opens
  <2>2. Opens[k] \in Kinds["tcp"] <=> DomainOf(k) = "tcp"
    BY <2>1, <1>2
  <2>3. Opens[k] \in Kinds["file"] <=> DomainOf(k) = "file"
    BY <2>1, <1>2
  <2>4. DomainOf(k) \in Domains /\ (~Raw(DomainOf(k)) => DomainOf(k) \in Tables)
    BY <2>1 DEF Domains, Tables, Raw
  <2>5. Opens[k] \in Resources
    BY DEF Resources
  <2> QED BY <2>2, <2>3, <2>4, <2>5
<1> QED BY <1>1, <1>3, <1>4, <1>5

\* A slot is taken as the opening call enters, below the ceiling.
LEMMA AdmitKeeps ==
  ASSUME KernelInv, NEW t \in Threads, NEW k \in DOMAIN Opens, Begin(t, k),
         held[DomainOf(k)] < Ceiling[DomainOf(k)],
         held' = [held EXCEPT ![DomainOf(k)] = @ + 1],
         Enter(t, Call(k, "opening", DomainOf(k), 0, 0, Nil)),
         UNCHANGED <<fds, table, mine, made>>
  PROVE  KernelInv'
<1> USE DEF KernelInv
<1> DEFINE D == DomainOf(k)
           c == Call(k, "opening", D, 0, 0, Nil)
<1>0. /\ fds' = fds /\ table' = table /\ mine' = mine /\ made' = made
      /\ D \in Domains
  BY OpensApt
<1>1. /\ IsCall(c) /\ c.at = "opening" /\ c.d = D /\ c.k = k
  BY DEF Call, IsCall
<1>2. /\ call'[t] = c /\ \A u \in Threads : u # t => call'[u] = call[u]
      /\ DOMAIN call' = Threads /\ \A u \in Threads : IsCall(call'[u])
  BY <1>1, CallAt DEF Enter
<1>3. /\ call[t].at = "idle" /\ left[t] > 0
      /\ left' \in [Threads -> 0 .. MaxCalls] /\ left'[t] = left[t] - 1
      /\ \A u \in Threads : u # t => left'[u] = left[u]
  BY Begun
<1> HIDE DEF D, c
<1>4. Shaped'
  BY <1>0, <1>2, <1>3 DEF Shaped, D
<1>5. CallsApt'
  <2>1. left[t] \in 0 .. MaxCalls
    BY DEF Shaped
  <2>2. left'[t] < MaxCalls
    BY <2>1, <1>3, KernelCallsType
  <2> QED BY <1>1, <1>2, <1>3, <2>2 DEF CallsApt, D
<1>6. Numbered'
  BY <1>0, <1>2, <1>3, <1>1, UnmintedShrinks, NumbersStay
<1>7. Apart'
  BY <1>0 DEF Apart
<1>8. Pending'
  BY <1>0, <1>1, <1>2 DEF Pending
<1>9. Exclusive'
  BY <1>0, <1>1, <1>2 DEF Exclusive, Claiming
<1>10. Placed'
  BY <1>0, <1>1, <1>2 DEF Placed, Located, Holds
<1>11. SlotsExact'
  <2> SUFFICES ASSUME NEW d \in Domains
               PROVE  /\ held'[d] = Cardinality(Live(d)') + Cardinality(Busy(d)')
                      /\ held'[d] <= Ceiling[d]
    BY DEF SlotsExact, Busy, Slot
  <2>1. /\ held[d] = Cardinality(Live(d)) + Cardinality(Busy(d))
        /\ held[d] <= Ceiling[d] /\ held[d] \in Nat /\ Ceiling[d] \in Nat
    BY SlotsRead, KernelCallsType DEF Shaped
  <2>2. Live(d)' = Live(d)
    BY <1>0 DEF Live, Range
  <2>3. CASE d # D
    <3>1. Busy(d)' = Busy(d)
      BY <1>1, <1>2, <1>3, <2>3 DEF Busy, Slot
    <3>2. held'[d] = held[d]
      BY <2>3 DEF Shaped, D
    <3> QED BY <3>1, <3>2, <2>1, <2>2
  <2>4. CASE d = D
    <3>1. Busy(d)' = Busy(d) \cup {t} /\ t \notin Busy(d)
      BY <1>1, <1>2, <1>3, <2>4 DEF Busy, Slot
    <3>2. Cardinality(Busy(d)') = Cardinality(Busy(d)) + 1
      BY <3>1, FiniteParts, FS_AddElement
    <3>3. held'[d] = held[d] + 1 /\ held[d] < Ceiling[d]
      BY <2>4, <1>0 DEF Shaped, D
    <3>4. Cardinality(Busy(d)) \in Nat /\ Cardinality(Live(d)) \in Nat
      BY FiniteParts, FS_CardinalityType
    <3> QED BY <3>2, <3>3, <3>4, <2>1, <2>2
  <2> QED BY <2>3, <2>4
<1> QED BY <1>4, <1>5, <1>6, <1>7, <1>8, <1>9, <1>10, <1>11

\* A call with one field changed.
LEMMA CallWith ==
  ASSUME NEW c, IsCall(c), NEW v
  PROVE  /\ [c EXCEPT !.at = v] = Call(c.k, v, c.d, c.h, c.r, c.arg)
         /\ [c EXCEPT !.d = v] = Call(c.k, c.at, v, c.h, c.r, c.arg)
BY DEF IsCall, Call


\* What an idle thread's call is.
LEMMA IdleIs == IsCall(Idle) /\ Idle.at = "idle" /\ Idle.d = "none"
BY DEF Idle, Call, IsCall

\* A call on its way in or out gives its slot back, and returns.
LEMMA SlotBackKeeps ==
  ASSUME KernelInv, NEW t \in Threads, call[t].at \in {"opening", "release"},
         held' = [held EXCEPT ![call[t].d] = @ - 1],
         call' = [call EXCEPT ![t] = Idle],
         UNCHANGED <<fds, table, mine, made, left>>
  PROVE  KernelInv'
<1> USE DEF KernelInv
<1> DEFINE D == call[t].d
<1>0. /\ fds' = fds /\ table' = table /\ mine' = mine /\ made' = made /\ left' = left
      /\ D \in Domains
  BY OpensApt DEF CallsApt
<1>2. /\ call'[t] = Idle /\ \A u \in Threads : u # t => call'[u] = call[u]
      /\ DOMAIN call' = Threads /\ \A u \in Threads : IsCall(call'[u])
      /\ call'[t].at = "idle" /\ call'[t].d = "none"
  BY IdleIs, CallAt
<1> HIDE DEF D
<1>3. ASSUME NEW d \in Domains
      PROVE  /\ held'[d] \in Nat
             /\ held'[d] = Cardinality(Live(d)') + Cardinality(Busy(d)')
             /\ held'[d] <= Ceiling[d]
  <2>1. /\ held[d] = Cardinality(Live(d)) + Cardinality(Busy(d))
        /\ held[d] <= Ceiling[d] /\ held[d] \in Nat /\ Ceiling[d] \in Nat
    BY SlotsRead, KernelCallsType DEF Shaped
  <2>2. Live(d)' = Live(d)
    BY <1>0 DEF Live, Range
  <2>3. CASE d # D
    <3>1. Busy(d)' = Busy(d)
      BY <1>2, <2>3 DEF Busy, Slot, D
    <3>2. held'[d] = held[d]
      BY <2>3 DEF Shaped, D
    <3> QED BY <3>1, <3>2, <2>1, <2>2
  <2>4. CASE d = D
    <3>1. Busy(d)' = Busy(d) \ {t} /\ t \in Busy(d)
      BY <1>2, <2>4 DEF Busy, Slot, D
    <3>2. Cardinality(Busy(d)') = Cardinality(Busy(d)) - 1 /\ Cardinality(Busy(d)') \in Nat
      BY <3>1, FiniteParts, FS_RemoveElement, FS_CardinalityType
    <3>3. held'[d] = held[d] - 1
      BY <2>4, <1>0 DEF Shaped, D
    <3>4. Cardinality(Busy(d)) \in Nat /\ Cardinality(Live(d)) \in Nat
      BY FiniteParts, FS_CardinalityType
    <3> QED BY <3>2, <3>3, <3>4, <2>1, <2>2
  <2> QED BY <2>3, <2>4
<1>4. Shaped'
  <2>1. held' \in [Domains -> Nat]
    BY <1>3 DEF Shaped
  <2> QED BY <1>0, <1>2, <2>1 DEF Shaped
<1>5. CallsApt'
  BY <1>0, <1>2 DEF CallsApt
<1>6. Numbered'
  <2>1. left' \in [Threads -> 0 .. MaxCalls]
    BY <1>0 DEF Shaped
  <2> QED BY <1>0, <1>2, <2>1, UnmintedShrinks, NumbersStay
<1>7. Apart'
  BY <1>0 DEF Apart
<1>8. Pending'
  BY <1>0, <1>2 DEF Pending
<1>9. Exclusive'
  BY <1>0, <1>2 DEF Exclusive, Claiming
<1>10. Placed'
  BY <1>0, <1>2 DEF Placed, Located, Holds
<1>11. SlotsExact'
  BY <1>3 DEF SlotsExact, Busy, Slot
<1> QED BY <1>4, <1>5, <1>6, <1>7, <1>8, <1>9, <1>10, <1>11

\* A handle moves to another thread: nothing but its owner changes.
LEMMA MoveKeeps ==
  ASSUME KernelInv, NEW t \in Threads, NEW u \in Threads, NEW m \in mine[t], Move(t, u, m)
  PROVE  KernelInv'
<1> USE DEF KernelInv
<1>0. /\ fds' = fds /\ table' = table /\ made' = made /\ left' = left /\ held' = held
      /\ call' = call /\ u # t
      /\ mine' = [mine EXCEPT ![t] = @ \ {m}, ![u] = @ \cup {m}]
  BY DEF Move
<1>1. /\ mine'[t] = mine[t] \ {m} /\ mine'[u] = mine[u] \cup {m}
      /\ \A v \in Threads : v # t /\ v # u => mine'[v] = mine[v]
      /\ mine' \in [Threads -> SUBSET Handle]
  BY <1>0 DEF Shaped
<1>2. \A v \in Threads : \A o \in mine'[v] : \E w \in Threads : o \in mine[w]
  BY <1>1
<1>4. Shaped'
  BY <1>0, <1>1 DEF Shaped
<1>5. CallsApt'
  BY <1>0 DEF CallsApt
<1>6. Numbered'
  BY <1>0 DEF Numbered, Unminted
<1>7. Apart'
  BY <1>0 DEF Apart
<1>8. Pending'
  BY <1>0 DEF Pending
<1>9. Exclusive'
  <2>1. ASSUME NEW v \in Threads, NEW w \in Threads, NEW o \in mine'[v], NEW p \in mine'[w],
               o.r = p.r
        PROVE  v = w /\ o = p
    <3>1. PICK v0 \in Threads, w0 \in Threads : o \in mine[v0] /\ p \in mine[w0]
      BY <1>2
    <3>2. v0 = w0 /\ o = p
      BY <3>1, <2>1 DEF Exclusive
    <3>3. CASE o = m
      BY <3>2, <3>3, <1>1, <1>0 DEF Exclusive
    <3>4. CASE o # m
      BY <3>2, <3>4, <1>1, <1>0 DEF Exclusive
    <3> QED BY <3>3, <3>4
  <2>2. \A v, w \in Threads : \A o \in mine'[w] : Claiming(v)' => o.r # call'[v].r
    BY <1>0, <1>2 DEF Exclusive, Claiming
  <2> QED BY <2>1, <2>2, <1>0 DEF Exclusive, Claiming
<1>10. Placed'
  <2>1. ASSUME NEW v \in Threads, NEW o \in mine'[v]
        PROVE  Located(o.d, o.h, o.r)' /\ (Raw(o.d) => made'[o.r] \in Kinds[o.d])
    <3>1. PICK w \in Threads : o \in mine[w]
      BY <1>2
    <3>2. Located(o.d, o.h, o.r) /\ (Raw(o.d) => made[o.r] \in Kinds[o.d])
      BY <3>1 DEF Placed
    <3> QED BY <3>2, <1>0 DEF Located, Holds
  <2>2. ASSUME NEW v \in Threads, call'[v].at = "remove"
        PROVE  Located(call[v].d, call[v].h, call[v].r)'
    BY <2>2, <1>0 DEF Placed, Located, Holds
  <2> QED BY <2>1, <2>2, <1>0 DEF Placed
<1>11. SlotsExact'
  BY <1>0 DEF SlotsExact, Live, Range
<1> QED BY <1>4, <1>5, <1>6, <1>7, <1>8, <1>9, <1>10, <1>11

\* Every claim is of a resource that was opened.
LEMMA ClaimBounds ==
  ASSUME KernelInv
  PROVE  /\ \A t \in Threads : \A m \in mine[t] : m.r \in 1 .. Len(made) /\ m \in Handle
         /\ \A t \in Threads : Claiming(t) => call[t].r \in 1 .. Len(made)
<1> USE DEF KernelInv
<1>1. \A d, h, r : Located(d, h, r) /\ d \in Domains => r \in 1 .. Len(made)
  BY DEF Located, Holds, Apart, Domains, Tables, Raw
<1>2. ASSUME NEW t \in Threads, NEW m \in mine[t] PROVE m.r \in 1 .. Len(made) /\ m \in Handle
  <2>1. m \in Handle
    BY DEF Shaped
  <2>2. m.d \in Domains
    BY <2>1 DEF Handle, Domains
  <2> QED BY <2>1, <2>2, <1>1 DEF Placed
<1>3. ASSUME NEW t \in Threads, Claiming(t) PROVE call[t].r \in 1 .. Len(made)
  <2>1. CASE call[t].at = "insert"
    BY <2>1 DEF Pending
  <2>2. CASE call[t].at = "remove"
    <3>1. call[t].d \in Domains
      BY <2>2 DEF CallsApt, Tables, Domains
    <3> QED BY <3>1, <2>2, <1>1 DEF Placed
  <2> QED BY <1>3, <2>1, <2>2 DEF Claiming
<1> QED BY <1>2, <1>3

\* One more resource was opened; the others are what they were.
LEMMA MadeMore ==
  ASSUME Shaped, NEW k \in DOMAIN Opens, made' = Append(made, Opens[k])
  PROVE  /\ made' \in Seq(Resources) /\ Len(made) \in Nat
         /\ Len(made') = Len(made) + 1 /\ made'[Len(made) + 1] = Opens[k]
         /\ \A r \in 1 .. Len(made) : made'[r] = made[r]
BY OpensApt, AppendProperties DEF Shaped

\* A descriptor is handed out: the slot is the resource's from now on.
LEMMA OpenFdKeeps ==
  ASSUME KernelInv, NEW t \in Threads, OpenFd(t)
  PROVE  KernelInv'
<1> USE DEF KernelInv
<1> DEFINE D == call[t].d
           R == Len(made) + 1
<1>0. /\ call[t].at = "opening" /\ Raw(D) /\ call' = [call EXCEPT ![t] = Idle]
      /\ table' = table /\ held' = held /\ left' = left /\ made' = Append(made, Opens[call[t].k])
  BY DEF OpenFd, Return
<1>f. PICK fd \in Fds \ DOMAIN fds :
        /\ fds' = Including(fds, fd, R)
        /\ mine' = [mine EXCEPT ![t] = @ \cup {[d |-> D, h |-> fd, r |-> R]}]
  BY DEF OpenFd, Owned, Fresh, Raw
<1> DEFINE M == [d |-> D, h |-> fd, r |-> R]
<1>1. /\ call[t].k \in DOMAIN Opens /\ D = DomainOf(call[t].k) /\ D \in {"tcp", "file"}
  BY <1>0 DEF CallsApt, Raw
<1>2. /\ call'[t] = Idle /\ \A u \in Threads : u # t => call'[u] = call[u]
      /\ DOMAIN call' = Threads /\ \A u \in Threads : IsCall(call'[u])
      /\ call'[t].at = "idle" /\ call'[t].d = "none"
  BY <1>0, IdleIs, CallAt
<1>3. /\ made' \in Seq(Resources) /\ Len(made) \in Nat /\ Len(made') = R
      /\ made'[R] = Opens[call[t].k] /\ \A r \in 1 .. Len(made) : made'[r] = made[r]
  BY <1>0, <1>1, MadeMore
<1>4. /\ DOMAIN fds' = {fd} \cup DOMAIN fds /\ fds'[fd] = R /\ fd \notin DOMAIN fds
      /\ \A f \in DOMAIN fds : fds'[f] = fds[f]
  BY <1>f DEF Including
<1>5. /\ M.d = D /\ M.h = fd /\ M.r = R /\ M \in Handle
  <2>1. fd \in Nat
    BY KernelCallsType
  <2>2. R \in Nat \ {0}
    BY <1>3
  <2>3. D \in {"tcp", "file", "db", "mq"}
    BY <1>1
  <2> HIDE DEF D, R
  <2> QED BY <2>1, <2>2, <2>3 DEF Handle
<1>6. /\ mine'[t] = mine[t] \cup {M} /\ \A u \in Threads : u # t => mine'[u] = mine[u]
      /\ mine' \in [Threads -> SUBSET Handle]
  BY <1>5, <1>f DEF Shaped
<1> HIDE DEF D, R, M
<1>7. /\ \A u \in Threads : \A m \in mine[u] : m.r \in 1 .. Len(made)
      /\ \A u \in Threads : Claiming(u) => call[u].r \in 1 .. Len(made)
      /\ R \notin 1 .. Len(made) /\ R \in 1 .. Len(made') /\ R = Len(made) + 1
      /\ \A r \in 1 .. Len(made) : r \in 1 .. Len(made')
  BY ClaimBounds, <1>3 DEF R
<1>8. \A u \in Threads : \A m \in mine'[u] : m \in mine[u] \/ (u = t /\ m = M)
  BY <1>6
<1>9. \A u \in Threads : call'[u].at \in Touch => u # t /\ call'[u] = call[u]
  BY <1>2 DEF Touch, Slot
<1>10. Shaped'
  BY <1>0, <1>2, <1>3, <1>6 DEF Shaped
<1>11. CallsApt'
  BY <1>0, <1>9 DEF CallsApt, Touch, Slot
<1>12. Numbered'
  <2>1. left' \in [Threads -> 0 .. MaxCalls]
    BY <1>0 DEF Shaped
  <2> QED BY <1>0, <1>2, <2>1, UnmintedShrinks, NumbersStay
<1>13. Apart'
  BY <1>0, <1>4, <1>7 DEF Apart
<1>14. Pending'
  BY <1>0, <1>7, <1>9 DEF Pending, Touch, Slot
<1>15. Exclusive'
  <2>1. ASSUME NEW u \in Threads, NEW v \in Threads, NEW m \in mine'[u], NEW o \in mine'[v],
               m.r = o.r
        PROVE  u = v /\ m = o
    BY <1>7, <1>8, <1>5, <2>1 DEF Exclusive
  <2>2. ASSUME NEW u \in Threads, NEW v \in Threads, NEW m \in mine'[v], Claiming(u)'
        PROVE  m.r # call'[u].r
    <3>1. Claiming(u) /\ call'[u] = call[u]
      BY <2>2, <1>9 DEF Claiming, Touch, Slot
    <3> QED BY <3>1, <1>7, <1>8, <1>5 DEF Exclusive
  <2>3. ASSUME NEW u \in Threads, NEW v \in Threads, Claiming(u)', Claiming(v)',
               call'[u].r = call'[v].r
        PROVE  u = v
    BY <2>3, <1>9 DEF Exclusive, Claiming, Touch, Slot
  <2> QED BY <2>1, <2>2, <2>3 DEF Exclusive
<1>16. Placed'
  <2>1. ASSUME NEW d, NEW h, NEW r, Located(d, h, r) PROVE Located(d, h, r)'
    BY <2>1, <1>0, <1>4 DEF Located, Holds
  <2>2. ASSUME NEW u \in Threads, NEW m \in mine'[u]
        PROVE  Located(m.d, m.h, m.r)' /\ (Raw(m.d) => made'[m.r] \in Kinds[m.d])
    <3>1. CASE m \in mine[u]
      <4>1. /\ Located(m.d, m.h, m.r) /\ (Raw(m.d) => made[m.r] \in Kinds[m.d])
            /\ m.r \in 1 .. Len(made)
        BY <3>1, <1>7 DEF Placed
      <4> QED BY <4>1, <2>1, <1>3
    <3>2. CASE m = M
      <4>0. m.d = D /\ m.h = fd /\ m.r = R
        BY <3>2, <1>5
      <4>1. Located(m.d, m.h, m.r)'
        BY <4>0, <1>4, <1>0 DEF Located
      <4>2. made'[m.r] \in Kinds[m.d]
        BY <4>0, <1>3, <1>1, OpensApt
      <4> QED BY <4>1, <4>2, <3>2
    <3> QED BY <3>1, <3>2, <1>8
  <2>3. ASSUME NEW u \in Threads, call'[u].at = "remove"
        PROVE  Located(call[u].d, call[u].h, call[u].r)'
    <3>1. call'[u] = call[u] /\ Located(call[u].d, call[u].h, call[u].r)
      BY <2>3, <1>9 DEF Placed, Touch, Slot
    <3>2. \A d, h, r : Located(d, h, r) => Located(d, h, r)'
      BY <1>0, <1>4 DEF Located, Holds
    <3> QED BY <3>1, <1>0, <1>4 DEF Located, Holds
  <2> QED BY <2>2, <2>3 DEF Placed
<1>17. SlotsExact'
  <2> SUFFICES ASSUME NEW d \in Domains
               PROVE  /\ held'[d] = Cardinality(Live(d)') + Cardinality(Busy(d)')
                      /\ held'[d] <= Ceiling[d]
    BY DEF SlotsExact, Busy, Slot
  <2>1. /\ held[d] = Cardinality(Live(d)) + Cardinality(Busy(d)) /\ held[d] <= Ceiling[d]
        /\ Cardinality(Busy(d)) \in Nat /\ Cardinality(Live(d)) \in Nat
        /\ IsFiniteSet(Busy(d)) /\ IsFiniteSet(Live(d))
    BY SlotsRead, FiniteParts, FS_CardinalityType
  <2>2. \A r \in Range(fds) : r \in 1 .. Len(made)
    BY DEF Range, Apart
  <2>3. Range(fds') = Range(fds) \cup {R}
    BY <1>4 DEF Range
  <2>4. CASE d = D
    <3>1. Busy(d)' = Busy(d) \ {t} /\ t \in Busy(d)
      BY <1>0, <1>2, <2>4 DEF Busy, Slot, D
    <3>2. Live(d)' = Live(d) \cup {R} /\ R \notin Live(d)
      <4>1. Opens[call[t].k] \in Kinds[d] /\ Raw(d)
        BY <1>0, <1>1, <2>4, OpensApt
      <4> QED BY <4>1, <2>2, <2>3, <1>3, <1>7 DEF Live
    <3>3. Cardinality(Busy(d)') = Cardinality(Busy(d)) - 1
      BY <3>1, <2>1, FS_RemoveElement, ZenonT(60)
    <3>4. Cardinality(Live(d)') = Cardinality(Live(d)) + 1
      BY <3>2, <2>1, FS_AddElement
    <3> QED BY <3>3, <3>4, <2>1, <1>0
  <2>5. CASE d # D
    <3>1. Busy(d)' = Busy(d)
      BY <1>0, <1>2, <2>5 DEF Busy, Slot, D
    <3>2. Live(d)' = Live(d)
      <4>1. CASE Raw(d)
        <5>1. Opens[call[t].k] \notin Kinds[d]
          BY <1>1, <2>5, <4>1, OpensApt DEF Raw
        <5> QED BY <5>1, <4>1, <2>2, <2>3, <1>3, <1>7 DEF Live
      <4>2. CASE ~Raw(d)
        BY <4>2, <1>0 DEF Live, Range
      <4> QED BY <4>1, <4>2
    <3> QED BY <3>1, <3>2, <2>1, <1>0
  <2> QED BY <2>4, <2>5
<1> QED BY <1>10, <1>11, <1>12, <1>13, <1>14, <1>15, <1>16, <1>17

\* A number is minted: the call now claims a resource that nothing names yet.
LEMMA MintKeeps ==
  ASSUME KernelInv, NEW t \in Threads, Mint(t)
  PROVE  KernelInv'
<1> USE DEF KernelInv
<1> DEFINE D == call[t].d
           R == Len(made) + 1
           N == table[D].next
           c == Call(call[t].k, "insert", D, N, R, Nil)
<1>0. /\ call[t].at = "opening" /\ ~Raw(D) /\ call' = [call EXCEPT ![t] = c]
      /\ table' = [table EXCEPT ![D].next = @ + 1]
      /\ fds' = fds /\ held' = held /\ left' = left /\ mine' = mine
      /\ made' = Append(made, Opens[call[t].k])
  BY DEF Mint, Enter, Fresh
<1>1. /\ call[t].k \in DOMAIN Opens /\ D = DomainOf(call[t].k) /\ D \in Tables
      /\ left[t] < MaxCalls
  BY <1>0, OpensApt DEF CallsApt
<1>c. IsCall(c) /\ c.at = "insert" /\ c.d = D /\ c.h = N /\ c.r = R
  BY DEF Call, IsCall
<1>2. /\ call'[t] = c /\ \A u \in Threads : u # t => call'[u] = call[u]
      /\ DOMAIN call' = Threads /\ \A u \in Threads : IsCall(call'[u])
  BY <1>0, <1>c, CallAt, Zenon
<1>3. /\ made' \in Seq(Resources) /\ Len(made) \in Nat /\ Len(made') = R
      /\ \A r \in 1 .. Len(made) : made'[r] = made[r]
  BY <1>0, <1>1, MadeMore
<1>4. /\ DOMAIN table' = Tables /\ N \in Nat /\ TableStart[D] <= N
      /\ table'[D].next = N + 1 /\ table'[D].map = table[D].map
      /\ \A n \in Tables : n # D => table'[n] = table[n]
      /\ \A n \in Tables : table'[n] = [next |-> table'[n].next, map |-> table'[n].map]
  BY <1>0, <1>1 DEF Shaped, Numbered
<1> HIDE DEF D, R, N, c
<1>5. \A n \in Tables : table'[n].map = table[n].map
  BY <1>4
<1>6. \A n \in Tables : /\ table[n].next \in Nat /\ table'[n].next \in Nat
                        /\ table[n].next <= table'[n].next
  BY <1>4 DEF Numbered, N
<1>7. /\ \A u \in Threads : \A m \in mine[u] : m.r \in 1 .. Len(made)
      /\ \A u \in Threads : Claiming(u) => call[u].r \in 1 .. Len(made)
      /\ R \notin 1 .. Len(made) /\ R \in 1 .. Len(made')
      /\ \A r \in 1 .. Len(made) : r \in 1 .. Len(made')
  BY ClaimBounds, <1>3 DEF R
<1>9. \A u \in Threads : u # t => call'[u] = call[u]
  BY <1>2
<1>10. Shaped'
  BY <1>0, <1>2, <1>3, <1>4 DEF Shaped
<1>11. CallsApt'
  BY <1>0, <1>1, <1>c, <1>2 DEF CallsApt
<1>12. Numbered'
  <2>1. Cardinality(Unminted') <= Cardinality(Unminted) - 1
    <3> DEFINE p == <<t, left[t] + 1>>
    <3>1. left[t] \in 0 .. MaxCalls /\ left[t] + 1 \in 1 .. MaxCalls
      BY <1>1, KernelCallsType DEF Shaped
    <3>2. p \in Unminted
      BY <3>1, <1>0 DEF Unminted
    <3>3. Unminted' \subseteq Unminted \ {p}
      <4> SUFFICES ASSUME NEW u \in Threads, NEW i \in 1 .. MaxCalls,
                          i <= left'[u] \/ (i = left'[u] + 1 /\ call'[u].at = "opening")
                   PROVE  /\ i <= left[u] \/ (i = left[u] + 1 /\ call[u].at = "opening")
                          /\ <<u, i>> # p
        BY DEF Unminted
      <4>1. CASE u = t
        BY <4>1, <1>0, <1>2, <1>c, <3>1
      <4>2. CASE u # t
        BY <4>2, <1>0, <1>2
      <4> QED BY <4>1, <4>2
    <3> HIDE DEF p
    <3>4. /\ IsFiniteSet(Unminted \ {p})
          /\ Cardinality(Unminted \ {p}) = Cardinality(Unminted) - 1
      BY <3>2, UnmintedFinite, FS_RemoveElement
    <3> QED BY <3>3, <3>4, FS_Subset
  <2>2. MaxCalls * Cardinality(Threads) \in Nat /\ table["db"].next \in Nat
    BY KernelCallsType, FS_CardinalityType DEF Numbered, Tables
  <2>3. table'["db"].next <= table["db"].next + 1 /\ table'["db"].next \in Nat
    BY <1>4, <1>6, <2>2 DEF Tables, N
  <2>4. table'["db"].next + Cardinality(Unminted') <= MaxCalls * Cardinality(Threads) + 1
    BY <2>1, <2>2, <2>3, UnmintedFinite DEF Numbered
  <2>5. ASSUME NEW n \in Tables
        PROVE  /\ table'[n].next \in Nat /\ TableStart[n] <= table'[n].next
               /\ \A h \in DOMAIN table'[n].map :
                    h \in Nat /\ TableStart[n] <= h /\ h < table'[n].next
    <3>1. TableStart[n] \in Nat
      BY KernelCallsType DEF TableStart, Tables
    <3> QED BY <3>1, <1>5, <1>6 DEF Numbered
  <2> QED BY <2>4, <2>5 DEF Numbered
<1>13. Apart'
  <2>1. \A n \in Tables : \A h \in DOMAIN table[n].map : table[n].map[h] \in 1 .. Len(made')
    BY <1>7 DEF Apart
  <2>2. \A f \in DOMAIN fds : fds[f] \in 1 .. Len(made')
    BY <1>7 DEF Apart
  <2> QED BY <2>1, <2>2, <1>0, <1>5 DEF Apart
<1>14. Pending'
  <2>1. ASSUME NEW u \in Threads, call'[u].at = "insert"
        PROVE  /\ call'[u].h \in Nat /\ call'[u].r \in 1 .. Len(made') /\ call'[u].d \in Tables
               /\ TableStart[call'[u].d] <= call'[u].h /\ call'[u].h < table'[call'[u].d].next
               /\ call'[u].h \notin DOMAIN table[call'[u].d].map
               /\ \A n \in Tables : \A h \in DOMAIN table[n].map : table[n].map[h] # call'[u].r
               /\ u # t => call'[u].h < table[call'[u].d].next
    <3>1. CASE u = t
      <4>1. N \notin DOMAIN table[D].map
        BY <1>1, <1>4 DEF Numbered, N
      <4>2. \A n \in Tables : \A h \in DOMAIN table[n].map : table[n].map[h] # R
        BY <1>7 DEF Apart
      <4>3. N < table'[D].next
        BY <1>4
      <4> QED BY <3>1, <4>1, <4>2, <4>3, <1>1, <1>2, <1>c, <1>4, <1>7
    <3>2. CASE u # t
      <4>1. call'[u] = call[u] /\ call[u].d \in Tables
        BY <3>2, <2>1, <1>2 DEF CallsApt
      <4>2. /\ call[u].h \in Nat /\ call[u].r \in 1 .. Len(made)
            /\ TableStart[call[u].d] <= call[u].h /\ call[u].h < table[call[u].d].next
            /\ call[u].h \notin DOMAIN table[call[u].d].map
            /\ \A n \in Tables : \A h \in DOMAIN table[n].map : table[n].map[h] # call[u].r
        BY <4>1, <2>1 DEF Pending
      <4>3. call[u].h < table'[call[u].d].next
        BY <4>1, <4>2, <1>6
      <4> QED BY <4>1, <4>2, <4>3, <1>7
    <3> QED BY <3>1, <3>2
  <2>2. ASSUME NEW u \in Threads, NEW v \in Threads, u # v, call'[u].at = "insert",
               call'[v].at = "insert", call'[u].d = call'[v].d
        PROVE  call'[v].h # call'[u].h
    <3>1. CASE u # t /\ v # t
      BY <3>1, <2>2, <1>2 DEF Pending
    <3>2. CASE u = t
      BY <3>2, <2>1, <2>2, <1>2, <1>c, <1>4 DEF N
    <3>3. CASE v = t
      BY <3>3, <2>1, <2>2, <1>2, <1>c, <1>4 DEF N
    <3> QED BY <3>1, <3>2, <3>3
  <2> QED BY <2>1, <2>2, <1>5 DEF Pending
<1>15. Exclusive'
  <2>2. ASSUME NEW u \in Threads, NEW v \in Threads, NEW m \in mine'[v], Claiming(u)'
        PROVE  m.r # call'[u].r
    BY <2>2, <1>0, <1>2, <1>c, <1>7 DEF Exclusive, Claiming
  <2>3. ASSUME NEW u \in Threads, NEW v \in Threads, Claiming(u)', Claiming(v)',
               call'[u].r = call'[v].r
        PROVE  u = v
    BY <2>3, <1>2, <1>c, <1>7 DEF Exclusive, Claiming
  <2> QED BY <2>2, <2>3, <1>0 DEF Exclusive
<1>16. Placed'
  <2>1. ASSUME NEW d \in Domains, NEW h, NEW r, Located(d, h, r) PROVE Located(d, h, r)'
    BY <2>1, <1>0, <1>5 DEF Located, Holds, Domains, Tables, Raw
  <2>2. ASSUME NEW u \in Threads, NEW m \in mine'[u]
        PROVE  Located(m.d, m.h, m.r)' /\ (Raw(m.d) => made'[m.r] \in Kinds[m.d])
    <3>1. m.d \in Domains /\ m.r \in 1 .. Len(made) /\ m \in mine[u]
      BY <1>0, ClaimBounds DEF Handle, Domains
    <3> QED BY <3>1, <2>1, <1>3 DEF Placed
  <2>3. ASSUME NEW u \in Threads, call'[u].at = "remove"
        PROVE  Located(call[u].d, call[u].h, call[u].r)'
    <3>1. /\ call'[u] = call[u] /\ Located(call[u].d, call[u].h, call[u].r)
          /\ call[u].d \in Tables
      BY <2>3, <1>2, <1>c DEF Placed, CallsApt
    <3> QED BY <3>1, <1>0, <1>5 DEF Located, Holds, Tables, Raw
  <2> QED BY <2>2, <2>3 DEF Placed
<1>17. SlotsExact'
  <2> SUFFICES ASSUME NEW d \in Domains
               PROVE  /\ held'[d] = Cardinality(Live(d)') + Cardinality(Busy(d)')
                      /\ held'[d] <= Ceiling[d]
    BY DEF SlotsExact, Busy, Slot
  <2>1. Busy(d)' = Busy(d)
    BY <1>0, <1>2, <1>c DEF Busy, Slot, D
  <2>2. Live(d)' = Live(d)
    <3>1. CASE Raw(d)
      <4>1. \A r \in Range(fds) : r \in 1 .. Len(made)
        BY DEF Range, Apart
      <4> QED BY <4>1, <3>1, <1>0, <1>3 DEF Live
    <3>2. CASE ~Raw(d)
      <4>1. d \in Tables
        BY <3>2 DEF Raw, Domains, Tables
      <4> QED BY <4>1, <3>2, <1>5 DEF Live, Range
    <3> QED BY <3>1, <3>2
  <2> QED BY <2>1, <2>2, <1>0, SlotsRead
<1> QED BY <1>10, <1>11, <1>12, <1>13, <1>14, <1>15, <1>16, <1>17

\* The entry is stored and its owner gets the number: the claim passes from
\* the call to the thread, the slot from the call to the entry.
LEMMA InsertKeeps ==
  ASSUME KernelInv, NEW t \in Threads, Insert(t)
  PROVE  KernelInv'
<1> USE DEF KernelInv
<1> DEFINE D == call[t].d
           H == call[t].h
           R == call[t].r
           M == Owned(D, H, R)
<1>0. /\ call[t].at = "insert" /\ call' = [call EXCEPT ![t] = Idle]
      /\ table' = [table EXCEPT ![D].map = Including(@, H, R)]
      /\ fds' = fds /\ held' = held /\ left' = left /\ made' = made
      /\ mine' = [mine EXCEPT ![t] = @ \cup {M}]
  BY DEF Insert, Return
<1>1. /\ D \in Tables /\ H \in Nat /\ R \in 1 .. Len(made) /\ Len(made) \in Nat
      /\ TableStart[D] <= H /\ H < table[D].next /\ H \notin DOMAIN table[D].map
      /\ \A n \in Tables : \A h \in DOMAIN table[n].map : table[n].map[h] # R
      /\ \A u \in Threads \ {t} : call[u].at = "insert" /\ call[u].d = D => call[u].h # H
  BY <1>0 DEF CallsApt, Pending, Shaped
<1>2. /\ call'[t] = Idle /\ \A u \in Threads : u # t => call'[u] = call[u]
      /\ DOMAIN call' = Threads /\ \A u \in Threads : IsCall(call'[u])
      /\ call'[t].at = "idle" /\ call'[t].d = "none"
  BY <1>0, IdleIs, CallAt
<1>3. /\ DOMAIN table' = Tables
      /\ table'[D].next = table[D].next /\ table'[D].map = Including(table[D].map, H, R)
      /\ \A n \in Tables : n # D => table'[n] = table[n]
      /\ \A n \in Tables : table'[n] = [next |-> table'[n].next, map |-> table'[n].map]
  <2>1. PICK g : g = Including(table[D].map, H, R)
    OBVIOUS
  <2>2. table' = [table EXCEPT ![D].map = g]
    BY <1>0, <2>1
  <2> HIDE DEF D, H, R
  <2>3. table'[D] = [next |-> table[D].next, map |-> g]
    BY <2>2, <1>1 DEF Shaped
  <2>4. DOMAIN table' = Tables /\ \A n \in Tables : n # D => table'[n] = table[n]
    BY <2>2 DEF Shaped
  <2>5. table'[D].next = table[D].next /\ table'[D].map = g
    BY <2>3
  <2>6. \A n \in Tables : table'[n] = [next |-> table'[n].next, map |-> table'[n].map]
    BY <2>3, <2>4 DEF Shaped
  <2> QED BY <2>1, <2>4, <2>5, <2>6
<1>4. /\ DOMAIN table'[D].map = {H} \cup DOMAIN table[D].map /\ table'[D].map[H] = R
      /\ \A h \in DOMAIN table[D].map : table'[D].map[h] = table[D].map[h]
  <2>1. PICK f, g, x, v : f = table[D].map /\ g = table'[D].map /\ x = H /\ v = R
    OBVIOUS
  <2>2. g = Including(f, x, v)
    BY <1>3, <2>1, Zenon
  <2>3. x \notin DOMAIN f
    BY <1>1, <2>1, Zenon
  <2>4. DOMAIN g = {x} \cup DOMAIN f /\ g[x] = v /\ \A h \in DOMAIN f : g[h] = f[h]
    BY <2>2, <2>3 DEF Including
  <2> QED BY <2>1, <2>4, Zenon
<1>5. /\ M.d = (IF D = "plugin" THEN "db" ELSE D) /\ M.h = H /\ M.r = R /\ M \in Handle
  BY <1>1 DEF Owned, Handle, Tables
<1>6. /\ mine'[t] = mine[t] \cup {M} /\ \A u \in Threads : u # t => mine'[u] = mine[u]
      /\ mine' \in [Threads -> SUBSET Handle]
  BY <1>0, <1>5 DEF Shaped
<1> HIDE DEF D, H, R, M
<1>7. /\ \A u \in Threads : \A m \in mine[u] : m.r # R
      /\ \A u \in Threads : Claiming(u) /\ u # t => call[u].r # R
  BY <1>0 DEF Exclusive, Claiming, R
<1>8. \A u \in Threads : \A m \in mine'[u] : m \in mine[u] \/ (u = t /\ m = M)
  BY <1>6
<1>9. \A u \in Threads : call'[u].at \in Touch => u # t /\ call'[u] = call[u]
  BY <1>2 DEF Touch, Slot
<1>a. \A n \in Tables : table'[n].next = table[n].next
  BY <1>3
<1>b. \A n \in Tables : \A h \in DOMAIN table'[n].map :
        \/ h \in DOMAIN table[n].map /\ table'[n].map[h] = table[n].map[h]
        \/ n = D /\ h = H /\ table'[n].map[h] = R
  BY <1>3, <1>4
<1>d. \A n \in Tables : \A h \in DOMAIN table[n].map :
        h \in DOMAIN table'[n].map /\ table'[n].map[h] = table[n].map[h]
  BY <1>3, <1>4
<1>10. Shaped'
  BY <1>0, <1>2, <1>3, <1>6 DEF Shaped
<1>11. CallsApt'
  BY <1>0, <1>9 DEF CallsApt, Touch, Slot
<1>12. Numbered'
  <2>1. left' \in [Threads -> 0 .. MaxCalls]
    BY <1>0 DEF Shaped
  <2>2. Cardinality(Unminted') <= Cardinality(Unminted)
    BY <1>0, <1>2, <2>1, UnmintedShrinks
  <2>3. MaxCalls * Cardinality(Threads) \in Nat /\ table["db"].next \in Nat
        /\ table'["db"].next = table["db"].next
    BY <1>a, KernelCallsType, FS_CardinalityType DEF Numbered, Tables
  <2>4. table'["db"].next + Cardinality(Unminted') <= MaxCalls * Cardinality(Threads) + 1
    BY <2>2, <2>3, UnmintedFinite DEF Numbered
  <2>5. ASSUME NEW n \in Tables
        PROVE  /\ table'[n].next \in Nat /\ TableStart[n] <= table'[n].next
               /\ \A h \in DOMAIN table'[n].map :
                    h \in Nat /\ TableStart[n] <= h /\ h < table'[n].next
    BY <1>1, <1>a, <1>b DEF Numbered
  <2> QED BY <2>4, <2>5 DEF Numbered
<1>13. Apart'
  <2>1. \A n \in Tables : \A h \in DOMAIN table'[n].map : table'[n].map[h] \in 1 .. Len(made)
    BY <1>b, <1>1 DEF Apart
  <2>2. ASSUME NEW n \in Tables, NEW h \in DOMAIN table'[n].map, NEW i \in DOMAIN table'[n].map,
               table'[n].map[h] = table'[n].map[i]
        PROVE  h = i
    BY <2>2, <1>b, <1>1 DEF Apart
  <2> QED BY <2>1, <2>2, <1>0 DEF Apart
<1>14. Pending'
  <2>1. ASSUME NEW u \in Threads, call'[u].at = "insert"
        PROVE  /\ u # t /\ call'[u] = call[u] /\ call[u].at = "insert" /\ call[u].d \in Tables
               /\ call[u].h \notin DOMAIN table'[call[u].d].map
               /\ \A n \in Tables : \A h \in DOMAIN table'[n].map : table'[n].map[h] # call[u].r
    <3>1. u # t /\ call'[u] = call[u]
      BY <2>1, <1>9 DEF Touch, Slot
    <3>2. call[u].at = "insert" /\ call[u].d \in Tables /\ call[u].r # R
      BY <3>1, <2>1, <1>7 DEF CallsApt, Claiming
    <3>3. call[u].h \notin DOMAIN table'[call[u].d].map
      BY <3>1, <3>2, <1>1, <1>b DEF Pending
    <3>4. \A n \in Tables : \A h \in DOMAIN table'[n].map : table'[n].map[h] # call[u].r
      BY <3>1, <3>2, <1>b DEF Pending
    <3> QED BY <3>1, <3>2, <3>3, <3>4
  <2> QED BY <2>1, <1>0, <1>a DEF Pending
<1>15. Exclusive'
  <2>1. ASSUME NEW u \in Threads, NEW v \in Threads, NEW m \in mine'[u], NEW o \in mine'[v],
               m.r = o.r
        PROVE  u = v /\ m = o
    BY <1>7, <1>8, <1>5, <2>1 DEF Exclusive
  <2>2. ASSUME NEW u \in Threads, NEW v \in Threads, NEW m \in mine'[v], Claiming(u)'
        PROVE  m.r # call'[u].r
    <3>1. Claiming(u) /\ call'[u] = call[u] /\ u # t
      BY <2>2, <1>9 DEF Claiming, Touch, Slot
    <3> QED BY <3>1, <1>7, <1>8, <1>5 DEF Exclusive
  <2>3. ASSUME NEW u \in Threads, NEW v \in Threads, Claiming(u)', Claiming(v)',
               call'[u].r = call'[v].r
        PROVE  u = v
    BY <2>3, <1>9 DEF Exclusive, Claiming, Touch, Slot
  <2> QED BY <2>1, <2>2, <2>3 DEF Exclusive
<1>16. Placed'
  <2>1. ASSUME NEW d \in Domains, NEW h, NEW r, Located(d, h, r) PROVE Located(d, h, r)'
    BY <2>1, <1>0, <1>d DEF Located, Holds, Domains, Tables, Raw
  <2>2. ASSUME NEW u \in Threads, NEW m \in mine'[u]
        PROVE  Located(m.d, m.h, m.r)' /\ (Raw(m.d) => made'[m.r] \in Kinds[m.d])
    <3>1. CASE m \in mine[u]
      <4>1. m.d \in Domains
        BY <3>1, ClaimBounds DEF Handle, Domains
      <4> QED BY <4>1, <3>1, <2>1, <1>0 DEF Placed
    <3>2. CASE m = M
      <4>0. m.d = (IF D = "plugin" THEN "db" ELSE D) /\ m.h = H /\ m.r = R
        BY <3>2, <1>5
      <4>1. H \in DOMAIN table'[D].map /\ table'[D].map[H] = R
        BY <1>4
      <4>2. ~Raw(m.d) /\ (m.d = D \/ (m.d = "db" /\ D = "plugin"))
        BY <4>0, <1>1 DEF Raw, Tables
      <4> QED BY <4>0, <4>1, <4>2 DEF Located, Holds
    <3> QED BY <3>1, <3>2, <1>8
  <2>3. ASSUME NEW u \in Threads, call'[u].at = "remove"
        PROVE  Located(call[u].d, call[u].h, call[u].r)'
    <3>1. /\ call'[u] = call[u] /\ Located(call[u].d, call[u].h, call[u].r)
          /\ call[u].d \in Tables
      BY <2>3, <1>9 DEF Placed, CallsApt, Touch, Slot
    <3> QED BY <3>1, <1>0, <1>d DEF Located, Holds, Tables, Raw
  <2> QED BY <2>2, <2>3 DEF Placed
<1>17. SlotsExact'
  <2> SUFFICES ASSUME NEW d \in Domains
               PROVE  /\ held'[d] = Cardinality(Live(d)') + Cardinality(Busy(d)')
                      /\ held'[d] <= Ceiling[d]
    BY DEF SlotsExact, Busy, Slot
  <2>1. /\ held[d] = Cardinality(Live(d)) + Cardinality(Busy(d)) /\ held[d] <= Ceiling[d]
        /\ Cardinality(Busy(d)) \in Nat /\ Cardinality(Live(d)) \in Nat
        /\ IsFiniteSet(Busy(d)) /\ IsFiniteSet(Live(d))
    BY SlotsRead, FiniteParts, FS_CardinalityType
  <2>4. CASE d = D
    <3>1. Busy(d)' = Busy(d) \ {t} /\ t \in Busy(d)
      BY <1>0, <1>2, <2>4 DEF Busy, Slot, D
    <3>2. Live(d)' = Live(d) \cup {R} /\ R \notin Live(d)
      <4>1. ~Raw(d)
        BY <2>4, <1>1 DEF Raw, Tables
      <4>2. Range(table'[D].map) = Range(table[D].map) \cup {R}
        BY <1>4 DEF Range
      <4>3. R \notin Range(table[D].map)
        BY <1>1 DEF Range
      <4> QED BY <4>1, <4>2, <4>3, <2>4 DEF Live
    <3>3. Cardinality(Busy(d)') = Cardinality(Busy(d)) - 1
      BY <3>1, <2>1, FS_RemoveElement, ZenonT(60)
    <3>4. Cardinality(Live(d)') = Cardinality(Live(d)) + 1
      BY <3>2, <2>1, FS_AddElement
    <3> QED BY <3>3, <3>4, <2>1, <1>0
  <2>5. CASE d # D
    <3>1. Busy(d)' = Busy(d)
      BY <1>0, <1>2, <2>5 DEF Busy, Slot, D
    <3>2. Live(d)' = Live(d)
      <4>1. CASE Raw(d)
        BY <4>1, <1>0 DEF Live, Range
      <4>2. CASE ~Raw(d)
        <5>1. d \in Tables /\ table'[d] = table[d]
          BY <4>2, <2>5, <1>3 DEF Raw, Domains, Tables
        <5> QED BY <4>2, <5>1 DEF Live, Range
      <4> QED BY <4>1, <4>2
    <3> QED BY <3>1, <3>2, <2>1, <1>0
  <2> QED BY <2>4, <2>5
<1> QED BY <1>10, <1>11, <1>12, <1>13, <1>14, <1>15, <1>16, <1>17

\* The handle leaves its owner as stop begins: a descriptor is closed at once
\* and its slot is the call's; a connection is claimed until it is removed.
LEMMA StopKeeps ==
  ASSUME KernelInv, NEW t \in Threads, NEW m \in mine[t], Stop(t, m)
  PROVE  KernelInv'
<1> USE DEF KernelInv
<1> DEFINE c == Call("stop", IF Raw(m.d) THEN "release" ELSE "remove", m.d, m.h, m.r, Nil)
<1>0. /\ call' = [call EXCEPT ![t] = c] /\ mine' = [mine EXCEPT ![t] = @ \ {m}]
      /\ fds' = (IF Raw(m.d) THEN Without(fds, m.h) ELSE fds)
      /\ held' = held /\ table' = table /\ made' = made
  BY DEF Stop, Enter
<1>1. /\ call[t].at = "idle" /\ left[t] > 0
      /\ left' \in [Threads -> 0 .. MaxCalls] /\ left'[t] = left[t] - 1
      /\ \A u \in Threads : u # t => left'[u] = left[u]
  BY Begun DEF Stop
<1>c. /\ IsCall(c) /\ c.d = m.d /\ c.h = m.h /\ c.r = m.r
      /\ c.at = (IF Raw(m.d) THEN "release" ELSE "remove")
  BY DEF Call, IsCall
<1>2. /\ call'[t] = c /\ \A u \in Threads : u # t => call'[u] = call[u]
      /\ DOMAIN call' = Threads /\ \A u \in Threads : IsCall(call'[u])
  BY <1>0, <1>c, CallAt
<1>3. /\ m \in Handle /\ m.d \in {"tcp", "file", "db", "mq"} /\ m.r \in 1 .. Len(made)
      /\ m.h \in Nat /\ Located(m.d, m.h, m.r)
      /\ Raw(m.d) => made[m.r] \in Kinds[m.d]
  BY ClaimBounds DEF Handle, Placed
<1>4. /\ mine'[t] = mine[t] \ {m} /\ \A u \in Threads : u # t => mine'[u] = mine[u]
      /\ mine' \in [Threads -> SUBSET Handle]
  BY <1>0 DEF Shaped
<1> HIDE DEF c
<1>5. /\ \A u \in Threads : \A o \in mine'[u] : o \in mine[u] /\ o.r # m.r
      /\ \A u \in Threads : Claiming(u) => call[u].r # m.r
  BY <1>4 DEF Exclusive
<1>6. /\ \A f \in DOMAIN fds' : f \in DOMAIN fds /\ fds'[f] = fds[f]
      /\ \A f \in DOMAIN fds : f \in DOMAIN fds' \/ (Raw(m.d) /\ f = m.h /\ fds[f] = m.r)
  <2>1. CASE Raw(m.d)
    <3>1. fds[m.h] = m.r
      BY <2>1, <1>3 DEF Located, Raw
    <3>2. fds' = Without(fds, m.h)
      BY <2>1, <1>0
    <3> QED BY <2>1, <3>1, <3>2 DEF Without
  <2>2. CASE ~Raw(m.d)
    BY <2>2, <1>0
  <2> QED BY <2>1, <2>2
<1>10. Shaped'
  BY <1>0, <1>1, <1>2, <1>4 DEF Shaped
<1>11. CallsApt'
  <2>1. ASSUME NEW u \in Threads, u # t PROVE call'[u] = call[u] /\ left'[u] = left[u]
    BY <2>1, <1>1, <1>2
  <2>2. m.d \in Domains /\ (~Raw(m.d) => m.d \in Tables)
    BY <1>3 DEF Domains, Tables, Raw
  <2> QED BY <2>1, <2>2, <1>2, <1>c DEF CallsApt
<1>12. Numbered'
  BY <1>0, <1>1, <1>2, <1>c, UnmintedShrinks, NumbersStay
<1>13. Apart'
  BY <1>0, <1>6 DEF Apart
<1>14. Pending'
  BY <1>0, <1>2, <1>c DEF Pending
<1>15. Exclusive'
  <2>1. ASSUME NEW u \in Threads, NEW v \in Threads, NEW n \in mine'[u], NEW o \in mine'[v],
               n.r = o.r
        PROVE  u = v /\ n = o
    BY <1>5, <2>1 DEF Exclusive
  <2>2. ASSUME NEW u \in Threads, NEW v \in Threads, NEW o \in mine'[v], Claiming(u)'
        PROVE  o.r # call'[u].r
    <3>1. CASE u = t
      BY <3>1, <1>2, <1>c, <1>5
    <3>2. CASE u # t
      <4>1. Claiming(u) /\ call'[u] = call[u]
        BY <3>2, <2>2, <1>2 DEF Claiming
      <4> QED BY <4>1, <1>5 DEF Exclusive
    <3> QED BY <3>1, <3>2
  <2>3. ASSUME NEW u \in Threads, NEW v \in Threads, Claiming(u)', Claiming(v)',
               call'[u].r = call'[v].r
        PROVE  u = v
    <3>1. \A w \in Threads : w # t /\ Claiming(w)' => Claiming(w) /\ call'[w] = call[w]
      BY <1>2 DEF Claiming
    <3> QED BY <3>1, <2>3, <1>2, <1>c, <1>5 DEF Exclusive
  <2> QED BY <2>1, <2>2, <2>3 DEF Exclusive
<1>16. Placed'
  <2>1. ASSUME NEW d, NEW h, NEW r, Located(d, h, r), r # m.r PROVE Located(d, h, r)'
    BY <2>1, <1>0, <1>6 DEF Located, Holds
  <2>2. ASSUME NEW u \in Threads, NEW o \in mine'[u]
        PROVE  Located(o.d, o.h, o.r)' /\ (Raw(o.d) => made'[o.r] \in Kinds[o.d])
    BY <2>1, <1>0, <1>5 DEF Placed
  <2>3. ASSUME NEW u \in Threads, call'[u].at = "remove"
        PROVE  Located(call[u].d, call[u].h, call[u].r)'
    <3>1. CASE u = t
      <4>1. call'[u].d = m.d /\ call'[u].h = m.h /\ call'[u].r = m.r /\ ~Raw(m.d)
        BY <3>1, <2>3, <1>2, <1>c
      <4> QED BY <4>1, <1>0, <1>3 DEF Located, Holds
    <3>2. CASE u # t
      <4>1. /\ call'[u] = call[u] /\ Located(call[u].d, call[u].h, call[u].r)
            /\ call[u].d \in Tables
        BY <3>2, <2>3, <1>2 DEF Placed, CallsApt
      <4> QED BY <4>1, <1>0 DEF Located, Holds, Tables, Raw
    <3> QED BY <3>1, <3>2
  <2> QED BY <2>2, <2>3 DEF Placed
<1>17. SlotsExact'
  <2> SUFFICES ASSUME NEW d \in Domains
               PROVE  /\ held'[d] = Cardinality(Live(d)') + Cardinality(Busy(d)')
                      /\ held'[d] <= Ceiling[d]
    BY DEF SlotsExact, Busy, Slot
  <2>1. /\ held[d] = Cardinality(Live(d)) + Cardinality(Busy(d)) /\ held[d] <= Ceiling[d]
        /\ Cardinality(Busy(d)) \in Nat /\ Cardinality(Live(d)) \in Nat
        /\ IsFiniteSet(Busy(d)) /\ IsFiniteSet(Live(d))
    BY SlotsRead, FiniteParts, FS_CardinalityType
  <2>2. CASE Raw(m.d) /\ d = m.d
    <3>1. Busy(d)' = Busy(d) \cup {t} /\ t \notin Busy(d)
      BY <1>1, <1>2, <1>c, <2>2 DEF Busy, Slot
    <3>2. Live(d)' = Live(d) \ {m.r} /\ m.r \in Live(d)
      <4>1. m.h \in DOMAIN fds /\ fds[m.h] = m.r
        BY <2>2, <1>3 DEF Located, Raw
      <4>2. DOMAIN fds' = DOMAIN fds \ {m.h} /\ \A f \in DOMAIN fds' : fds'[f] = fds[f]
        BY <2>2, <1>0 DEF Without
      <4>3. Range(fds') = Range(fds) \ {m.r} /\ m.r \in Range(fds)
        BY <4>1, <4>2 DEF Range, Apart
      <4> QED BY <4>3, <2>2, <1>0, <1>3 DEF Live
    <3>3. Cardinality(Busy(d)') = Cardinality(Busy(d)) + 1
      BY <3>1, <2>1, FS_AddElement
    <3>4. Cardinality(Live(d)') = Cardinality(Live(d)) - 1
      BY <3>2, <2>1, FS_RemoveElement, ZenonT(60)
    <3> QED BY <3>3, <3>4, <2>1, <1>0
  <2>3. CASE ~(Raw(m.d) /\ d = m.d)
    <3>1. Busy(d)' = Busy(d)
      BY <1>1, <1>2, <1>c, <2>3 DEF Busy, Slot
    <3>2. Live(d)' = Live(d)
      <4>1. CASE ~Raw(d)
        BY <4>1, <1>0 DEF Live, Range
      <4>2. CASE Raw(d) /\ ~Raw(m.d)
        BY <4>2, <1>0 DEF Live, Range
      <4>3. CASE Raw(d) /\ Raw(m.d)
        <5>1. m.h \in DOMAIN fds /\ fds[m.h] = m.r
          BY <4>3, <1>3 DEF Located, Raw
        <5>2. DOMAIN fds' = DOMAIN fds \ {m.h} /\ \A f \in DOMAIN fds' : fds'[f] = fds[f]
          BY <4>3, <1>0 DEF Without
        <5>3. Range(fds') = Range(fds) \ {m.r}
          BY <5>1, <5>2 DEF Range, Apart
        <5>4. made[m.r] \notin Kinds[d]
          <6>1. Kinds["tcp"] = {"stream", "listener"} /\ Kinds["file"] = {"file"}
            BY DEF Kinds
          <6> QED BY <6>1, <4>3, <2>3, <1>3 DEF Raw
        <5> QED BY <5>3, <5>4, <4>3, <1>0 DEF Live
      <4> QED BY <4>1, <4>2, <4>3
    <3> QED BY <3>1, <3>2, <2>1, <1>0
  <2> QED BY <2>2, <2>3
<1> QED BY <1>10, <1>11, <1>12, <1>13, <1>14, <1>15, <1>16, <1>17

\* The numbers of the core table stay below those of the plugin table: the
\* two are never taken for one another.
LEMMA TablesApart ==
  ASSUME Numbered
  PROVE  \A h \in DOMAIN table["db"].map : h \notin DOMAIN table["plugin"].map
<1>1. /\ TableStart["plugin"] = PluginStart /\ PluginStart \in Nat
      /\ MaxCalls * Cardinality(Threads) \in Nat
      /\ PluginStart > MaxCalls * Cardinality(Threads)
  BY KernelCallsType, FS_CardinalityType DEF TableStart
<1>2. table["db"].next \in Nat /\ table["db"].next <= PluginStart
  BY <1>1, UnmintedFinite DEF Numbered, Tables
<1> QED BY <1>1, <1>2 DEF Numbered, Tables

\* The entry removed is the one the handle named; the slot is the call's.
LEMMA RemoveKeeps ==
  ASSUME KernelInv, NEW t \in Threads, call[t].at = "remove",
         call[t].h \in DOMAIN table[call[t].d].map,
         table' = [table EXCEPT ![call[t].d].map = Without(@, call[t].h)],
         call' = [call EXCEPT ![t].at = "release"],
         UNCHANGED <<fds, held, mine, made, left>>
  PROVE  KernelInv'
<1> USE DEF KernelInv
<1> DEFINE D == call[t].d
           H == call[t].h
           R == call[t].r
           c == Call(call[t].k, "release", D, H, R, call[t].arg)
<1>0. fds' = fds /\ held' = held /\ mine' = mine /\ made' = made /\ left' = left
  OBVIOUS
<1>c. /\ call' = [call EXCEPT ![t] = c]
      /\ IsCall(c) /\ c.at = "release" /\ c.d = D /\ c.h = H /\ c.r = R
  <2>1. call' = [call EXCEPT ![t] = [call[t] EXCEPT !.at = "release"]]
    BY DEF Shaped
  <2>2. [call[t] EXCEPT !.at = "release"] = c
    BY CallWith DEF Shaped
  <2> QED BY <2>1, <2>2 DEF Call, IsCall
<1>1. /\ D \in Tables /\ H \in DOMAIN table[D].map /\ table[D].map[H] = R
  <2>1. D \in Tables /\ Located(D, H, R)
    BY DEF CallsApt, Placed
  <2>2. Holds(D, H, R)
    BY <2>1, TablesApart DEF Located, Holds, Raw, Tables
  <2> QED BY <2>1, <2>2 DEF Holds
<1>2. /\ call'[t] = c /\ \A u \in Threads : u # t => call'[u] = call[u]
      /\ DOMAIN call' = Threads /\ \A u \in Threads : IsCall(call'[u])
  BY <1>c, CallAt, Zenon
<1>3. /\ DOMAIN table' = Tables /\ table'[D].next = table[D].next
      /\ table'[D].map = Without(table[D].map, H)
      /\ \A n \in Tables : n # D => table'[n] = table[n]
      /\ \A n \in Tables : table'[n] = [next |-> table'[n].next, map |-> table'[n].map]
  <2>1. PICK g : g = Without(table[D].map, H)
    OBVIOUS
  <2>2. table' = [table EXCEPT ![D].map = g]
    BY <2>1
  <2> HIDE DEF D, H, R
  <2>3. table'[D] = [next |-> table[D].next, map |-> g]
    BY <2>2, <1>1 DEF Shaped
  <2>4. DOMAIN table' = Tables /\ \A n \in Tables : n # D => table'[n] = table[n]
    BY <2>2 DEF Shaped
  <2>5. table'[D].next = table[D].next /\ table'[D].map = g
    BY <2>3
  <2>6. \A n \in Tables : table'[n] = [next |-> table'[n].next, map |-> table'[n].map]
    BY <2>3, <2>4, Zenon DEF Shaped
  <2> QED BY <2>1, <2>4, <2>5, <2>6, Zenon
<1> HIDE DEF D, H, R, c
<1>4. /\ DOMAIN table'[D].map = DOMAIN table[D].map \ {H}
      /\ \A h \in DOMAIN table'[D].map : table'[D].map[h] = table[D].map[h]
  <2>1. PICK f, g, x : f = table[D].map /\ g = table'[D].map /\ x = H
    OBVIOUS
  <2>2. g = Without(f, x)
    BY <1>3, <2>1, Zenon
  <2>3. DOMAIN g = DOMAIN f \ {x} /\ \A h \in DOMAIN g : g[h] = f[h]
    BY <2>2 DEF Without
  <2> QED BY <2>1, <2>3, Zenon
<1>5. /\ \A n \in Tables : table'[n].next = table[n].next
      /\ \A n \in Tables : \A h \in DOMAIN table'[n].map :
           h \in DOMAIN table[n].map /\ table'[n].map[h] = table[n].map[h]
      /\ \A n \in Tables : \A h \in DOMAIN table[n].map :
           h \in DOMAIN table'[n].map \/ table[n].map[h] = R
  <2>1. ASSUME NEW n \in Tables
        PROVE  /\ table'[n].next = table[n].next
               /\ \A h \in DOMAIN table'[n].map :
                    h \in DOMAIN table[n].map /\ table'[n].map[h] = table[n].map[h]
               /\ \A h \in DOMAIN table[n].map :
                    h \in DOMAIN table'[n].map \/ table[n].map[h] = R
    <3>1. CASE n = D
      <4>1. table'[D].next = table[D].next
        BY <1>3, Zenon
      <4>2. \A h \in DOMAIN table'[D].map :
              h \in DOMAIN table[D].map /\ table'[D].map[h] = table[D].map[h]
        BY <1>4, Zenon
      <4>3. \A h \in DOMAIN table[D].map : h \in DOMAIN table'[D].map \/ table[D].map[h] = R
        BY <1>1, <1>4, Zenon
      <4> QED BY <3>1, <4>1, <4>2, <4>3, Zenon
    <3>2. CASE n # D
      BY <1>3, <3>2, Zenon
    <3> QED BY <3>1, <3>2
  <2> QED BY <2>1, Zenon
<1>6. /\ \A u \in Threads : \A m \in mine[u] : m.r # R
      /\ \A u \in Threads : Claiming(u) /\ u # t => call[u].r # R
  BY DEF Exclusive, Claiming, R
<1>7. \A u \in Threads : Claiming(u)' => u # t /\ Claiming(u) /\ call'[u] = call[u]
  BY <1>2, <1>c DEF Claiming
<1>10. Shaped'
  BY <1>0, <1>2, <1>3 DEF Shaped
<1>11. CallsApt'
  <2>1. D \in Domains
    BY <1>1 DEF Tables, Domains
  <2> QED BY <2>1, <1>0, <1>2, <1>c, ZenonT(60) DEF CallsApt
<1>12. Numbered'
  <2>1. left' \in [Threads -> 0 .. MaxCalls]
    BY <1>0 DEF Shaped
  <2>2. Cardinality(Unminted') <= Cardinality(Unminted)
    BY <1>0, <1>2, <1>c, <2>1, UnmintedShrinks
  <2>3. MaxCalls * Cardinality(Threads) \in Nat /\ table["db"].next \in Nat
        /\ table'["db"].next = table["db"].next
    <3>1. MaxCalls * Cardinality(Threads) \in Nat
      BY KernelCallsType, FS_CardinalityType
    <3>2. "db" \in Tables
      BY DEF Tables
    <3>3. table["db"].next \in Nat
      BY <3>2 DEF Numbered
    <3>4. table'["db"].next = table["db"].next
      BY <1>5, <3>2, Zenon
    <3> QED BY <3>1, <3>3, <3>4
  <2>4. table'["db"].next + Cardinality(Unminted') <= MaxCalls * Cardinality(Threads) + 1
    BY <2>2, <2>3, UnmintedFinite DEF Numbered
  <2> QED BY <2>4, <1>5, Zenon DEF Numbered
<1>13. Apart'
  <2>1. ASSUME NEW n \in Tables
        PROVE  /\ \A h \in DOMAIN table'[n].map : table'[n].map[h] \in 1 .. Len(made)
               /\ \A h, i \in DOMAIN table'[n].map :
                    table'[n].map[h] = table'[n].map[i] => h = i
    <3>1. PICK f, g : f = table[n].map /\ g = table'[n].map
      OBVIOUS
    <3>2. \A h \in DOMAIN g : h \in DOMAIN f /\ g[h] = f[h]
      <4>1. \A h \in DOMAIN table'[n].map :
              h \in DOMAIN table[n].map /\ table'[n].map[h] = table[n].map[h]
        BY <1>5
      <4> QED BY <3>1, <4>1, Zenon
    <3>3. /\ \A h \in DOMAIN f : f[h] \in 1 .. Len(made)
          /\ \A h, i \in DOMAIN f : f[h] = f[i] => h = i
      BY <3>1, Zenon DEF Apart
    <3>4. /\ \A h \in DOMAIN g : g[h] \in 1 .. Len(made)
          /\ \A h, i \in DOMAIN g : g[h] = g[i] => h = i
      BY <3>2, <3>3
    <3> QED BY <3>1, <3>4, ZenonT(30)
  <2> QED BY <1>0, <2>1, Zenon DEF Apart
<1>14. Pending'
  <2>1. ASSUME NEW u \in Threads, call'[u].at = "insert"
        PROVE  u # t /\ call'[u] = call[u] /\ call[u].d \in Tables
    BY <2>1, <1>2, <1>c DEF CallsApt
  <2> QED BY <2>1, <1>0, <1>5, SMTT(30) DEF Pending
<1>15. Exclusive'
  BY <1>0, <1>7 DEF Exclusive
<1>16. Placed'
  <2>1. ASSUME NEW d \in Domains, NEW h, NEW r, Located(d, h, r), r # R PROVE Located(d, h, r)'
    <3>1. ASSUME NEW n \in Tables, Holds(n, h, r) PROVE Holds(n, h, r)'
      BY <1>5, <2>1, <3>1, Zenon DEF Holds
    <3>2. "plugin" \in Tables /\ (~Raw(d) => d \in Tables)
      BY DEF Domains, Tables, Raw
    <3> QED BY <1>0, <2>1, <3>1, <3>2, Zenon DEF Located, Raw
  <2>2. ASSUME NEW u \in Threads, NEW m \in mine'[u]
        PROVE  Located(m.d, m.h, m.r)' /\ (Raw(m.d) => made'[m.r] \in Kinds[m.d])
    <3>1. m.d \in Domains /\ m \in mine[u]
      BY <1>0, ClaimBounds DEF Handle, Domains
    <3> QED BY <3>1, <2>1, <1>0, <1>6 DEF Placed
  <2>3. ASSUME NEW u \in Threads, call'[u].at = "remove"
        PROVE  Located(call[u].d, call[u].h, call[u].r)'
    <3>1. u # t /\ call'[u] = call[u] /\ call[u].at = "remove"
      BY <2>3, <1>7 DEF Claiming
    <3>2. Located(call[u].d, call[u].h, call[u].r) /\ call[u].d \in Tables /\ call[u].r # R
      BY <3>1, <1>6 DEF Placed, CallsApt, Claiming
    <3>3. PICK d, h, r : d \in Tables /\ d = call[u].d /\ h = call[u].h /\ r = call[u].r
      BY <3>2
    <3>4. Holds(d, h, r) \/ (d = "db" /\ Holds("plugin", h, r))
      <4>1. Located(d, h, r)
        BY <3>2, <3>3
      <4> QED BY <4>1, <3>3 DEF Located, Holds, Raw, Tables
    <3>5. \A n \in Tables : Holds(n, h, r) => h \in DOMAIN table'[n].map /\ table'[n].map[h] = r
      BY <3>2, <3>3, <1>5 DEF Holds
    <3>6. ~Raw(d) /\ "plugin" \in Tables
      BY <3>3 DEF Raw, Tables
    <3> QED BY <3>1, <3>3, <3>4, <3>5, <3>6, Zenon DEF Located, Holds
  <2> QED BY <2>2, <2>3 DEF Placed
<1>17. SlotsExact'
  <2> SUFFICES ASSUME NEW d \in Domains
               PROVE  /\ held'[d] = Cardinality(Live(d)') + Cardinality(Busy(d)')
                      /\ held'[d] <= Ceiling[d]
    BY DEF SlotsExact, Busy, Slot
  <2>1. /\ held[d] = Cardinality(Live(d)) + Cardinality(Busy(d)) /\ held[d] <= Ceiling[d]
        /\ Cardinality(Busy(d)) \in Nat /\ Cardinality(Live(d)) \in Nat
        /\ IsFiniteSet(Busy(d)) /\ IsFiniteSet(Live(d))
    BY SlotsRead, FiniteParts, FS_CardinalityType
  <2>4. CASE d = D
    <3>1. Busy(d)' = Busy(d) \cup {t} /\ t \notin Busy(d)
      <4>1. t \notin Busy(d)
        BY DEF Busy, Slot
      <4>2. call'[t].d = d /\ call'[t].at \in Slot
        BY <1>2, <1>c, <2>4 DEF Slot
      <4> QED BY <4>1, <4>2, <1>2 DEF Busy
    <3>2. Live(d)' = Live(d) \ {R} /\ R \in Live(d)
      <4>1. ~Raw(d)
        BY <2>4, <1>1 DEF Raw, Tables
      <4>2. Range(table'[D].map) = Range(table[D].map) \ {R}
        BY <1>1, <1>4 DEF Range, Apart
      <4>3. R \in Range(table[D].map)
        BY <1>1 DEF Range
      <4> QED BY <4>1, <4>2, <4>3, <2>4 DEF Live
    <3>3. Cardinality(Busy(d)') = Cardinality(Busy(d)) + 1
      BY <3>1, <2>1, FS_AddElement
    <3>4. Cardinality(Live(d)') = Cardinality(Live(d)) - 1
      BY <3>2, <2>1, FS_RemoveElement
    <3> QED BY <3>3, <3>4, <2>1, <1>0
  <2>5. CASE d # D
    <3>1. Busy(d)' = Busy(d)
      BY <1>2, <1>c, <2>5 DEF Busy, Slot, D
    <3>2. Live(d)' = Live(d)
      <4>1. CASE Raw(d)
        BY <4>1, <1>0 DEF Live, Range
      <4>2. CASE ~Raw(d)
        <5>1. d \in Tables /\ table'[d] = table[d]
          BY <4>2, <2>5, <1>3, Zenon DEF Raw, Domains, Tables
        <5> QED BY <4>2, <5>1, Zenon DEF Live, Range
      <4> QED BY <4>1, <4>2
    <3> QED BY <3>1, <3>2, <2>1, <1>0
  <2> QED BY <2>4, <2>5
<1> QED BY <1>10, <1>11, <1>12, <1>13, <1>14, <1>15, <1>16, <1>17

\* A handle that is not in the core table is looked for in the plugins'.
LEMMA LookOnKeeps ==
  ASSUME KernelInv, NEW t \in Threads, call[t].at = "remove", call[t].d = "db",
         call[t].h \notin DOMAIN table["db"].map,
         call' = [call EXCEPT ![t] = [call[t] EXCEPT !.d = "plugin"]],
         UNCHANGED <<fds, held, table, mine, made, left>>
  PROVE  KernelInv'
<1> USE DEF KernelInv
<1> DEFINE c == Call(call[t].k, call[t].at, "plugin", call[t].h, call[t].r, call[t].arg)
<1>0. /\ fds' = fds /\ held' = held /\ table' = table /\ mine' = mine /\ made' = made
      /\ left' = left
  OBVIOUS
<1>c. /\ call' = [call EXCEPT ![t] = c] /\ IsCall(c)
      /\ c.at = "remove" /\ c.d = "plugin" /\ c.h = call[t].h /\ c.r = call[t].r
  <2>1. [call[t] EXCEPT !.d = "plugin"] = c
    BY CallWith DEF Shaped
  <2> QED BY <2>1 DEF Call, IsCall
<1>2. /\ call'[t] = c /\ \A u \in Threads : u # t => call'[u] = call[u]
      /\ DOMAIN call' = Threads /\ \A u \in Threads : IsCall(call'[u])
  BY <1>c, CallAt
<1> HIDE DEF c
<1>3. Located("plugin", call[t].h, call[t].r)
  BY DEF Placed, Located, Holds, Raw
<1>7. \A u \in Threads : Claiming(u)' => Claiming(u) /\ call'[u].r = call[u].r
  BY <1>2, <1>c DEF Claiming
<1>10. Shaped'
  BY <1>0, <1>2, Zenon DEF Shaped
<1>11. CallsApt'
  BY <1>0, <1>2, <1>c DEF CallsApt, Tables
<1>12. Numbered'
  <2>1. left' \in [Threads -> 0 .. MaxCalls]
    BY <1>0 DEF Shaped
  <2> QED BY <1>0, <1>2, <1>c, <2>1, UnmintedShrinks, NumbersStay, Zenon
<1>13. Apart'
  BY <1>0 DEF Apart
<1>14. Pending'
  BY <1>0, <1>2, <1>c DEF Pending
<1>15. Exclusive'
  BY <1>0, <1>7 DEF Exclusive
<1>16. Placed'
  <2>1. ASSUME NEW u \in Threads, call'[u].at = "remove"
        PROVE  Located(call[u].d, call[u].h, call[u].r)'
    <3>1. Located(call'[u].d, call'[u].h, call'[u].r)
      BY <2>1, <1>2, <1>c, <1>3 DEF Placed
    <3> QED BY <3>1, <1>0 DEF Located, Holds
  <2> QED BY <2>1, <1>0 DEF Placed, Located, Holds
<1>17. SlotsExact'
  <2>1. ASSUME NEW d \in Domains PROVE Busy(d)' = Busy(d) /\ Live(d)' = Live(d)
    BY <1>0, <1>2, <1>c DEF Busy, Live, Range, Slot
  <2> QED BY <2>1, <1>0, SlotsRead DEF SlotsExact, Busy, Slot
<1> QED BY <1>10, <1>11, <1>12, <1>13, <1>14, <1>15, <1>16, <1>17

-----------------------------------------------------------------------------
(* The calls that leave the resources alone.                               *)

\* A call is a call, whatever its fields.
LEMMA CallIs ==
  ASSUME NEW k, NEW at, NEW d, NEW h, NEW r, NEW arg
  PROVE  /\ IsCall(Call(k, at, d, h, r, arg)) /\ Call(k, at, d, h, r, arg).at = at
         /\ Call(k, at, d, h, r, arg).h = h /\ Call(k, at, d, h, r, arg).k = k
         /\ Call(k, at, d, h, r, arg).arg = arg
BY DEF Call, IsCall

\* A call that begins and stays out of the way.
LEMMA QuietBegin ==
  ASSUME Shaped, NEW t \in Threads, NEW k, Begin(t, k), Still, NEW c, IsCall(c),
         c.at \notin Touch, call' = [call EXCEPT ![t] = c]
  PROVE  Quiet(t)
BY Begun DEF Quiet, Touch, Slot

\* A call that goes on and stays out of the way.
LEMMA QuietStep ==
  ASSUME Shaped, NEW t \in Threads, left' = left, Still, NEW c, IsCall(c),
         call[t].at \notin Touch, c.at \notin Touch, call' = [call EXCEPT ![t] = c]
  PROVE  Quiet(t)
BY DEF Quiet, Shaped

\* A call that begins and returns at once, or returns later.
LEMMA QuietReturn ==
  ASSUME Shaped, NEW t \in Threads, Still, NEW r, Return(t, r), call[t].at \notin Touch,
         left' = left \/ \E k : Begin(t, k)
  PROVE  Quiet(t)
<1>1. IsCall(Idle) /\ Idle.at \notin Touch /\ call' = [call EXCEPT ![t] = Idle]
  BY IdleIs DEF Return, Touch, Slot
<1>2. CASE left' = left
  BY <1>1, <1>2, QuietStep
<1>3. CASE \E k : Begin(t, k)
  BY <1>1, <1>3, QuietBegin
<1> QED BY <1>2, <1>3

\* A call that goes on under another name for where it is, or in another table.
LEMMA QuietGoes ==
  ASSUME Shaped, NEW t \in Threads, Still, left' = left, call[t].at \notin Touch,
         \/ \E at : at \notin Touch /\ GoTo(t, at)
         \/ \E d : Enter(t, [call[t] EXCEPT !.d = d])
  PROVE  Quiet(t)
<1>0. IsCall(call[t])
  BY DEF Shaped
<1>1. ASSUME NEW at, at \notin Touch, GoTo(t, at) PROVE Quiet(t)
  <2>1. call' = [call EXCEPT ![t] = [call[t] EXCEPT !.at = at]]
    BY <1>1 DEF GoTo, Shaped
  <2>2. [call[t] EXCEPT !.at = at] = Call(call[t].k, at, call[t].d, call[t].h, call[t].r, call[t].arg)
    BY <1>0, CallWith
  <2>3. PICK c : c = Call(call[t].k, at, call[t].d, call[t].h, call[t].r, call[t].arg)
    OBVIOUS
  <2>4. IsCall(c) /\ c.at = at
    BY <2>3, CallIs
  <2>5. call' = [call EXCEPT ![t] = c]
    BY <2>1, <2>2, <2>3
  <2> QED BY <2>4, <2>5, <1>1, QuietStep
<1>2. ASSUME NEW d, Enter(t, [call[t] EXCEPT !.d = d]) PROVE Quiet(t)
  <2>1. call' = [call EXCEPT ![t] = [call[t] EXCEPT !.d = d]]
    BY <1>2 DEF Enter
  <2>2. [call[t] EXCEPT !.d = d]
          = Call(call[t].k, call[t].at, d, call[t].h, call[t].r, call[t].arg)
    BY <1>0, CallWith
  <2>3. PICK c : c = Call(call[t].k, call[t].at, d, call[t].h, call[t].r, call[t].arg)
    OBVIOUS
  <2>4. IsCall(c) /\ c.at = call[t].at
    BY <2>3, CallIs
  <2>5. call' = [call EXCEPT ![t] = c]
    BY <2>1, <2>2, <2>3
  <2> QED BY <2>4, <2>5, QuietStep
<1> QED BY <1>1, <1>2

\* Every operation under a table's lock ends with it.
LEMMA QuietFinish ==
  ASSUME Shaped, NEW t \in Threads, NEW r, call[t].at = "op", Finish(t, r)
  PROVE  Quiet(t)
BY QuietReturn DEF Finish, Still, Touch, Slot

\* The lock is taken, the other table is tried, or the handle is unknown.
LEMMA QuietWith ==
  ASSUME Shaped, NEW t \in Threads, NEW missing, With(t, missing)
  PROVE  Quiet(t)
<1>1. /\ call[t].at = "lock" /\ Still /\ left' = left
      /\ \/ GoTo(t, "op")
         \/ Enter(t, [call[t] EXCEPT !.d = "plugin"])
         \/ Return(t, Gives(missing))
  BY DEF With, Still
<1>2. "lock" \notin Touch /\ "op" \notin Touch
  BY DEF Touch, Slot
<1> QED BY <1>1, <1>2, QuietReturn, QuietGoes

\* A call that begins by giving up.
LEMMA QuietGiveUp ==
  ASSUME Shaped, NEW t \in Threads, NEW k, Begin(t, k), Still, NEW d, GiveUp(t, d)
  PROVE  Quiet(t)
<1>1. call[t].at \notin Touch
  BY Begun DEF Touch, Slot
<1> QED BY <1>1, QuietReturn DEF GiveUp, Trap

-----------------------------------------------------------------------------
(* Every step keeps the invariant.                                         *)

\* A use begins: the call waits for the lock.
LEMMA UseKeeps ==
  ASSUME KernelInv, NEW t \in Threads, NEW m, NEW k, NEW arg, Use(t, m, k, arg)
  PROVE  KernelInv'
<1>1. PICK c : c = Call(k, "lock", m.d, m.h, m.r, arg)
  OBVIOUS
<1>2. IsCall(c) /\ c.at = "lock" /\ call' = [call EXCEPT ![t] = c]
  BY <1>1, CallIs DEF Use, Enter
<1>3. Quiet(t)
  BY <1>2, QuietBegin DEF Use, Still, Touch, Slot, KernelInv
<1> QED BY <1>3, QuietKeeps

\* A call that the kernels begin.
LEMMA KernelBeginKeeps ==
  ASSUME KernelInv, NEW t \in Threads, KernelBegin(t)
  PROVE  KernelInv'
<1>s. Shaped
  BY DEF KernelInv
<1>1. ASSUME NEW k \in DOMAIN Opens, BadArgument(t, k) PROVE KernelInv'
  BY <1>1, <1>s, QuietGiveUp, QuietKeeps DEF BadArgument, Still
<1>2. ASSUME NEW k \in DOMAIN Opens, Admit(t, k) PROVE KernelInv'
  <2>1. CASE held[DomainOf(k)] < Ceiling[DomainOf(k)]
    BY <1>2, <2>1, AdmitKeeps DEF Admit
  <2>2. CASE ~(held[DomainOf(k)] < Ceiling[DomainOf(k)])
    <3>1. Begin(t, k) /\ GiveUp(t, DomainOf(k)) /\ Still
      BY <1>2, <2>2 DEF Admit, Still
    <3> QED BY <3>1, <1>s, QuietGiveUp, QuietKeeps
  <2> QED BY <2>1, <2>2
<1>3. ASSUME NEW m \in mine[t], Stop(t, m) PROVE KernelInv'
  BY <1>3, StopKeeps
<1>4. ASSUME NEW m \in mine[t], SendTo(t, m) PROVE KernelInv'
  <2>1. Begin(t, "io") /\ Still /\ \E r : Return(t, r)
    BY <1>4 DEF SendTo, Stream, Still, Trap
  <2>2. call[t].at \notin Touch
    BY <2>1, <1>s, Begun DEF Touch, Slot
  <2> QED BY <2>1, <2>2, <1>s, QuietReturn, QuietKeeps
<1>5. ASSUME NEW m \in mine[t], RecvFrom(t, m) PROVE KernelInv'
  <2>1. Begin(t, "io") /\ Still /\ \E r : Return(t, r)
    BY <1>5 DEF RecvFrom, Stream, Still, Trap
  <2>2. call[t].at \notin Touch
    BY <2>1, <1>s, Begun DEF Touch, Slot
  <2> QED BY <2>1, <2>2, <1>s, QuietReturn, QuietKeeps
<1>6. ASSUME NEW m \in mine[t], NEW k, NEW arg, Use(t, m, k, arg) PROVE KernelInv'
  BY <1>6, UseKeeps
<1>7. ASSUME NEW m \in mine[t], NEW u \in Threads, Move(t, u, m) PROVE KernelInv'
  BY <1>7, MoveKeeps
<1>8. CASE CallBuiltin(t)
  <2>1. Begin(t, "builtin") /\ Still /\ \E r : Return(t, r)
    BY <1>8 DEF CallBuiltin, Still
  <2>2. call[t].at \notin Touch
    BY <2>1, <1>s, Begun DEF Touch, Slot
  <2> QED BY <2>1, <2>2, <1>s, QuietReturn, QuietKeeps
<1> QED BY <1>1, <1>2, <1>3, <1>4, <1>5, <1>6, <1>7, <1>8 DEF KernelBegin

\* A failed consume, or any other failed operation.
LEMMA OpFailsKeeps ==
  ASSUME KernelInv, NEW t \in Threads, NEW k, OpFails(t, k)
  PROVE  KernelInv'
BY QuietFinish, QuietKeeps DEF OpFails, Running, KernelInv

\* A call that goes on inside the kernels.
LEMMA KernelStepKeeps ==
  ASSUME KernelInv, NEW t \in Threads, KernelStep(t)
  PROVE  KernelInv'
<1>s. Shaped
  BY DEF KernelInv
<1>f. ASSUME call[t].at = "op", NEW r, Finish(t, r) PROVE KernelInv'
  BY <1>f, <1>s, QuietFinish, QuietKeeps
<1>1. CASE OpenFails(t)
  BY <1>1, SlotBackKeeps DEF OpenFails, GiveUp, Trap, Return
<1>2. CASE OpenFd(t)
  BY <1>2, OpenFdKeeps
<1>3. CASE Mint(t)
  BY <1>3, MintKeeps
<1>4. CASE Insert(t)
  BY <1>4, InsertKeeps
<1>5. CASE RemoveEntry(t)
  <2>1. CASE call[t].h \in DOMAIN table[call[t].d].map
    BY <1>5, <2>1, RemoveKeeps DEF RemoveEntry, GoTo
  <2>2. CASE call[t].h \notin DOMAIN table[call[t].d].map
    <3>1. call[t].d = "db"
      <4>1. call[t].d \in Tables /\ Located(call[t].d, call[t].h, call[t].r)
        BY <1>5 DEF KernelInv, CallsApt, Placed, RemoveEntry
      <4> QED BY <4>1, <2>2 DEF Located, Holds, Raw, Tables
    <3> QED BY <1>5, <2>2, <3>1, LookOnKeeps DEF RemoveEntry, Enter
  <2> QED BY <2>1, <2>2
<1>6. CASE Release(t)
  BY <1>6, SlotBackKeeps DEF Release, Return
<1>7. ASSUME NEW missing, With(t, missing) PROVE KernelInv'
  BY <1>7, <1>s, QuietWith, QuietKeeps
<1>8. ASSUME NEW k, OpFails(t, k) PROVE KernelInv'
  BY <1>8, OpFailsKeeps
<1>9. CASE PluginExecute(t)
  BY <1>9, <1>f DEF PluginExecute, Running
<1>10. CASE PluginQuery(t)
  BY <1>10, <1>f DEF PluginQuery, Running
<1>11. CASE DbExecute(t)
  <2>1. call[t].at = "op" /\ \E r : Finish(t, r)
    BY <1>11 DEF DbExecute, Running
  <2> QED BY <2>1, <1>f
<1>12. CASE DbQuery(t)
  <2>1. call[t].at = "op" /\ \E r : Finish(t, r)
    BY <1>12 DEF DbQuery, Running
  <2> QED BY <2>1, <1>f
<1>13. CASE MqPublish(t)
  BY <1>13, <1>f DEF MqPublish, Running
<1>14. CASE MqConsume(t)
  BY <1>14, <1>f DEF MqConsume, Running
<1>15. CASE MqConsumeTimesOut(t)
  BY <1>15, <1>f DEF MqConsumeTimesOut, Running
<1> QED BY <1>1, <1>2, <1>3, <1>4, <1>5, <1>6, <1>7, <1>8, <1>9, <1>10, <1>11, <1>12,
           <1>13, <1>14, <1>15 DEF KernelStep

\* A call of the workflow kernels begins, at a place of its own.
LEMMA QuietEnters ==
  ASSUME Shaped, NEW t \in Threads, Still, NEW k, NEW at, NEW d, NEW h, NEW r, NEW arg,
         at \notin Touch, call[t].at \notin Touch, Enter(t, Call(k, at, d, h, r, arg)),
         left' = left \/ \E j : Begin(t, j)
  PROVE  Quiet(t)
<1>1. PICK c : c = Call(k, at, d, h, r, arg)
  OBVIOUS
<1>2. IsCall(c) /\ c.at = at /\ call' = [call EXCEPT ![t] = c]
  BY <1>1, CallIs DEF Enter
<1> QED BY <1>2, QuietBegin, QuietStep

\* One of the actions of a state has run.
LEMMA ActionIs ==
  ASSUME Shaped, NEW t \in Threads, WorkflowAction(t)
  PROVE  call' = [call EXCEPT ![t] = Call(call[t].k, call[t].at, call[t].d, call[t].h,
                                          call[t].r - 1, call[t].arg)]
<1>1. IsCall(call[t])
  BY DEF Shaped
<1>2. PICK r : r = call[t].r - 1
  OBVIOUS
<1>3. call' = [call EXCEPT ![t] = [call[t] EXCEPT !.r = r]]
  BY <1>2 DEF WorkflowAction, Shaped
<1>4. [call[t] EXCEPT !.r = r]
        = Call(call[t].k, call[t].at, call[t].d, call[t].h, r, call[t].arg)
  BY <1>1 DEF IsCall, Call
<1> QED BY <1>2, <1>3, <1>4

\* Workflows and notifications leave the resources alone.
LEMMA WorkflowQuiet ==
  ASSUME Shaped, NEW t \in Threads,
         \/ \E w : WorkflowStart(t, w) \/ WorkflowOverdue(t, w)
         \/ \E w, id, e : WorkflowAdvance(t, w, id, e)
         \/ WorkflowUnsupportedQuery(t)
         \/ WorkflowAction(t) \/ WorkflowSetState(t) \/ WorkflowReturn(t)
         \/ WorkflowListOverdue(t) \/ LoadActiveProviderConfig(t) \/ SendViaProvider(t)
  PROVE  Quiet(t)
<1>n. /\ "entry" \notin Touch /\ "exit" \notin Touch /\ "overdue" \notin Touch
      /\ "post" \notin Touch /\ "idle" \notin Touch /\ "op" \notin Touch
  BY DEF Touch, Slot
<1>b. ASSUME NEW k, Begin(t, k) PROVE call[t].at \notin Touch
  BY <1>b, <1>n, Begun
<1>1. ASSUME NEW w, WorkflowStart(t, w) PROVE Quiet(t)
  BY <1>1, <1>b, <1>n, QuietEnters DEF WorkflowStart, Kernel, Still
<1>2. ASSUME NEW w, WorkflowOverdue(t, w) PROVE Quiet(t)
  BY <1>2, <1>b, <1>n, QuietEnters DEF WorkflowOverdue, Kernel, Still
<1>3. ASSUME NEW w, NEW id, NEW e, WorkflowAdvance(t, w, id, e) PROVE Quiet(t)
  <2>1. /\ Begin(t, "advance") /\ Still
        /\ \/ \E r : Return(t, r)
           \/ \E r, arg : Enter(t, Call("advance", "exit", "none", id, r, arg))
    BY <1>3 DEF WorkflowAdvance, Kernel, Still
  <2> QED BY <2>1, <1>b, <1>n, QuietEnters, QuietReturn
<1>4. CASE WorkflowUnsupportedQuery(t)
  BY <1>4, <1>b, QuietReturn DEF WorkflowUnsupportedQuery, Kernel, Still
<1>5. CASE WorkflowAction(t)
  <2>1. Still /\ left' = left /\ call[t].at \notin Touch
    BY <1>5, <1>n DEF WorkflowAction, Kernel, Still
  <2>2. PICK c : c = Call(call[t].k, call[t].at, call[t].d, call[t].h, call[t].r - 1, call[t].arg)
    OBVIOUS
  <2>3. IsCall(c) /\ c.at = call[t].at
    BY <2>2, CallIs
  <2>4. call' = [call EXCEPT ![t] = c]
    BY <2>2, <1>5, ActionIs
  <2> QED BY <2>1, <2>3, <2>4, QuietStep
<1>6. CASE WorkflowSetState(t)
  <2>1. /\ Still /\ left' = left /\ call[t].at = "exit"
        /\ \E r : Enter(t, Call("advance", "entry", "none", call[t].h, r, Nil))
    BY <1>6 DEF WorkflowSetState, Kernel, Still
  <2> QED BY <2>1, <1>n, QuietEnters
<1>7. CASE WorkflowReturn(t)
  BY <1>7, <1>n, QuietReturn DEF WorkflowReturn, Kernel, Still
<1>8. CASE WorkflowListOverdue(t)
  BY <1>8, <1>n, QuietReturn, Zenon DEF WorkflowListOverdue, Kernel, Still
<1>9. CASE LoadActiveProviderConfig(t)
  <2>1. /\ call[t].at = "op"
        /\ \/ Still /\ left' = left /\ GoTo(t, "post")
           \/ \E r : Finish(t, r)
    BY <1>9 DEF LoadActiveProviderConfig, Running, Still
  <2> QED BY <2>1, <1>n, QuietGoes, QuietFinish
<1>10. CASE SendViaProvider(t)
  BY <1>10, <1>n, QuietReturn DEF SendViaProvider, Kernel, Still
<1> QED BY <1>1, <1>2, <1>3, <1>4, <1>5, <1>6, <1>7, <1>8, <1>9, <1>10

\* Time passes, or nothing happens.
LEMMA NothingKeeps ==
  ASSUME KernelInv, UNCHANGED <<fds, held, table, mine, made, call, left>>
  PROVE  KernelInv'
<1> USE DEF KernelInv
<1>0. /\ fds' = fds /\ held' = held /\ table' = table /\ mine' = mine /\ made' = made
      /\ call' = call /\ left' = left
  OBVIOUS
<1>1. Shaped' /\ CallsApt' /\ Apart'
  BY <1>0 DEF Shaped, CallsApt, Apart
<1>2. Numbered'
  BY <1>0 DEF Numbered, Unminted
<1>3. Pending' /\ Exclusive'
  BY <1>0 DEF Pending, Exclusive, Claiming
<1>4. Placed'
  BY <1>0 DEF Placed, Located, Holds
<1>5. SlotsExact'
  <2>1. ASSUME NEW d \in Domains PROVE Busy(d)' = Busy(d) /\ Live(d)' = Live(d)
    BY <1>0 DEF Busy, Live, Range
  <2> QED BY <2>1, <1>0, SlotsRead DEF SlotsExact, Busy, Slot
<1> QED BY <1>1, <1>2, <1>3, <1>4, <1>5

\* The invariant of the resources is kept by every step.
LEMMA KernelInvStep == KernelInv /\ [Next]_vars => KernelInv'
<1> SUFFICES ASSUME KernelInv, [Next]_vars PROVE KernelInv'
  OBVIOUS
<1>s. Shaped
  BY DEF KernelInv
<1>1. CASE UNCHANGED vars
  BY <1>1, NothingKeeps DEF vars, kernelVars
<1>2. CASE Tick
  BY <1>2, NothingKeeps DEF Tick, Kernel
<1>3. ASSUME NEW t \in Threads, Started(t) PROVE KernelInv'
  <2>1. ASSUME NEW m, NEW k, SendNotification(t, m, k) PROVE KernelInv'
    BY <2>1, UseKeeps DEF SendNotification
  <2>2. CASE \/ \E w : WorkflowStart(t, w) \/ WorkflowOverdue(t, w)
             \/ \E w, id, e : WorkflowAdvance(t, w, id, e)
             \/ WorkflowUnsupportedQuery(t)
    BY <2>2, <1>s, WorkflowQuiet, QuietKeeps
  <2> QED BY <1>3, <2>1, <2>2, KernelBeginKeeps DEF Started
<1>4. ASSUME NEW t \in Threads, Step(t) PROVE KernelInv'
  <2>1. CASE With(t, NotifyResult(2))
    BY <2>1, <1>s, QuietWith, QuietKeeps
  <2>2. CASE \/ WorkflowAction(t) \/ WorkflowSetState(t) \/ WorkflowReturn(t)
             \/ WorkflowListOverdue(t) \/ LoadActiveProviderConfig(t) \/ SendViaProvider(t)
    BY <2>2, <1>s, WorkflowQuiet, QuietKeeps
  <2> QED BY <1>4, <2>1, <2>2, KernelStepKeeps DEF Step
<1>5. ASSUME NEW t \in Threads, ConsumeFails(t) PROVE KernelInv'
  BY <1>5, OpFailsKeeps DEF ConsumeFails
<1> QED BY <1>1, <1>2, <1>3, <1>4, <1>5 DEF Next

\* Nothing is open, and every number may still be minted.
LEMMA KernelInvInit == KernelInit => KernelInv
<1> SUFFICES ASSUME KernelInit PROVE KernelInv
  OBVIOUS
<1>0. /\ fds = <<>> /\ held = [d \in Domains |-> 0] /\ made = <<>>
      /\ call = [t \in Threads |-> Idle] /\ mine = [t \in Threads |-> {}]
      /\ left = [t \in Threads |-> MaxCalls]
      /\ table = [n \in Tables |-> [next |-> TableStart[n], map |-> <<>>]]
  BY DEF KernelInit
<1>1. \A t \in Threads : call[t] = Idle /\ call[t].at = "idle"
  BY <1>0, IdleIs
<1>2. \A n \in Tables : /\ table[n].next = TableStart[n] /\ table[n].map = <<>>
                        /\ TableStart[n] \in Nat
  BY <1>0, KernelCallsType DEF TableStart, Tables
<1>e. \A t \in Threads : mine[t] = {}
  BY <1>0
<1>3. Shaped
  <2>1. \A n \in Tables : table[n] = [next |-> table[n].next, map |-> table[n].map]
    BY <1>0
  <2> QED BY <2>1, <1>0, <1>1, IdleIs, KernelCallsType DEF Shaped
<1>4. CallsApt /\ Pending /\ Exclusive /\ Placed
  BY <1>1, <1>e DEF CallsApt, Pending, Exclusive, Claiming, Placed
<1>5. Apart
  BY <1>0, <1>2 DEF Apart
<1>6. Numbered
  <2>1. IsFiniteSet(1 .. MaxCalls) /\ Cardinality(1 .. MaxCalls) = MaxCalls
    BY KernelCallsType, FS_Interval
  <2>2. /\ IsFiniteSet(Threads \X (1 .. MaxCalls))
        /\ Cardinality(Threads \X (1 .. MaxCalls)) = Cardinality(Threads) * MaxCalls
    BY <2>1, KernelCallsType, FS_Product
  <2>3. Unminted \subseteq Threads \X (1 .. MaxCalls)
    BY DEF Unminted
  <2>4. Cardinality(Unminted) <= Cardinality(Threads) * MaxCalls
    BY <2>2, <2>3, FS_Subset
  <2>5. Cardinality(Threads) * MaxCalls = MaxCalls * Cardinality(Threads)
    BY KernelCallsType, FS_CardinalityType
  <2>6. table["db"].next = 1
    BY <1>2 DEF TableStart, Tables
  <2>7. MaxCalls * Cardinality(Threads) \in Nat
    BY KernelCallsType, FS_CardinalityType
  <2>8. table["db"].next + Cardinality(Unminted) <= MaxCalls * Cardinality(Threads) + 1
    BY <2>4, <2>5, <2>6, <2>7, UnmintedFinite
  <2> QED BY <2>8, <1>2 DEF Numbered
<1>7. SlotsExact
  <2> SUFFICES ASSUME NEW d \in Domains
               PROVE  /\ held[d] = Cardinality(Live(d)) + Cardinality(Busy(d))
                      /\ held[d] <= Ceiling[d]
    BY SlotsRead
  <2>1. Busy(d) = {}
    BY <1>1 DEF Busy, Slot
  <2>2. Live(d) = {}
    BY <1>0, <1>2 DEF Live, Range, Raw, Domains, Tables
  <2>3. Ceiling[d] \in Nat /\ held[d] = 0
    BY <1>0, KernelCallsType
  <2> QED BY <2>1, <2>2, <2>3, FS_EmptySet
<1> QED BY <1>3, <1>4, <1>5, <1>6, <1>7 DEF KernelInv

\* The invariant of the resources, in every reachable state.
THEOREM KernelInvariance == Spec => []KernelInv
<1>1. WorkflowInit => KernelInv
  BY KernelInvInit DEF WorkflowInit
<1>2. KernelInv /\ [Next]_vars => KernelInv'
  BY KernelInvStep
<1> QED BY <1>1, <1>2, PTL DEF Spec

\* Every handle a thread owns is that of the resource it opened, however many
\* threads open and close, and although a closed descriptor is handed out again.
THEOREM HandlesAreOwn == Spec => []HandleIsOwn
<1>1. KernelInv => HandleIsOwn
  <2> SUFFICES ASSUME KernelInv, NEW t \in Threads, NEW m \in mine[t]
               PROVE  Designates(m) = m.r
    BY DEF HandleIsOwn
  <2> USE DEF KernelInv
  <2>1. m \in Handle /\ Located(m.d, m.h, m.r)
    BY ClaimBounds DEF Placed
  <2>2. m.d \in {"tcp", "file", "db", "mq"} /\ m.r # 0
    BY <2>1 DEF Handle
  <2>3. CASE Raw(m.d)
    <3>1. m.h \in DOMAIN fds /\ fds[m.h] = m.r
      BY <2>1, <2>3 DEF Located, Raw
    <3> QED BY <3>1, <2>3 DEF Designates, Raw
  <2>4. CASE m.d = "mq"
    <3>1. m.h \in DOMAIN table["mq"].map /\ table["mq"].map[m.h] = m.r
      BY <2>1, <2>4 DEF Located, Holds, Raw
    <3> QED BY <3>1, <2>4 DEF Designates, Raw
  <2>5. CASE m.d = "db"
    <3>1. \/ m.h \in DOMAIN table["db"].map /\ table["db"].map[m.h] = m.r
          \/ m.h \in DOMAIN table["plugin"].map /\ table["plugin"].map[m.h] = m.r
      BY <2>1, <2>5 DEF Located, Holds, Raw
    <3>2. CASE m.h \in DOMAIN table["db"].map /\ table["db"].map[m.h] = m.r
      BY <3>2, <2>5, <2>2 DEF Designates, Raw
    <3>3. CASE m.h \in DOMAIN table["plugin"].map /\ table["plugin"].map[m.h] = m.r
      <4>1. m.h \notin DOMAIN table["db"].map
        BY <3>3, TablesApart
      <4> QED BY <3>3, <4>1, <2>5 DEF Designates, Raw
    <3> QED BY <3>1, <3>2, <3>3
  <2> QED BY <2>2, <2>3, <2>4, <2>5 DEF Raw
<1> QED BY <1>1, KernelInvariance, PTL

\* A domain's counter is exactly the resources open in it and the calls on
\* their way in or out, and never above the ceiling.
THEOREM SlotsAreExact == Spec => []SlotsExact
<1>1. KernelInv => SlotsExact
  BY DEF KernelInv
<1> QED BY <1>1, KernelInvariance, PTL

-----------------------------------------------------------------------------
(* Instances. They are moved by one action only, by the thread that looked *)
(* the move up, along an edge out of a state the instance was in when it   *)
(* did; whatever other threads write meanwhile only makes the path longer. *)

\* No thread comes to an exit by this step.
Elsewhere(t) == call' = call \/ \E c : c.at # "exit" /\ call' = [call EXCEPT ![t] = c]

\* Such a step that leaves the instances alone keeps what is known of them.
LEMMA ElsewhereKeeps ==
  ASSUME Shaped, MoveInv, NEW t \in Threads, Elsewhere(t), UNCHANGED <<decl, instances, seq, path>>
  PROVE  MoveInv'
<1>1. \A u \in Threads : call'[u].at = "exit" => call'[u] = call[u]
  BY DEF Elsewhere, Shaped
<1>2. ASSUME NEW u \in Threads, call'[u].at = "exit" PROVE Moving(call[u])'
  <2>1. call'[u] = call[u] /\ Moving(call[u])
    BY <1>1, <1>2 DEF MoveInv
  <2> QED BY <2>1 DEF Moving
<1>3. ASSUME NEW id \in DOMAIN instances PROVE Tracked(id)'
  <2>1. Tracked(id)
    BY DEF MoveInv
  <2> QED BY <2>1 DEF Tracked
<1> QED BY <1>2, <1>3 DEF MoveInv

\* A call returns.
LEMMA ElsewhereReturn ==
  ASSUME NEW t \in Threads, NEW r, Return(t, r)
  PROVE  Elsewhere(t)
BY IdleIs DEF Return, Elsewhere

\* A call goes to a place of its own.
LEMMA ElsewhereEnters ==
  ASSUME NEW t \in Threads, NEW k, NEW at, NEW d, NEW h, NEW r, NEW arg, at # "exit",
         Enter(t, Call(k, at, d, h, r, arg))
  PROVE  Elsewhere(t)
<1>1. PICK c : c = Call(k, at, d, h, r, arg)
  OBVIOUS
<1>2. c.at = at /\ call' = [call EXCEPT ![t] = c]
  BY <1>1, CallIs DEF Enter
<1> QED BY <1>2 DEF Elsewhere

\* A call goes on.
LEMMA ElsewhereGoes ==
  ASSUME Shaped, NEW t \in Threads, NEW at, at # "exit", GoTo(t, at)
  PROVE  Elsewhere(t)
<1>1. PICK c : c = [call[t] EXCEPT !.at = at]
  OBVIOUS
<1>2. c.at = at
  BY <1>1, CallWith, CallIs DEF Shaped
<1>3. call' = [call EXCEPT ![t] = c]
  BY <1>1 DEF GoTo, Shaped
<1> QED BY <1>2, <1>3 DEF Elsewhere

\* A call looks in another table.
LEMMA ElsewhereLooks ==
  ASSUME Shaped, NEW t \in Threads, call[t].at # "exit", NEW d,
         Enter(t, [call[t] EXCEPT !.d = d])
  PROVE  Elsewhere(t)
<1>1. PICK c : c = [call[t] EXCEPT !.d = d]
  OBVIOUS
<1>2. c.at = call[t].at
  BY <1>1, CallWith, CallIs DEF Shaped
<1> QED BY <1>1, <1>2 DEF Elsewhere, Enter

\* Giving up, looking a handle up and finishing an operation.
LEMMA ElsewhereOther ==
  ASSUME Shaped, NEW t \in Threads,
         \/ \E d : GiveUp(t, d)
         \/ \E missing : With(t, missing)
         \/ \E r : Finish(t, r)
         \/ \E m, k, arg : Use(t, m, k, arg)
  PROVE  Elsewhere(t)
<1>1. ASSUME NEW d, GiveUp(t, d) PROVE Elsewhere(t)
  BY <1>1, ElsewhereReturn DEF GiveUp, Trap
<1>2. ASSUME NEW missing, With(t, missing) PROVE Elsewhere(t)
  BY <1>2, ElsewhereReturn, ElsewhereGoes, ElsewhereLooks DEF With
<1>3. ASSUME NEW r, Finish(t, r) PROVE Elsewhere(t)
  BY <1>3, ElsewhereReturn DEF Finish
<1>4. ASSUME NEW m, NEW k, NEW arg, Use(t, m, k, arg) PROVE Elsewhere(t)
  BY <1>4, ElsewhereEnters DEF Use
<1> QED BY <1>1, <1>2, <1>3, <1>4

\* No kernel call goes to an exit.
LEMMA KernelElsewhere ==
  ASSUME Shaped, NEW t \in Threads, KernelBegin(t) \/ KernelStep(t)
  PROVE  Elsewhere(t)
<1>1. ASSUME NEW k, BadArgument(t, k) \/ Admit(t, k) PROVE Elsewhere(t)
  BY <1>1, ElsewhereOther, ElsewhereEnters DEF BadArgument, Admit
<1>2. ASSUME NEW m, Stop(t, m) PROVE Elsewhere(t)
  <2>1. PICK at : at = IF Raw(m.d) THEN "release" ELSE "remove"
    OBVIOUS
  <2>2. at # "exit" /\ Enter(t, Call("stop", at, m.d, m.h, m.r, Nil))
    BY <2>1, <1>2 DEF Stop
  <2> QED BY <2>2, ElsewhereEnters
<1>3. ASSUME NEW m, SendTo(t, m) \/ RecvFrom(t, m) PROVE Elsewhere(t)
  BY <1>3, ElsewhereReturn DEF SendTo, RecvFrom, Trap
<1>4. ASSUME NEW m, NEW u, Move(t, u, m) PROVE Elsewhere(t)
  BY <1>4 DEF Move, Elsewhere
<1>5. CASE CallBuiltin(t)
  BY <1>5, ElsewhereReturn DEF CallBuiltin
<1>6. CASE OpenFails(t) \/ OpenFd(t) \/ Insert(t) \/ Release(t)
  BY <1>6, ElsewhereOther, ElsewhereReturn DEF OpenFails, OpenFd, Insert, Release
<1>7. CASE Mint(t)
  BY <1>7, ElsewhereEnters DEF Mint
<1>8. CASE RemoveEntry(t)
  BY <1>8, ElsewhereReturn, ElsewhereGoes, ElsewhereLooks DEF RemoveEntry
<1>9. ASSUME NEW k, OpFails(t, k) PROVE Elsewhere(t)
  BY <1>9, ElsewhereOther DEF OpFails
<1>10. CASE PluginExecute(t) \/ PluginQuery(t) \/ MqPublish(t) \/ MqConsume(t) \/ MqConsumeTimesOut(t)
  BY <1>10, ElsewhereOther DEF PluginExecute, PluginQuery, MqPublish, MqConsume, MqConsumeTimesOut
<1>11. CASE DbExecute(t)
  <2>1. \E r : Finish(t, r)
    BY <1>11 DEF DbExecute
  <2> QED BY <2>1, ElsewhereOther
<1>12. CASE DbQuery(t)
  <2>1. \E r : Finish(t, r)
    BY <1>12 DEF DbQuery
  <2> QED BY <2>1, ElsewhereOther
<1>13. CASE KernelBegin(t)
  BY <1>13, <1>1, <1>2, <1>3, <1>4, <1>5, ElsewhereOther DEF KernelBegin
<1>14. CASE KernelStep(t)
  BY <1>14, <1>6, <1>7, <1>8, <1>9, <1>10, <1>11, <1>12, ElsewhereOther DEF KernelStep
<1> QED BY <1>13, <1>14

\* What nir_workflow_get_state answers.
LEMMA StateRead ==
  ASSUME NEW w, NEW id, WorkflowGetState(w, id).found
  PROVE  /\ id \in DOMAIN instances /\ instances[id].workflow = w
         /\ WorkflowGetState(w, id).out = instances[id].state
<1>1. ~Failed.found
  BY DEF Failed
<1>2. \A x : Found(x).out = x
  BY DEF Found
<1> QED BY <1>1, <1>2 DEF WorkflowGetState

\* A move is looked up from the last state of the path.
LEMMA AdvanceKeeps ==
  ASSUME Shaped, MoveInv, NEW t \in Threads, NEW w, NEW id, NEW event,
         WorkflowAdvance(t, w, id, event)
  PROVE  MoveInv'
<1> DEFINE g == WorkflowGetState(w, id)
           out == IF g.found THEN Matching(w, g.out, event) ELSE {}
           tr == CHOOSE x \in out : TRUE
           arg == [workflow |-> w, target |-> tr.target, seen |-> Len(path[id])]
<1>0. decl' = decl /\ instances' = instances /\ seq' = seq /\ path' = path
  BY DEF WorkflowAdvance, workflowVars
<1>1. CASE ~g.found \/ out = {}
  <2>1. \E r : Return(t, r)
    BY <1>1 DEF WorkflowAdvance
  <2> QED BY <2>1, <1>0, ElsewhereReturn, ElsewhereKeeps
<1>2. CASE g.found /\ out # {}
  <2>1. PICK c : c = Call("advance", "exit", "none", id, StateNamed(decl[w], g.out).on_exit, arg)
    OBVIOUS
  <2>2. call' = [call EXCEPT ![t] = c]
    BY <1>2, <2>1 DEF WorkflowAdvance, Enter
  <2>3. /\ c.at = "exit" /\ c.h = id /\ c.arg = arg
    <3> HIDE DEF arg, g
    <3> QED BY <2>1, CallIs
  <2>4. id \in DOMAIN instances /\ instances[id].workflow = w /\ g.out = instances[id].state
    BY <1>2, StateRead
  <2>5. tr \in Transitions(decl[w]) /\ tr.from = instances[id].state
    <3>1. tr \in out
      BY <1>2
    <3>2. out = Matching(w, g.out, event)
      BY <1>2
    <3> HIDE DEF tr, g, out
    <3> QED BY <3>1, <3>2, <2>4 DEF Matching
  <2> HIDE DEF tr, g, out
  <2>6. c.arg.workflow = w /\ c.arg.target = tr.target /\ c.arg.seen = Len(path[id])
    BY <2>3
  <2>7. /\ call'[t] = c /\ \A u \in Threads : u # t => call'[u] = call[u]
    BY <2>2 DEF Shaped
  <2>8. Len(path[id]) \in 1 .. Len(path[id]) /\ path[id][Len(path[id])] = instances[id].state
    BY <2>4, EmptySeq, LenProperties DEF MoveInv, Tracked
  <2>9. Moving(c)
    BY <2>3, <2>4, <2>5, <2>6, <2>8 DEF Moving
  <2>10. ASSUME NEW u \in Threads, call'[u].at = "exit" PROVE Moving(call'[u])
    BY <2>7, <2>9, <2>10 DEF MoveInv
  <2> QED BY <1>0, <2>10 DEF MoveInv, Tracked, Moving
<1> QED BY <1>1, <1>2

\* What the step that moves an instance does to it, and to no other.
LEMMA SetStateIs ==
  ASSUME Shaped, MoveInv, NEW t \in Threads, WorkflowSetState(t)
  PROVE  /\ call[t].at = "exit" /\ Moving(call[t]) /\ decl' = decl /\ seq' = seq
         /\ \E c : c.at = "entry" /\ call' = [call EXCEPT ![t] = c]
         /\ instances' = [instances EXCEPT ![call[t].h]
                                             = Instance(call[t].arg.workflow, call[t].arg.target)]
         /\ path' = [path EXCEPT ![call[t].h] = Append(@, call[t].arg.target)]
<1>1. call[t].at = "exit" /\ Moving(call[t])
  BY DEF WorkflowSetState, MoveInv
<1>2. call[t].h \in DOMAIN instances /\ instances[call[t].h].workflow = call[t].arg.workflow
  BY <1>1 DEF Moving
<1>3. PICK r : Enter(t, Call("advance", "entry", "none", call[t].h, r, Nil))
  BY DEF WorkflowSetState
<1>4. PICK c : c = Call("advance", "entry", "none", call[t].h, r, Nil)
  OBVIOUS
<1>5. c.at = "entry" /\ call' = [call EXCEPT ![t] = c]
  BY <1>3, <1>4, CallIs DEF Enter
<1> QED BY <1>1, <1>2, <1>5 DEF WorkflowSetState

\* One state longer, a path keeps those it had.
LEMMA PathGrows ==
  ASSUME NEW p, NEW S, p \in Seq(S), NEW x
  PROVE  /\ Append(p, x) \in Seq(S \cup {x})
         /\ Append(p, x) # <<>> /\ Len(Append(p, x)) = Len(p) + 1 /\ Len(p) \in Nat
         /\ Append(p, x)[Len(Append(p, x))] = x
         /\ \A i \in 1 .. Len(p) : Append(p, x)[i] = p[i]
<1>1. p \in Seq(S \cup {x}) /\ x \in S \cup {x}
  BY SeqDef
<1> QED BY <1>1, AppendProperties, LenProperties

\* The other moves stay looked up, in a path that is longer.
LEMMA SetStateKeeps ==
  ASSUME Shaped, MoveInv, NEW t \in Threads, WorkflowSetState(t)
  PROVE  MoveInv'
<1>1. /\ Moving(call[t]) /\ decl' = decl /\ seq' = seq
      /\ instances' = [instances EXCEPT ![call[t].h]
                                          = Instance(call[t].arg.workflow, call[t].arg.target)]
      /\ path' = [path EXCEPT ![call[t].h] = Append(@, call[t].arg.target)]
  BY SetStateIs
<1>2. PICK h, i, x : /\ h = call[t].h /\ i = Instance(call[t].arg.workflow, call[t].arg.target)
                     /\ x = call[t].arg.target
  OBVIOUS
<1>3. h \in DOMAIN instances /\ i.workflow = instances[h].workflow /\ i.state = x
  BY <1>1, <1>2 DEF Moving, Instance
<1>4. DOMAIN instances' = DOMAIN instances /\ instances'[h] = i
      /\ \A id \in DOMAIN instances : id # h => instances'[id] = instances[id]
  BY <1>1, <1>2, <1>3
<1>5. DOMAIN path' = DOMAIN path /\ path'[h] = Append(path[h], x)
      /\ \A id \in DOMAIN path : id # h => path'[id] = path[id]
  BY <1>1, <1>2, <1>3 DEF MoveInv
<1>6. PICK S : path[h] \in Seq(S)
  BY <1>3 DEF MoveInv, Tracked
<1>7. /\ path'[h] \in Seq(S \cup {x})
      /\ path'[h] # <<>> /\ Len(path'[h]) = Len(path[h]) + 1 /\ Len(path[h]) \in Nat
      /\ path'[h][Len(path'[h])] = x
      /\ \A k \in 1 .. Len(path[h]) : path'[h][k] = path[h][k]
  <2>1. PICK p, q : p = path[h] /\ q = path'[h]
    OBVIOUS
  <2>2. p \in Seq(S) /\ q = Append(p, x)
    BY <2>1, <1>3, <1>5, <1>6 DEF MoveInv
  <2>3. /\ q \in Seq(S \cup {x})
        /\ q # <<>> /\ Len(q) = Len(p) + 1 /\ Len(p) \in Nat /\ q[Len(q)] = x
        /\ \A k \in 1 .. Len(p) : q[k] = p[k]
    BY <2>2, PathGrows
  <2> QED BY <2>1, <2>3
<1>8. ASSUME NEW id \in DOMAIN instances PROVE Tracked(id)'
  <2>1. CASE id = h
    BY <2>1, <1>3, <1>4, <1>7 DEF Tracked
  <2>2. CASE id # h
    <3>1. path'[id] = path[id] /\ instances'[id] = instances[id] /\ Tracked(id)
      BY <2>2, <1>4, <1>5 DEF MoveInv
    <3> QED BY <3>1 DEF Tracked
  <2> QED BY <2>1, <2>2
<1>9. PICK c : c.at = "entry" /\ call' = [call EXCEPT ![t] = c]
  BY SetStateIs
<1>10. ASSUME NEW u \in Threads, call'[u].at = "exit" PROVE Moving(call[u])' /\ call'[u] = call[u]
  <2>1. u # t /\ call'[u] = call[u]
    BY <1>9, <1>10 DEF Shaped
  <2>2. Moving(call[u])
    BY <2>1, <1>10 DEF MoveInv
  <2>3. PICK v : v = call[u]
    OBVIOUS
  <2>4. Moving(v)
    BY <2>2, <2>3
  <2>5. /\ v.h \in DOMAIN instances' /\ instances'[v.h].workflow = v.arg.workflow
    BY <2>4, <1>3, <1>4 DEF Moving
  <2>6. v.arg.seen \in 1 .. Len(path'[v.h]) /\ path'[v.h][v.arg.seen] = path[v.h][v.arg.seen]
    <3>1. CASE v.h = h
      BY <3>1, <2>4, <1>7 DEF Moving
    <3>2. CASE v.h # h
      BY <3>2, <2>4, <1>5 DEF Moving, MoveInv
    <3> QED BY <3>1, <3>2
  <2>7. call'[u] = v
    BY <2>1, <2>3
  <2> QED BY <2>1, <2>4, <2>5, <2>6, <2>7, <1>1 DEF Moving
<1> QED BY <1>1, <1>4, <1>5, <1>8, <1>10 DEF MoveInv

\* A new instance has a number of its own.
LEMMA StartKeeps ==
  ASSUME Shaped, MoveInv, NEW t \in Threads, NEW w, WorkflowStart(t, w)
  PROVE  /\ MoveInv'
         /\ \A id \in DOMAIN instances : instances'[id] = instances[id]
<1>1. PICK i : instances' = Including(instances, seq, i) /\ path' = Including(path, seq, <<i.state>>)
  <2>1. PICK x : x = decl[w].states[1].name
    OBVIOUS
  <2>2. PICK i : i = Instance(w, x)
    OBVIOUS
  <2>3. i.state = x
    BY <2>2 DEF Instance
  <2> QED BY <2>1, <2>2, <2>3 DEF WorkflowStart
<1>2. decl' = decl /\ seq' = seq + 1 /\ seq \in Nat \ {0}
  BY DEF WorkflowStart, MoveInv
<1>3. /\ DOMAIN instances' = {seq} \cup DOMAIN instances /\ seq \notin DOMAIN instances
      /\ \A id \in DOMAIN instances : instances'[id] = instances[id]
      /\ DOMAIN path' = DOMAIN instances' /\ instances'[seq] = i /\ path'[seq] = <<i.state>>
      /\ \A id \in DOMAIN instances : path'[id] = path[id]
  BY <1>1, <1>2 DEF Including, MoveInv
<1>4. \A u \in Threads : call'[u].at = "exit" => u # t /\ call'[u] = call[u]
  <2>1. PICK c : c.at = "entry" /\ call' = [call EXCEPT ![t] = c]
    <3>1. PICK r : Enter(t, Call("start", "entry", "none", seq, r, Nil))
      BY DEF WorkflowStart
    <3>2. PICK c : c = Call("start", "entry", "none", seq, r, Nil)
      OBVIOUS
    <3>3. c.at = "entry"
      BY <3>2, CallIs
    <3> QED BY <3>1, <3>2, <3>3 DEF Enter
  <2> QED BY <2>1 DEF Shaped
<1>5. \A id \in DOMAIN instances' : id \in Nat /\ id < seq'
  BY <1>2, <1>3 DEF MoveInv
<1>6. ASSUME NEW id \in DOMAIN instances' PROVE Tracked(id)'
  <2>1. CASE id = seq
    <3>1. PICK x : x = i.state
      OBVIOUS
    <3>2. <<x>> \in Seq({x}) /\ <<x>> # <<>> /\ Len(<<x>>) = 1 /\ <<x>>[1] = x
      OBVIOUS
    <3>3. path'[seq] = <<x>> /\ instances'[seq].state = x
      BY <3>1, <1>3
    <3>4. \E S : path'[seq] \in Seq(S)
      BY <3>2, <3>3
    <3> QED BY <2>1, <3>2, <3>3, <3>4 DEF Tracked
  <2>2. CASE id # seq
    <3>1. path'[id] = path[id] /\ instances'[id] = instances[id] /\ Tracked(id)
      BY <2>2, <1>3 DEF MoveInv
    <3> QED BY <3>1 DEF Tracked
  <2> QED BY <2>1, <2>2
<1>7. ASSUME NEW u \in Threads, call'[u].at = "exit" PROVE Moving(call[u])'
  <2>1. call'[u] = call[u] /\ Moving(call[u])
    BY <1>4, <1>7 DEF MoveInv
  <2>2. call[u].h \in DOMAIN instances
    BY <2>1 DEF Moving
  <2> QED BY <2>1, <2>2, <1>2, <1>3 DEF Moving
<1>8. MoveInv'
  BY <1>2, <1>3, <1>5, <1>6, <1>7 DEF MoveInv
<1> QED BY <1>3, <1>8

\* The other actions leave the instances alone.
LEMMA OtherMoves ==
  ASSUME Shaped, NEW t \in Threads,
         \/ KernelBegin(t) /\ UNCHANGED workflowVars
         \/ KernelStep(t) /\ UNCHANGED workflowVars
         \/ \E w : WorkflowOverdue(t, w)
         \/ WorkflowUnsupportedQuery(t)
         \/ \E m, k : SendNotification(t, m, k)
         \/ WorkflowReturn(t)
         \/ \E missing : With(t, missing) /\ UNCHANGED workflowVars
         \/ WorkflowListOverdue(t) \/ LoadActiveProviderConfig(t) \/ SendViaProvider(t)
         \/ ConsumeFails(t)
  PROVE  Elsewhere(t) /\ UNCHANGED <<decl, instances, seq, path>>
<1> USE DEF workflowVars
<1>1. CASE KernelBegin(t) /\ UNCHANGED workflowVars
  BY <1>1, KernelElsewhere
<1>2. CASE KernelStep(t) /\ UNCHANGED workflowVars
  BY <1>2, KernelElsewhere
<1>3. ASSUME NEW w, WorkflowOverdue(t, w)
      PROVE  Elsewhere(t) /\ UNCHANGED <<decl, instances, seq, path>>
  <2>1. PICK arg : Enter(t, Call("overdue", "overdue", "none", 0, 0, arg))
    BY <1>3 DEF WorkflowOverdue
  <2> QED BY <1>3, <2>1, ElsewhereEnters DEF WorkflowOverdue
<1>4. CASE WorkflowUnsupportedQuery(t)
  BY <1>4, ElsewhereReturn DEF WorkflowUnsupportedQuery
<1>5. ASSUME NEW m, NEW k, SendNotification(t, m, k)
      PROVE  Elsewhere(t) /\ UNCHANGED <<decl, instances, seq, path>>
  BY <1>5, ElsewhereOther DEF SendNotification
<1>6. CASE WorkflowReturn(t)
  BY <1>6, ElsewhereReturn DEF WorkflowReturn
<1>7. ASSUME NEW missing, With(t, missing), UNCHANGED workflowVars
      PROVE  Elsewhere(t) /\ UNCHANGED <<decl, instances, seq, path>>
  BY <1>7, ElsewhereOther
<1>8. CASE WorkflowListOverdue(t)
  BY <1>8, ElsewhereReturn, Zenon DEF WorkflowListOverdue
<1>9. CASE LoadActiveProviderConfig(t)
  <2>1. GoTo(t, "post") \/ \E r : Finish(t, r)
    BY <1>9 DEF LoadActiveProviderConfig
  <2> QED BY <1>9, <2>1, ElsewhereGoes, ElsewhereOther DEF LoadActiveProviderConfig
<1>10. CASE SendViaProvider(t)
  BY <1>10, ElsewhereReturn DEF SendViaProvider
<1>11. CASE ConsumeFails(t)
  BY <1>11, ElsewhereOther DEF ConsumeFails, OpFails
<1> QED BY <1>1, <1>2, <1>3, <1>4, <1>5, <1>6, <1>7, <1>8, <1>9, <1>10, <1>11

\* Every step is one of those that matter to the instances, or none of them.
LEMMA MoveCases ==
  ASSUME Shaped, [Next]_vars
  PROVE  \/ UNCHANGED <<call, decl, instances, seq, path>>
         \/ \E t \in Threads : \/ Elsewhere(t) /\ UNCHANGED <<decl, instances, seq, path>>
                               \/ \E w : WorkflowStart(t, w)
                               \/ \E w, id, e : WorkflowAdvance(t, w, id, e)
                               \/ WorkflowAction(t) \/ WorkflowSetState(t)
<1>1. CASE UNCHANGED vars
  BY <1>1 DEF vars, kernelVars, workflowVars
<1>2. CASE Tick
  BY <1>2 DEF Tick
<1>3. ASSUME NEW t \in Threads, Started(t)
      PROVE  \/ Elsewhere(t) /\ UNCHANGED <<decl, instances, seq, path>>
             \/ \E w : WorkflowStart(t, w)
             \/ \E w, id, e : WorkflowAdvance(t, w, id, e)
  BY <1>3, OtherMoves DEF Started
<1>4. ASSUME NEW t \in Threads, Step(t)
      PROVE  \/ Elsewhere(t) /\ UNCHANGED <<decl, instances, seq, path>>
             \/ WorkflowAction(t) \/ WorkflowSetState(t)
  BY <1>4, OtherMoves DEF Step
<1>5. ASSUME NEW t \in Threads, ConsumeFails(t)
      PROVE  Elsewhere(t) /\ UNCHANGED <<decl, instances, seq, path>>
  BY <1>5, OtherMoves
<1> QED BY <1>1, <1>2, <1>3, <1>4, <1>5 DEF Next

\* An action of the state runs: the move stays as it was looked up.
LEMMA ActionKeeps ==
  ASSUME Shaped, MoveInv, NEW t \in Threads, WorkflowAction(t)
  PROVE  MoveInv' /\ instances' = instances
<1>0. decl' = decl /\ instances' = instances /\ seq' = seq /\ path' = path
  BY DEF WorkflowAction, workflowVars
<1>1. PICK c : c = Call(call[t].k, call[t].at, call[t].d, call[t].h, call[t].r - 1, call[t].arg)
  OBVIOUS
<1>2. c.at = call[t].at /\ c.h = call[t].h /\ c.k = call[t].k /\ c.arg = call[t].arg
  BY <1>1, CallIs
<1>3. call' = [call EXCEPT ![t] = c]
  BY <1>1, ActionIs
<1>4. \A u \in Threads : /\ call'[u].at = call[u].at /\ call'[u].h = call[u].h
                         /\ call'[u].k = call[u].k /\ call'[u].arg = call[u].arg
  BY <1>2, <1>3 DEF Shaped
<1> QED BY <1>0, <1>4, SMTT(30) DEF MoveInv, Tracked, Moving

\* What is known of the moves is kept by every step.
LEMMA MoveInvStep ==
  ASSUME Shaped, MoveInv, [Next]_vars
  PROVE  MoveInv'
<1>1. CASE UNCHANGED <<call, decl, instances, seq, path>>
  BY <1>1 DEF MoveInv, Tracked, Moving
<1> QED BY <1>1, MoveCases, ElsewhereKeeps, StartKeeps, AdvanceKeeps, ActionKeeps, SetStateKeeps

\* The property of one step: a write follows an edge out of the state read.
MovesAlong ==
  \A id \in DOMAIN instances :
    instances'[id] # instances[id] =>
      \E t \in Threads :
        LET w == instances[id].workflow
            seen == call[t].arg.seen
            Edge(x) == x.from = path[id][seen] /\ x.target = instances'[id].state
        IN  /\ call'[t] # call[t] /\ call[t].h = id /\ seen \in DOMAIN path[id]
            /\ \E tr \in Transitions(decl[w]) : Edge(tr)
            /\ Extracted.name = w /\ CheckWorkflowConformance(decl, Extracted)
                 => \E tr \in Transitions(Extracted) : Edge(tr)
            /\ seen = Len(path[id]) => path[id][seen] = instances[id].state

\* A conforming extraction lists the same edges.
LEMMA Conforms ==
  ASSUME CheckWorkflowConformance(decl, Extracted)
  PROVE  Transitions(Extracted) = Transitions(decl[Extracted.name])
<1>1. CheckTransitions(Extracted, decl[Extracted.name]) = {}
  BY DEF CheckWorkflowConformance
<1> QED BY <1>1 DEF CheckTransitions, SymDiff

\* From the invariant, every step has the property.
LEMMA StepMoves ==
  ASSUME Shaped, MoveInv, [Next]_vars
  PROVE  MovesAlong
<1> SUFFICES ASSUME NEW id \in DOMAIN instances, instances'[id] # instances[id]
             PROVE  \E t \in Threads :
                      /\ call'[t] # call[t] /\ call[t].h = id
                      /\ call[t].arg.seen \in DOMAIN path[id]
                      /\ \E tr \in Transitions(decl[instances[id].workflow]) :
                           /\ tr.from = path[id][call[t].arg.seen]
                           /\ tr.target = instances'[id].state
                      /\ call[t].arg.seen = Len(path[id])
                           => path[id][call[t].arg.seen] = instances[id].state
  BY Conforms DEF MovesAlong
<1>1. PICK t \in Threads : WorkflowSetState(t)
  BY MoveCases, StartKeeps, ActionKeeps DEF WorkflowAdvance, workflowVars
<1>2. /\ call[t].at = "exit" /\ Moving(call[t])
      /\ instances' = [instances EXCEPT ![call[t].h]
                                          = Instance(call[t].arg.workflow, call[t].arg.target)]
  BY <1>1, SetStateIs
<1>3. PICK i : i = Instance(call[t].arg.workflow, call[t].arg.target)
  OBVIOUS
<1>4. i.state = call[t].arg.target
  BY <1>3 DEF Instance
<1>5. id = call[t].h /\ instances'[id] = i
  BY <1>2, <1>3
<1>6. call'[t] # call[t]
  <2>1. PICK c : c.at = "entry" /\ call' = [call EXCEPT ![t] = c]
    BY <1>1, SetStateIs
  <2> QED BY <2>1, <1>2 DEF Shaped
<1>7. Tracked(id)
  BY DEF MoveInv
<1>8. call[t].arg.seen \in DOMAIN path[id]
  BY <1>2, <1>5, <1>7, LenProperties DEF Moving, Tracked
<1> QED BY <1>2, <1>4, <1>5, <1>6, <1>7, <1>8 DEF Moving, Tracked

\* A write to an instance follows an edge that its own workflow declares, and
\* that a conforming extraction lists, out of a state the instance was in since
\* the writer's advance began, and out of the state it is in unless another
\* advance came between; for any threads, programs and numbers of calls.
THEOREM MovesDeclared == Spec => MovesAreDeclared
<1>1. WorkflowInit => MoveInv
  <2> SUFFICES ASSUME WorkflowInit PROVE MoveInv
    OBVIOUS
  <2>1. \A t \in Threads : call[t].at = "idle"
    BY IdleIs DEF WorkflowInit, KernelInit
  <2> QED BY <2>1 DEF WorkflowInit, MoveInv
<1>2. KernelInv /\ MoveInv /\ [Next]_vars => MoveInv'
  BY MoveInvStep DEF KernelInv
<1>3. KernelInv /\ MoveInv /\ [Next]_vars => [MovesAlong]_vars
  BY StepMoves DEF KernelInv
<1>4. Spec => [][MovesAlong]_vars
  BY <1>1, <1>2, <1>3, KernelInvariance, PTL DEF Spec
<1> QED BY <1>4 DEF MovesAreDeclared, MovesAlong

-----------------------------------------------------------------------------
(* What kernel calls return. A row holds what the database made of a value *)
(* that was bound, and a statement in progress has the binds it came with. *)

DbOps == {"db_execute", "db_query"}

StoredAs(b, col, x) ==
  IF b = "sqlite" THEN Found(Affinity(BindValuesFromRaw(EmitDbBinds(x)), col))
  ELSE ToSql(PgBindValuesFromRaw(EmitDbBinds(x)), col)

Columns(b) == IF b = "sqlite" THEN Affinities ELSE DOMAIN PgColumns

CellsTrue ==
  /\ DOMAIN cell = {"sqlite", "postgres"}
  /\ \A b \in DOMAIN cell :
       cell[b] # Nil =>
         /\ cell[b].sent \in Binds \ {Nil}
         /\ cell[b].col \in Columns(b)
         /\ StoredAs(b, cell[b].col, cell[b].sent).found
         /\ cell[b].sv = StoredAs(b, cell[b].col, cell[b].sent).out

BindsKept ==
  \A t \in Threads : call[t].k \in DbOps => /\ call[t].arg.x \in Binds
                                            /\ call[t].arg.stmt \in Statements

ResultInv == CellsTrue /\ BindsKept /\ ResultIsTrue

\* Values whose texts have all been written: texts, what holds texts, and so on.
NoText(x)    == "j" \notin DOMAIN x
LeafValue(x) == Written(x) \/ (NoText(x) /\ \A y \in Range(x.kids) : Written(y))
TreeValue(x) == LeafValue(x) \/ (NoText(x) /\ \A y \in Range(x.kids) : LeafValue(y))
Built(x)     == TreeValue(x) \/ (NoText(x) /\ \A y \in Range(x.kids) : TreeValue(y))

\* A value that is built of written texts has no other text in it.
LEMMA BuiltTexts ==
  ASSUME NEW x, Built(x)
  PROVE  Unwritten \notin Texts(x)
<1>0. \A t : Written(t) => "j" \in DOMAIN t
  BY DEF Written
<1>1. ASSUME NEW xs, \A y \in xs : Written(y) PROVE \A y \in Inside(xs) : Written(y)
  BY <1>0, <1>1, Zenon DEF Inside
<1>2. ASSUME NEW xs, \A y \in xs : LeafValue(y) PROVE \A y \in Inside(xs) : Written(y)
  BY <1>0, <1>2, Zenon DEF Inside, LeafValue, NoText
<1>3. ASSUME NEW xs, \A y \in xs : TreeValue(y) PROVE \A y \in Inside(xs) : LeafValue(y)
  BY <1>0, <1>3, Zenon DEF Inside, LeafValue, TreeValue, NoText
<1>4. \A y \in Inside({x}) : TreeValue(y)
  BY <1>0, Zenon DEF Inside, LeafValue, TreeValue, Built, NoText
<1>5. \A y \in Texts(x) : Written(y)
  BY <1>1, <1>2, <1>3, <1>4, Zenon DEF Texts
<1>6. ~Written(Unwritten)
  BY DEF Written, Unwritten, Text
<1> QED BY <1>5, <1>6

\* How values are built.
LEMMA PlainBuilt ==
  /\ \A n : LeafValue(Val(n))
  /\ \A t : Written(t) => LeafValue(StrVal(t))
  /\ \A v : LeafValue(v) => /\ TreeValue(Ok(v)) /\ TreeValue(Err(v))
                            /\ Built(Ok(v)) /\ Built(Err(v)) /\ Built(v)
<1>1. ASSUME NEW n PROVE LeafValue(Val(n))
  <2>1. NoText(Val(n)) /\ Val(n).kids = <<>>
    BY DEF NoText, Val
  <2>2. Range(Val(n).kids) = {}
    BY <2>1 DEF Range
  <2> QED BY <2>1, <2>2 DEF LeafValue
<1>2. ASSUME NEW t, Written(t) PROVE LeafValue(StrVal(t))
  <2>1. NoText(StrVal(t)) /\ StrVal(t).kids = <<t>>
    BY DEF NoText, StrVal
  <2>2. \A y \in Range(StrVal(t).kids) : y = t
    BY <2>1 DEF Range
  <2> QED BY <1>2, <2>1, <2>2 DEF LeafValue
<1>3. ASSUME NEW v, LeafValue(v), NEW r \in {Ok(v), Err(v)} PROVE TreeValue(r)
  <2>1. NoText(r) /\ r.kids = <<v>>
    BY DEF NoText, Ok, Err
  <2>2. \A y \in Range(r.kids) : y = v
    BY <2>1 DEF Range
  <2> QED BY <1>3, <2>1, <2>2 DEF TreeValue
<1>4. ASSUME NEW v, LeafValue(v)
      PROVE  TreeValue(Ok(v)) /\ TreeValue(Err(v)) /\ TreeValue(v)
  BY <1>3, <1>4, Zenon DEF TreeValue
<1>5. \A v : TreeValue(v) => Built(v)
  BY Zenon DEF Built
<1> QED BY <1>1, <1>2, <1>4, <1>5, Zenon

\* The texts that kernels and emitted code write themselves.
LEMMA WrittenTexts ==
  /\ \A s : Written(Words(s))
  /\ \A ts : Written(JArr(ts))
  /\ \A f : Written(JObj(f))
BY DEF Written, Words, JArr, JObj, Text

\* What a kernel answers: one out-parameter, or the message of a failure.
LEMMA Answered ==
  /\ Failed.found = FALSE /\ Written(Failed.err)
  /\ \A out : Found(out).found = TRUE /\ Found(out).out = out
  /\ \A ok, out : When(ok, out) = Failed \/ (ok /\ When(ok, out) = Found(out))
BY WrittenTexts DEF Failed, Found, When

\* The emitted code loads the slot that was written.
LEMMA ResultBuilt ==
  ASSUME NEW r, NEW out, r = Failed \/ r = Found(out)
  PROVE  /\ Built(ScalarResult(r))
         /\ Written(out) => Built(StrResult(r))
         /\ (\A y \in Range(out) : LeafValue(y)) => Built(ResultMergeAgg(r))
<1>1. CASE r = Failed
  <2>1. LeafValue(StrVal(Failed.err))
    BY Answered, PlainBuilt
  <2>2. Built(Err(StrVal(Failed.err)))
    BY <2>1, PlainBuilt
  <2> QED BY <1>1, <2>2, Answered, Zenon DEF ScalarResult, StrResult, ResultMerge, ResultMergeAgg, Message
<1>2. CASE r = Found(out)
  <2>1. Built(Ok(Val(out))) /\ (Written(out) => Built(Ok(StrVal(out))))
    BY PlainBuilt
  <2>2. (\A y \in Range(out) : LeafValue(y)) => Built(Ok(Struct(out)))
    <3> SUFFICES ASSUME \A y \in Range(out) : LeafValue(y) PROVE Built(Ok(Struct(out)))
      OBVIOUS
    <3>1. NoText(Struct(out)) /\ Struct(out).kids = out
      BY DEF NoText, Struct
    <3>2. TreeValue(Struct(out))
      BY <3>1, Zenon DEF TreeValue
    <3>3. PICK s : s = Struct(out)
      OBVIOUS
    <3>4. NoText(Ok(s)) /\ Ok(s).kids = <<s>>
      BY DEF NoText, Ok
    <3>5. \A y \in Range(Ok(s).kids) : y = s
      BY <3>4 DEF Range
    <3> QED BY <3>2, <3>3, <3>4, <3>5, Zenon DEF Built
  <2> QED BY <1>2, <2>1, <2>2, Answered, Zenon DEF ScalarResult, StrResult, ResultMerge, ResultMergeAgg, Message
<1> QED BY <1>1, <1>2

\* The same, for each answer.
LEMMA ResultsBuilt ==
  /\ Built(ScalarResult(Failed)) /\ Built(StrResult(Failed)) /\ Built(ResultMergeAgg(Failed))
  /\ \A out : Built(ScalarResult(Found(out)))
  /\ \A out : Written(out) => Built(StrResult(Found(out)))
  /\ \A out : (\A y \in Range(out) : LeafValue(y)) => Built(ResultMergeAgg(Found(out)))
<1>1. PICK out : out = <<>>
  OBVIOUS
<1>2. \A y \in Range(out) : LeafValue(y)
  <2>1. Range(out) = {}
    BY <1>1 DEF Range
  <2> QED BY <2>1
<1> QED BY <1>2, WrittenTexts, ResultBuilt, Zenon

\* A builtin without state returns a value whose texts were written.
LEMMA BuiltinsBuilt == ASSUME NEW v \in BuiltinValues PROVE Built(v)
<1>w. ASSUME NEW t, Written(t) PROVE LeafValue(StrVal(t)) /\ Built(Ok(StrVal(t))) /\ Built(StrVal(t))
  BY <1>w, PlainBuilt
<1>e. Built(Err(Message(Failed.err))) /\ Built(Err(Message(ConstStr)))
  BY <1>w, PlainBuilt, Answered, WrittenTexts DEF Message, ConstStr
<1>1. ASSUME NEW k \in Keys PROVE Built(EmitEnv(k))
  <2>1. EnvGet(k) = Failed \/ (EnvGet(k) = Found(Env[k]) /\ Written(Env[k]))
    BY TextsWritten, Zenon DEF EnvGet
  <2> QED BY <2>1, ResultsBuilt, Zenon DEF EmitEnv
<1>2. ASSUME NEW d \in Docs
      PROVE  Built(EmitJsonParse(d)) /\ Built(EmitJsonArrayLen(d)) /\ Built(EmitJsonArrayGet(d, 0))
  <2>1. Built(EmitJsonParse(d))
    <3>1. Written(d)
      BY TextsWritten
    <3>2. Validate(d) = Failed \/ Validate(d) = Found(d)
      BY Answered DEF Validate
    <3> QED BY <1>w, <1>e, <3>1, <3>2, Answered, Zenon DEF EmitJsonParse
  <2>2. ArrayLen(d) = Failed \/ ArrayLen(d) = Found(Len(d.items))
    BY DEF ArrayLen
  <2>3. \/ ArrayGet(d, 0) = Failed
        \/ ArrayGet(d, 0) = Found(d.items[0 + 1]) /\ Written(d.items[0 + 1])
    BY TextsWritten, Zenon DEF ArrayGet
  <2> QED BY <2>1, <2>2, <2>3, ResultsBuilt, Zenon DEF EmitJsonArrayLen, EmitJsonArrayGet
<1>3. ASSUME NEW d \in Docs, NEW k \in Keys
      PROVE  /\ Built(EmitJsonGet(d, k)) /\ Built(EmitJsonGetStr(d, k)) /\ Built(EmitJsonGetI64(d, k))
             /\ Built(EmitJsonGetF64(d, k)) /\ Built(EmitJsonGetBool(d, k))
  <2>1. Get(d, k) = Failed \/ (Get(d, k) = Found(d.flds[k]) /\ Written(d.flds[k]))
    BY TextsWritten, Zenon DEF Get, Has
  <2>2. \/ GetStr(d, k) = Failed
        \/ GetStr(d, k) = Found(Content(d.flds[k])) /\ Written(Content(d.flds[k]))
    BY TextsWritten, Zenon DEF GetStr, Leaf, Has
  <2>3. /\ GetI64(d, k) = Failed \/ GetI64(d, k) = Found(Number(d.flds[k]))
        /\ GetF64(d, k) = Failed \/ GetF64(d, k) = Found(Number(d.flds[k]))
        /\ GetBool(d, k) = Failed \/ GetBool(d, k) = Found(Number(d.flds[k]))
    BY Zenon DEF GetI64, GetF64, GetBool, Leaf
  <2> QED BY <2>1, <2>2, <2>3, ResultsBuilt, Zenon
          DEF EmitJsonGet, EmitJsonGetStr, EmitJsonGetI64, EmitJsonGetF64, EmitJsonGetBool
<1>4. ASSUME NEW d \in Docs, NEW k \in Keys, NEW s \in Strings PROVE Built(EmitJsonSetStr(d, k, s))
  <2>1. PICK f : f = (k :> JStr(s)) @@ d.flds
    OBVIOUS
  <2>2. SetStr(d, k, s) = Failed \/ SetStr(d, k, s) = Found(JObj(f))
    BY <2>1, Zenon DEF SetStr
  <2> QED BY <2>2, ResultsBuilt, WrittenTexts, Zenon DEF EmitJsonSetStr
<1>5. ASSUME NEW b \in BOOLEAN
      PROVE  /\ Built(EmitOidcValidateToken(b)) /\ Built(EmitMockIssueToken(b))
             /\ Built(EmitCheckRevocation(b))
  <2>1. \A y \in Range(IdentityFields) : LeafValue(y)
    <3>1. \A t \in {Words("subject"), Words("issuer"), Words("audience"), JObj(<<>>)} : LeafValue(StrVal(t))
      BY <1>w, WrittenTexts, Zenon
    <3>2. LeafValue(Val(1)) /\ LeafValue(Val(0))
      BY PlainBuilt
    <3>3. PICK s, i, a, c, one, zero :
            /\ s = StrVal(Words("subject")) /\ i = StrVal(Words("issuer")) /\ a = StrVal(Words("audience"))
            /\ c = StrVal(JObj(<<>>)) /\ one = Val(1) /\ zero = Val(0)
      OBVIOUS
    <3>4. IdentityFields = <<s, i, a, one, zero, c>>
      BY <3>3, Zenon DEF IdentityFields
    <3>5. \A y \in Range(<<s, i, a, one, zero, c>>) : y \in {s, i, a, one, zero, c}
      BY DEF Range
    <3> QED BY <3>1, <3>2, <3>3, <3>4, <3>5, Zenon
  <2>2. Built(EmitOidcValidateToken(b))
    <3>1. When(b, IdentityFields) = Failed \/ When(b, IdentityFields) = Found(IdentityFields)
      BY Answered, Zenon
    <3> QED BY <2>1, <3>1, ResultsBuilt, Zenon DEF EmitOidcValidateToken
  <2>3. Built(EmitMockIssueToken(b))
    <3>1. When(b, Words("token")) = Failed \/ When(b, Words("token")) = Found(Words("token"))
      BY Answered, Zenon
    <3> QED BY <3>1, ResultsBuilt, WrittenTexts, Zenon DEF EmitMockIssueToken
  <2>4. Built(EmitCheckRevocation(b))
    BY PlainBuilt, Zenon DEF EmitCheckRevocation
  <2> QED BY <2>2, <2>3, <2>4
<1>6. ASSUME NEW b \in BOOLEAN, NEW s \in Strings
      PROVE  Built(EmitExtractClaim(b, s)) /\ Built(EmitCheckRolePath(b, s)) /\ Built(EmitExtractClaimPath(b, s))
  <2>1. Built(Ok(StrVal(s)))
    BY <1>w, TextsWritten, Zenon
  <2>2. When(b, s) = Failed \/ When(b, s) = Found(s)
    BY Answered, Zenon
  <2> QED BY <1>e, <2>1, <2>2, Answered, Zenon
          DEF EmitExtractClaim, EmitCheckRolePath, EmitExtractClaimPath
<1>7. ASSUME NEW b \in BOOLEAN, NEW a \in Answers, NEW scheme
      PROVE  Built(EmitHttpCall(b, a)) /\ Built(EmitCallVia(b, scheme, a))
  <2>1. ASSUME a # NoAnswer, NEW n
        PROVE  \A y \in Range(<<Val(n), StrVal(a.body)>>) : LeafValue(y)
    <3>1. LeafValue(Val(n)) /\ LeafValue(StrVal(a.body))
      BY <1>w, <2>1, PlainBuilt, TextsWritten, Zenon
    <3>2. PICK x, y : x = Val(n) /\ y = StrVal(a.body)
      OBVIOUS
    <3>3. \A z \in Range(<<x, y>>) : z \in {x, y}
      BY DEF Range
    <3> QED BY <3>1, <3>2, <3>3, Zenon
  <2>2. a # NoAnswer => \A n : Built(ResultMergeAgg(Found(<<Val(n), StrVal(a.body)>>)))
    BY <2>1, ResultsBuilt, Zenon
  <2>3. /\ HttpRequest(b, a) = Failed
           \/ (a # NoAnswer /\ \E n : HttpRequest(b, a) = Found(<<Val(n), StrVal(a.body)>>))
        /\ CallVia(scheme, a) = Failed
           \/ (a # NoAnswer /\ \E n : CallVia(scheme, a) = Found(<<Val(n), StrVal(a.body)>>))
    BY Zenon DEF HttpRequest, CallVia, WriteHttpResult
  <2> QED BY <2>2, <2>3, ResultsBuilt, Zenon DEF EmitHttpCall, EmitCallVia
<1>8. ASSUME NEW at, NEW age PROVE Built(EmitSessionCookie(at, age))
  <2>1. SessionCookie(at, age).id = Words("session")
    BY DEF SessionCookie
  <2> QED BY <1>w, <2>1, WrittenTexts, Zenon DEF EmitSessionCookie
<1>9. v \in EnvValues \/ v \in JsonValues \/ v \in IdentityValues \/ v \in HttpValues
  BY Zenon DEF BuiltinValues
<1>10. v \in EnvValues => Built(v)
  BY <1>1, Zenon DEF EnvValues
<1>11. v \in JsonValues => Built(v)
  <2> SUFFICES ASSUME v \in JsonValues PROVE Built(v)
    OBVIOUS
  <2>1. PICK d \in Docs, k \in Keys, s \in Strings :
          v \in {EmitJsonParse(d), EmitJsonArrayLen(d), EmitJsonArrayGet(d, 0), EmitJsonGet(d, k),
                EmitJsonGetStr(d, k), EmitJsonGetI64(d, k), EmitJsonGetF64(d, k), EmitJsonGetBool(d, k),
                EmitJsonSetStr(d, k, s)}
    BY DEF JsonValues
  <2> QED BY <1>2, <1>3, <1>4, <2>1, Zenon
<1>12. v \in IdentityValues => Built(v)
  <2> SUFFICES ASSUME v \in IdentityValues PROVE Built(v)
    OBVIOUS
  <2>1. PICK yes \in BOOLEAN, s \in Strings :
          v \in {EmitOidcValidateToken(yes), EmitMockIssueToken(yes), EmitCheckRevocation(yes),
                EmitExtractClaim(yes, s), EmitCheckRolePath(yes, s), EmitExtractClaimPath(yes, s),
                EmitSessionCookie(0, 1)}
    BY DEF IdentityValues
  <2> QED BY <1>5, <1>6, <1>8, <2>1, Zenon
<1>13. v \in HttpValues => Built(v)
  <2> SUFFICES ASSUME v \in HttpValues PROVE Built(v)
    OBVIOUS
  <2>1. PICK utf8 \in BOOLEAN, ans \in Answers :
          v \in {EmitHttpCall(utf8, ans), EmitCallVia(utf8, "http", ans), EmitCallVia(utf8, "kafka", ans)}
    BY DEF HttpValues
  <2> QED BY <1>7, <2>1, Zenon
<1> QED BY <1>9, <1>10, <1>11, <1>12, <1>13, Zenon

\* A step that stores nothing, returns nothing or a value that is built of
\* written texts, and starts no statement.
Told       == result' = Nil \/ \E v : Built(v) /\ result' = Gives(v)
ArgKept(t) == \/ call' = call
              \/ \E c : /\ c.k \in DbOps => c.k = call[t].k /\ c.arg = call[t].arg
                        /\ call' = [call EXCEPT ![t] = c]
Plain(t)   == cell' = cell /\ Told /\ ArgKept(t)

\* What is known of the statements is kept.
LEMMA ArgKeeps ==
  ASSUME Shaped, BindsKept, NEW t \in Threads, ArgKept(t)
  PROVE  BindsKept'
<1>1. CASE call' = call
  BY <1>1 DEF BindsKept
<1>2. ASSUME NEW c, c.k \in DbOps => c.k = call[t].k /\ c.arg = call[t].arg,
             call' = [call EXCEPT ![t] = c]
      PROVE  BindsKept'
  <2>1. \A u \in Threads : call'[u] = call[u] \/ (u = t /\ call'[u] = c)
    BY <1>2 DEF Shaped
  <2> QED BY <2>1, <1>2 DEF BindsKept
<1> QED BY <1>1, <1>2 DEF ArgKept

\* A result that is only a value built of written texts is true.
LEMMA ToldIsTrue == ASSUME Told PROVE ResultIsTrue'
<1>1. CASE result' = Nil
  BY <1>1 DEF ResultIsTrue
<1>2. ASSUME NEW v, Built(v), result' = Gives(v) PROVE ResultIsTrue'
  <2>1. result'.v = v /\ result'.row = Nil /\ result'.refused = Nil
    BY <1>2 DEF Gives
  <2>2. Unwritten \notin Texts(v)
    BY <1>2, BuiltTexts
  <2>3. Unwritten \notin Texts(result'.v)
    BY <2>1, <2>2
  <2>4. (result # Nil => /\ Unwritten \notin Texts(result.v)
                         /\ result.row = Nil /\ result.refused = Nil)' => ResultIsTrue'
    BY DEF ResultIsTrue
  <2> QED BY <2>1, <2>3, <2>4
<1> QED BY <1>1, <1>2 DEF Told

LEMMA PlainKeeps ==
  ASSUME Shaped, ResultInv, NEW t \in Threads, Plain(t)
  PROVE  ResultInv'
<1>1. CellsTrue'
  BY DEF ResultInv, CellsTrue, Plain
<1> QED BY <1>1, ArgKeeps, ToldIsTrue DEF ResultInv, Plain

\* What the emitted code makes of the answer of each operation.
LEMMA EmitsBuilt ==
  /\ \A d : Built(EmitConnect(d, Failed)) /\ \A h : Built(EmitConnect(d, Found(h)))
  /\ \A k \in Ops : Built(EmitOp(k, Failed))
  /\ \A n : Built(EmitDbExecute(Found(n))) /\ Built(EmitMqPublish(Found(n)))
  /\ \A t : Written(t) => Built(EmitDbQuery(Found(t))) /\ Built(EmitMqConsume(Found(t)))
<1>1. \A r : EmitDbExecute(r) = ScalarResult(r) /\ EmitMqPublish(r) = ScalarResult(r)
  BY DEF EmitDbExecute, EmitMqPublish
<1>2. \A r : EmitDbQuery(r) = StrResult(r) /\ EmitMqConsume(r) = StrResult(r)
  BY DEF EmitDbQuery, EmitMqConsume
<1>3. \A d, r : EmitConnect(d, r) = ScalarResult(r)
  BY DEF EmitConnect, EmitMqConnect, EmitDbConnect
<1>4. \A k \in Ops : EmitOp(k, Failed) = ScalarResult(Failed) \/ EmitOp(k, Failed) = StrResult(Failed)
  BY <1>1, <1>2 DEF EmitOp, Ops
<1> QED BY <1>1, <1>2, <1>3, <1>4, ResultsBuilt

\* Whatever a call returns, it has no more arguments.
LEMMA KeptReturn ==
  ASSUME NEW t \in Threads, NEW r, Return(t, r)
  PROVE  ArgKept(t) /\ result' = r
<1>1. Idle.k \notin DbOps
  BY DEF Idle, Call, DbOps
<1> QED BY <1>1 DEF ArgKept, Return

\* A call that is not a statement.
LEMMA KeptEnters ==
  ASSUME NEW t \in Threads, NEW k, NEW at, NEW d, NEW h, NEW r, NEW arg, k \notin DbOps,
         Enter(t, Call(k, at, d, h, r, arg))
  PROVE  ArgKept(t) /\ Told
<1>1. PICK c : c = Call(k, at, d, h, r, arg)
  OBVIOUS
<1>2. c.k = k /\ call' = [call EXCEPT ![t] = c]
  BY <1>1, CallIs DEF Enter
<1> QED BY <1>2 DEF ArgKept, Told, Enter

\* A call that goes on with the arguments it has.
LEMMA KeptGoes ==
  ASSUME Shaped, NEW t \in Threads,
         (\E at : GoTo(t, at)) \/ (\E d : Enter(t, [call[t] EXCEPT !.d = d]))
  PROVE  ArgKept(t) /\ Told
<1>0. IsCall(call[t])
  BY DEF Shaped
<1>1. ASSUME NEW at, GoTo(t, at) PROVE ArgKept(t) /\ Told
  <2>1. PICK c : c = [call[t] EXCEPT !.at = at]
    OBVIOUS
  <2>2. c.k = call[t].k /\ c.arg = call[t].arg
    BY <1>0, <2>1, CallWith, CallIs
  <2>3. call' = [call EXCEPT ![t] = c]
    BY <2>1, <1>1 DEF GoTo, Shaped
  <2> QED BY <2>2, <2>3, <1>1 DEF ArgKept, Told, GoTo
<1>2. ASSUME NEW d, Enter(t, [call[t] EXCEPT !.d = d]) PROVE ArgKept(t) /\ Told
  <2>1. PICK c : c = [call[t] EXCEPT !.d = d]
    OBVIOUS
  <2>2. c.k = call[t].k /\ c.arg = call[t].arg
    BY <1>0, <2>1, CallWith, CallIs
  <2>3. call' = [call EXCEPT ![t] = c]
    BY <2>1, <1>2 DEF Enter
  <2> QED BY <2>2, <2>3, <1>2 DEF ArgKept, Told, Enter
<1> QED BY <1>1, <1>2

\* A call returns nothing, or such a value.
LEMMA TellsReturn ==
  ASSUME NEW t \in Threads, NEW v, Return(t, Nil) \/ (Built(v) /\ Return(t, Gives(v)))
  PROVE  ArgKept(t) /\ Told
BY KeptReturn DEF Told

LEMMA TellsGiveUp ==
  ASSUME NEW t \in Threads, NEW d, GiveUp(t, d)
  PROVE  ArgKept(t) /\ Told
<1>1. PICK v : v = EmitConnect(d, Failed)
  OBVIOUS
<1>2. Built(v) /\ (Return(t, Nil) \/ Return(t, Gives(v)))
  BY <1>1, EmitsBuilt DEF GiveUp, Trap
<1> QED BY <1>2, TellsReturn

LEMMA TellsWith ==
  ASSUME Shaped, NEW t \in Threads, NEW missing, Built(missing), With(t, missing)
  PROVE  Plain(t)
<1>1. /\ cell' = cell
      /\ \/ GoTo(t, "op") \/ Enter(t, [call[t] EXCEPT !.d = "plugin"])
         \/ Return(t, Gives(missing))
  BY DEF With
<1> QED BY <1>1, TellsReturn, KeptGoes DEF Plain

\* Everything a kernel call begins with, the statements apart.
LEMMA BeginsPlain ==
  ASSUME Shaped, NEW t \in Threads,
         \/ \E k : BadArgument(t, k) \/ Admit(t, k)
         \/ \E m : Stop(t, m) \/ SendTo(t, m) \/ RecvFrom(t, m)
         \/ \E m, k, arg : k \notin DbOps /\ Use(t, m, k, arg)
         \/ \E m, u : Move(t, u, m)
         \/ CallBuiltin(t)
  PROVE  Plain(t)
<1>1. ASSUME NEW k, BadArgument(t, k) PROVE Plain(t)
  BY <1>1, TellsGiveUp DEF BadArgument, Plain
<1>2. ASSUME NEW k, Admit(t, k) PROVE Plain(t)
  <2>1. /\ cell' = cell /\ k \in DOMAIN Opens
        /\ \/ Enter(t, Call(k, "opening", DomainOf(k), 0, 0, Nil))
           \/ GiveUp(t, DomainOf(k))
    BY <1>2 DEF Admit
  <2>2. k \notin DbOps
    BY <2>1 DEF Opens, DbOps
  <2> QED BY <2>1, <2>2, KeptEnters, TellsGiveUp DEF Plain
<1>3. ASSUME NEW m, Stop(t, m) PROVE Plain(t)
  <2>1. PICK at : at = IF Raw(m.d) THEN "release" ELSE "remove"
    OBVIOUS
  <2>2. cell' = cell /\ Enter(t, Call("stop", at, m.d, m.h, m.r, Nil))
    BY <1>3, <2>1 DEF Stop
  <2>3. "stop" \notin DbOps
    BY DEF DbOps
  <2> QED BY <2>2, <2>3, KeptEnters DEF Plain
<1>4. ASSUME NEW m, SendTo(t, m) \/ RecvFrom(t, m) PROVE Plain(t)
  <2>1. cell' = cell /\ Return(t, Nil)
    BY <1>4 DEF SendTo, RecvFrom, Trap
  <2> QED BY <2>1, TellsReturn DEF Plain
<1>5. ASSUME NEW m, NEW k, NEW arg, k \notin DbOps, Use(t, m, k, arg) PROVE Plain(t)
  <2>1. cell' = cell /\ Enter(t, Call(k, "lock", m.d, m.h, m.r, arg))
    BY <1>5 DEF Use
  <2> QED BY <2>1, <1>5, KeptEnters DEF Plain
<1>6. ASSUME NEW m, NEW u, Move(t, u, m) PROVE Plain(t)
  BY <1>6 DEF Move, Plain, ArgKept, Told
<1>7. CASE CallBuiltin(t)
  <2>1. PICK v \in BuiltinValues : Return(t, Gives(v))
    BY <1>7 DEF CallBuiltin
  <2>2. Built(v)
    BY BuiltinsBuilt
  <2>3. cell' = cell
    BY <1>7 DEF CallBuiltin
  <2> QED BY <2>1, <2>2, <2>3, TellsReturn DEF Plain
<1> QED BY <1>1, <1>2, <1>3, <1>4, <1>5, <1>6, <1>7, Zenon

\* Opening and closing go on.
LEMMA OpensPlain ==
  ASSUME Shaped, CallsApt, NEW t \in Threads,
         OpenFails(t) \/ OpenFd(t) \/ Mint(t) \/ Insert(t) \/ RemoveEntry(t) \/ Release(t)
  PROVE  Plain(t)
<1>1. CASE OpenFails(t)
  BY <1>1, TellsGiveUp DEF OpenFails, Plain
<1>2. CASE OpenFd(t) \/ Release(t)
  BY <1>2, TellsReturn DEF OpenFd, Release, Plain
<1>3. CASE Mint(t)
  <2>1. PICK k, h, r, d : /\ k = call[t].k /\ call[t].at = "opening" /\ cell' = cell
                          /\ Enter(t, Call(k, "insert", d, h, r, Nil))
    BY <1>3 DEF Mint
  <2>2. k \notin DbOps
    BY <2>1 DEF CallsApt, Opens, DbOps
  <2> QED BY <2>1, <2>2, KeptEnters DEF Plain
<1>4. CASE Insert(t)
  <2>1. PICK v : v = EmitConnect(call[t].d, Found(call[t].h))
    OBVIOUS
  <2>2. Built(v) /\ cell' = cell /\ Return(t, Gives(v))
    BY <1>4, <2>1, EmitsBuilt DEF Insert
  <2> QED BY <2>2, TellsReturn DEF Plain
<1>5. CASE RemoveEntry(t)
  <2>1. /\ cell' = cell
        /\ \/ GoTo(t, "release") \/ Return(t, Nil)
           \/ Enter(t, [call[t] EXCEPT !.d = "plugin"])
    BY <1>5 DEF RemoveEntry
  <2> QED BY <2>1, KeptGoes, TellsReturn DEF Plain
<1> QED BY <1>1, <1>2, <1>3, <1>4, <1>5

\* The operations under a table's lock, those on a row apart.
LEMMA OperationsPlain ==
  ASSUME Shaped, NEW t \in Threads,
         \/ call[t].k \in Ops /\ With(t, EmitOp(call[t].k, Failed))
         \/ \E k \in Ops : OpFails(t, k)
         \/ PluginExecute(t) \/ PluginQuery(t)
         \/ MqPublish(t) \/ MqConsume(t) \/ MqConsumeTimesOut(t)
  PROVE  Plain(t)
<1>0. ASSUME NEW v, Built(v), Finish(t, Gives(v)), cell' = cell PROVE Plain(t)
  BY <1>0, TellsReturn DEF Finish, Plain
<1>1. CASE call[t].k \in Ops /\ With(t, EmitOp(call[t].k, Failed))
  <2>1. PICK v : v = EmitOp(call[t].k, Failed)
    OBVIOUS
  <2> QED BY <1>1, <2>1, EmitsBuilt, TellsWith
<1>2. ASSUME NEW k \in Ops, OpFails(t, k) PROVE Plain(t)
  <2>1. PICK v : v = EmitOp(k, Failed)
    OBVIOUS
  <2> QED BY <1>0, <1>2, <2>1, EmitsBuilt DEF OpFails
<1>3. CASE PluginExecute(t)
  <2>1. PICK ok \in BOOLEAN : Finish(t, Gives(EmitDbExecute(When(ok, 1))))
    BY <1>3, Zenon DEF PluginExecute
  <2>2. PICK v : v = EmitDbExecute(When(ok, 1))
    OBVIOUS
  <2>3. Built(v)
    BY <2>2, Answered, EmitsBuilt, ResultsBuilt DEF EmitDbExecute
  <2> QED BY <1>0, <1>3, <2>1, <2>2, <2>3 DEF PluginExecute
<1>4. CASE PluginQuery(t)
  <2>1. PICK v : v = EmitDbQuery(When(call[t].arg.x = Nil, Words("rows")))
    OBVIOUS
  <2>2. Built(v)
    BY <2>1, Answered, EmitsBuilt, ResultsBuilt, WrittenTexts DEF EmitDbQuery
  <2> QED BY <1>0, <1>4, <2>1, <2>2 DEF PluginQuery
<1>5. CASE MqPublish(t)
  <2>1. PICK v : v = EmitMqPublish(Found(0))
    OBVIOUS
  <2> QED BY <1>0, <1>5, <2>1, EmitsBuilt DEF MqPublish
<1>6. CASE MqConsume(t)
  <2>1. PICK v : v = EmitMqConsume(Found(Words("message")))
    OBVIOUS
  <2> QED BY <1>0, <1>6, <2>1, EmitsBuilt, WrittenTexts DEF MqConsume
<1>7. CASE MqConsumeTimesOut(t)
  <2>1. PICK v : v = EmitMqConsume(Failed)
    OBVIOUS
  <2>2. Built(v)
    BY <2>1, ResultsBuilt DEF EmitMqConsume
  <2> QED BY <1>0, <1>7, <2>1, <2>2 DEF MqConsumeTimesOut
<1> QED BY <1>1, <1>2, <1>3, <1>4, <1>5, <1>6, <1>7, Zenon

\* The Errs of the workflow and notification builtins.
LEMMA ErrsBuilt ==
  /\ Built(ProviderNotConfigured) /\ Built(NoSuchTransition) /\ Built(InstanceNotFound)
  /\ Built(ProviderRequestFailed) /\ \A n : Built(NotifyResult(n))
<1>1. ASSUME NEW n PROVE Built(ErrTag(n))
  <2>1. PICK e : e = [n |-> n, tag |-> 0, kids |-> <<>>]
    OBVIOUS
  <2>2. NoText(e) /\ Range(e.kids) = {}
    BY <2>1 DEF NoText, Range
  <2>3. LeafValue(e)
    BY <2>2 DEF LeafValue
  <2> QED BY <2>1, <2>3, PlainBuilt, Zenon DEF ErrTag
<1>2. Built(ProviderRequestFailed)
  <2>1. PICK w : w = Words("reason")
    OBVIOUS
  <2>2. PICK e : e = [n |-> 2, tag |-> 0, kids |-> <<w>>]
    OBVIOUS
  <2>3. NoText(e) /\ \A y \in Range(e.kids) : y = w
    BY <2>2 DEF NoText, Range
  <2>4. LeafValue(e)
    BY <2>1, <2>3, WrittenTexts DEF LeafValue
  <2> QED BY <2>1, <2>2, <2>4, PlainBuilt, Zenon DEF ProviderRequestFailed
<1>3. Built(Ok(Val(1)))
  BY PlainBuilt
<1>4. \A n : NotifyResult(n) \in {Ok(Val(1)), ProviderNotConfigured, ProviderRequestFailed}
  BY Zenon DEF NotifyResult
<1>5. Built(ProviderNotConfigured)
  BY <1>1 DEF ProviderNotConfigured
<1> QED BY <1>1, <1>2, <1>3, <1>4, <1>5, Zenon DEF NoSuchTransition, InstanceNotFound

\* Workflows and notifications.
LEMMA WorkflowPlain ==
  ASSUME Shaped, NEW t \in Threads,
         \/ \E w : WorkflowStart(t, w) \/ WorkflowOverdue(t, w)
         \/ \E w, id, e : WorkflowAdvance(t, w, id, e)
         \/ WorkflowUnsupportedQuery(t)
         \/ \E m : \E k \in Sends : SendNotification(t, m, k)
         \/ WorkflowAction(t) \/ WorkflowSetState(t) \/ WorkflowReturn(t)
         \/ With(t, NotifyResult(2))
         \/ WorkflowListOverdue(t) \/ LoadActiveProviderConfig(t) \/ SendViaProvider(t)
  PROVE  Plain(t)
<1>k. {"start", "advance", "overdue", "send", "notify"} \cap DbOps = {}
  BY DEF DbOps
<1>1. ASSUME NEW w, WorkflowStart(t, w) PROVE Plain(t)
  <2>1. PICK h, r : cell' = cell /\ Enter(t, Call("start", "entry", "none", h, r, Nil))
    BY <1>1 DEF WorkflowStart, Kernel
  <2> QED BY <2>1, <1>k, KeptEnters DEF Plain
<1>2. ASSUME NEW w, WorkflowOverdue(t, w) PROVE Plain(t)
  <2>1. PICK arg : cell' = cell /\ Enter(t, Call("overdue", "overdue", "none", 0, 0, arg))
    BY <1>2 DEF WorkflowOverdue, Kernel
  <2> QED BY <2>1, <1>k, KeptEnters DEF Plain
<1>3. ASSUME NEW w, NEW id, NEW e, WorkflowAdvance(t, w, id, e) PROVE Plain(t)
  <2>1. /\ cell' = cell
        /\ \/ Return(t, Gives(InstanceNotFound)) \/ Return(t, Gives(NoSuchTransition))
           \/ \E r, arg : Enter(t, Call("advance", "exit", "none", id, r, arg))
    BY <1>3 DEF WorkflowAdvance, Kernel
  <2> QED BY <2>1, <1>k, KeptEnters, TellsReturn, ErrsBuilt DEF Plain
<1>4. CASE WorkflowUnsupportedQuery(t)
  BY <1>4, TellsReturn, ErrsBuilt DEF WorkflowUnsupportedQuery, Kernel, Plain
<1>5. ASSUME NEW m, NEW k \in Sends, SendNotification(t, m, k) PROVE Plain(t)
  BY <1>5, <1>k, BeginsPlain DEF SendNotification, Sends
<1>6. CASE WorkflowAction(t)
  <2>1. PICK c : c = Call(call[t].k, call[t].at, call[t].d, call[t].h, call[t].r - 1, call[t].arg)
    OBVIOUS
  <2>2. c.k = call[t].k /\ c.arg = call[t].arg
    BY <2>1, CallIs
  <2>3. call' = [call EXCEPT ![t] = c]
    BY <1>6, <2>1, ActionIs
  <2>4. cell' = cell /\ result' = Nil
    BY <1>6 DEF WorkflowAction, Kernel
  <2> QED BY <2>2, <2>3, <2>4 DEF Plain, ArgKept, Told
<1>7. CASE WorkflowSetState(t)
  <2>1. PICK r : Enter(t, Call("advance", "entry", "none", call[t].h, r, Nil))
    BY <1>7 DEF WorkflowSetState
  <2>2. PICK c : c = Call("advance", "entry", "none", call[t].h, r, Nil)
    OBVIOUS
  <2>3. c.k = "advance" /\ "advance" \notin DbOps
    BY <2>2, CallIs DEF DbOps
  <2>4. cell' = cell /\ result' = Nil /\ call' = [call EXCEPT ![t] = c]
    BY <1>7, <2>1, <2>2 DEF WorkflowSetState, Kernel, Enter
  <2> QED BY <2>3, <2>4 DEF Plain, ArgKept, Told
<1>8. CASE WorkflowReturn(t)
  <2>1. PICK n : cell' = cell /\ Return(t, Gives(Ok(Val(n))))
    BY <1>8 DEF WorkflowReturn, Kernel
  <2>2. Built(Ok(Val(n)))
    BY PlainBuilt
  <2> QED BY <2>1, <2>2, TellsReturn DEF Plain
<1>9. CASE With(t, NotifyResult(2))
  BY <1>9, ErrsBuilt, TellsWith
<1>10. CASE WorkflowListOverdue(t)
  <2>1. PICK ts : cell' = cell /\ Return(t, Gives(StrResult(Found(JArr(ts)))))
    BY <1>10, Zenon DEF WorkflowListOverdue, Kernel
  <2>2. Built(StrResult(Found(JArr(ts))))
    BY ResultsBuilt, WrittenTexts
  <2> QED BY <2>1, <2>2, TellsReturn DEF Plain
<1>11. CASE LoadActiveProviderConfig(t)
  <2>1. cell' = cell /\ (GoTo(t, "post") \/ Return(t, Gives(NotifyResult(1))))
    BY <1>11 DEF LoadActiveProviderConfig, Finish
  <2> QED BY <2>1, KeptGoes, TellsReturn, ErrsBuilt DEF Plain
<1>12. CASE SendViaProvider(t)
  BY <1>12, TellsReturn, ErrsBuilt DEF SendViaProvider, Kernel, Plain
<1> QED BY <1>1, <1>2, <1>3, <1>4, <1>5, <1>6, <1>7, <1>8, <1>9, <1>10, <1>11, <1>12, Zenon

\* A statement begins with the arguments it is given.
LEMMA StatementBegins ==
  ASSUME Shaped, ResultInv, NEW t \in Threads, NEW m, NEW s \in Statements, NEW x \in Binds,
         NEW k \in DbOps, Use(t, m, k, [stmt |-> s, x |-> x])
  PROVE  ResultInv'
<1>1. PICK arg : arg = [stmt |-> s, x |-> x]
  OBVIOUS
<1>2. arg.stmt \in Statements /\ arg.x \in Binds
  BY <1>1
<1>3. PICK c : c = Call(k, "lock", m.d, m.h, m.r, arg)
  OBVIOUS
<1>4. c.k = k /\ c.arg = arg
  BY <1>3, CallIs
<1>5. call' = [call EXCEPT ![t] = c] /\ cell' = cell /\ result' = Nil
  BY <1>1, <1>3 DEF Use, Enter
<1>6. \A u \in Threads : call'[u] = call[u] \/ call'[u] = c
  BY <1>5 DEF Shaped
<1>7. BindsKept'
  BY <1>2, <1>4, <1>6 DEF ResultInv, BindsKept
<1> QED BY <1>5, <1>7, ToldIsTrue DEF ResultInv, CellsTrue, Told

-----------------------------------------------------------------------------
(* Rows: a value that its column holds is read back as it was bound.       *)

\* `as i16` and `as i32` of a number in range is that number.
LEMMA NarrowKeeps ==
  ASSUME NEW R, IsFiniteSet(R), R \subseteq Int, \A a, b \in R : a .. b \subseteq R, NEW n \in R
  PROVE  NarrowFromI64(n, R) = n
<1> DEFINE N == Cardinality(R)
<1>1. N \in Nat /\ N > 0
  BY FS_CardinalityType, FS_EmptySet
<1>2. ASSUME NEW a \in R, NEW b \in R, a <= b PROVE b - a < N
  <2>1. IsFiniteSet(a .. b) /\ Cardinality(a .. b) = b - a + 1
    BY <1>2, FS_Interval
  <2>2. Cardinality(a .. b) <= N
    BY FS_Subset
  <2> QED BY <1>1, <2>1, <2>2
<1>3. ASSUME NEW x \in R, (x - n) % N = 0 PROVE x = n
  <2>1. x - n < N /\ n - x < N
    BY <1>1, <1>2
  <2>2. PICK d \in Int : d = x - n
    OBVIOUS
  <2>3. d < N /\ -d < N /\ d % N = 0
    BY <1>3, <2>1, <2>2
  <2>4. d = 0
    BY <1>1, <2>3
  <2> QED BY <2>2, <2>4
<1>4. (n - n) % N = 0
  BY <1>1
<1> QED BY <1>3, <1>4 DEF NarrowFromI64

\* The nearest of some numbers to one of them is that one.
LEMMA NearestKeeps ==
  ASSUME NEW R, R \subseteq Int, NEW n \in R
  PROVE  (CHOOSE x \in R : \A y \in R : (x - n) * (x - n) <= (y - n) * (y - n)) = n
<1>1. ASSUME NEW d \in Int PROVE d * d >= 0 /\ (d * d <= 0 => d = 0)
  OBVIOUS
<1>2. \A y \in R : (n - n) * (n - n) <= (y - n) * (y - n)
  BY <1>1
<1>3. ASSUME NEW x \in R, \A y \in R : (x - n) * (x - n) <= (y - n) * (y - n) PROVE x = n
  <2>1. (x - n) * (x - n) <= (n - n) * (n - n)
    BY <1>3
  <2>2. PICK d \in Int : d = x - n
    OBVIOUS
  <2> QED BY <1>1, <2>1, <2>2
<1> QED BY <1>2, <1>3

\* What an accessor reads under the one key of a row.
LEMMA AccessorReads ==
  ASSUME NEW j
  PROVE  LET row == JObj([c |-> j])
         IN  /\ AsI64(j) => Accessor("i64", row) = Ok(Val(j.n))
             /\ AsF64(j) => Accessor("f64", row) = Ok(Val(j.n))
             /\ AsBool(j) => Accessor("bool", row) = Ok(Val(j.n))
             /\ IsStr(j) => Accessor("str", row) = Ok(StrVal(Content(j)))
<1>1. PICK row : row = JObj([c |-> j])
  OBVIOUS
<1>2. Has(row, "c") /\ row.flds["c"] = j
  BY <1>1 DEF Has, JObj, Text
<1>3. /\ AsI64(j) => GetI64(row, "c") = Found(j.n)
      /\ AsF64(j) => GetF64(row, "c") = Found(j.n)
      /\ AsBool(j) => GetBool(row, "c") = Found(j.n)
      /\ IsStr(j) => GetStr(row, "c") = Found(Content(j))
  BY <1>2 DEF GetI64, GetF64, GetBool, GetStr, Leaf, Number
<1>4. /\ Accessor("i64", row) = ScalarResult(GetI64(row, "c"))
      /\ Accessor("f64", row) = ScalarResult(GetF64(row, "c"))
      /\ Accessor("bool", row) = ScalarResult(GetBool(row, "c"))
      /\ Accessor("str", row) = StrResult(GetStr(row, "c"))
  BY DEF Accessor, EmitJsonGetI64, EmitJsonGetF64, EmitJsonGetBool, EmitJsonGetStr
<1>5. \A v : ScalarResult(Found(v)) = Ok(Val(v)) /\ StrResult(Found(v)) = Ok(StrVal(v))
  BY Answered DEF ScalarResult, StrResult, ResultMerge
<1> QED BY <1>1, <1>3, <1>4, <1>5

\* The texts of a row's columns.
LEMMA Texted ==
  \A n : /\ JNum(n).j = "num" /\ JNum(n).n = n /\ JReal(n).j = "real" /\ JReal(n).n = n
         /\ JBool(n).j = "bool" /\ JBool(n).n = n
         /\ JStr(n).j = "str" /\ JStr(n).items = <<n>>
BY DEF JNum, JReal, JBool, JStr, Text

\* What a program binds, and how it looks to the kernels.
LEMMA Bound ==
  ASSUME NEW x \in Binds \ {Nil}
  PROVE  \/ x.ty = "i64" /\ x.v.n \in Word /\ x.v = Val(x.v.n) /\ EmitDbBinds(x).tag = 0
         \/ x.ty = "f64" /\ x.v.n \in Int /\ (Finite(x.v) => x.v = Val(x.v.n)) /\ EmitDbBinds(x).tag = 1
         \/ x.ty = "str" /\ x.v = StrVal(x.v.kids[1]) /\ EmitDbBinds(x).tag = 2
         \/ x.ty = "bool" /\ x.v = Val(x.v.n) /\ x.v.n \in {0, 1} /\ EmitDbBinds(x).tag = 3
<1>1. EmitDbBinds(x).tag = Tag[x.ty]
  BY DEF EmitDbBinds
<1>2. Tag["i64"] = 0 /\ Tag["f64"] = 1 /\ Tag["str"] = 2 /\ Tag["bool"] = 3
  BY DEF Tag
<1>3. \A n : Val(n).n = n
  BY DEF Val
<1> QED BY <1>1, <1>2, <1>3, BindsType

\* What a column of SQLite keeps, it stores as it was bound, or as a number of
\* the other kind.
LEMMA AffinityKeeps ==
  ASSUME NEW x \in Binds \ {Nil}, NEW col \in Affinities, Fits(x, col), NEW s, NEW a,
         s = BindValuesFromRaw(EmitDbBinds(x)), a = Affinity(s, col)
  PROVE  /\ x.ty \in {"i64", "bool"} => a.sql = "Integer" /\ a.v = x.v
         /\ x.ty = "f64" => a.sql \in {"Integer", "Real"} /\ a.v = x.v
         /\ x.ty = "str" => a.sql = "Text" /\ a.v = x.v
<1>1. PICK e : e = EmitDbBinds(x)
  OBVIOUS
<1>2. e.v = x.v
  BY <1>1 DEF EmitDbBinds
<1>3. /\ s.v = x.v
      /\ e.tag \in {0, 3} => s.sql = "Integer"
      /\ e.tag = 1 => s.sql = "Real"
      /\ e.tag = 2 => s.sql = "Text"
  BY <1>1, <1>2 DEF BindValuesFromRaw, Stored
<1>4. /\ Finite(x.v)
      /\ x.ty \in KeptBy[col] \/ (x.ty = "str" /\ ~Numeric(x.v.kids[1]))
  BY DEF Fits
<1>5. \A q, v : Stored(q, v).sql = q /\ Stored(q, v).v = v
  BY DEF Stored
<1>6. col \in {"NONE", "INTEGER", "REAL", "TEXT"}
  BY DEF Affinities
<1>7. CASE x.ty \in {"i64", "bool"}
  <2>1. s.sql = "Integer" /\ col \in {"NONE", "INTEGER"}
    BY <1>1, <1>3, <1>4, <1>6, <1>7, Bound DEF KeptBy
  <2>2. a = s
    BY <2>1 DEF Affinity
  <2> QED BY <1>3, <1>7, <2>1, <2>2
<1>8. CASE x.ty = "f64"
  <2>1. s.sql = "Real" /\ col \in {"NONE", "INTEGER", "REAL"} /\ x.v = Val(x.v.n)
    BY <1>1, <1>3, <1>4, <1>6, <1>8, Bound DEF KeptBy
  <2>2. \/ a = s \/ a = Stored("Real", Val(s.v.n)) \/ a = Stored("Integer", Val(s.v.n))
    BY <2>1 DEF Affinity
  <2> QED BY <1>3, <1>5, <1>8, <2>1, <2>2
<1>9. CASE x.ty = "str"
  <2>1. s.sql = "Text"
    BY <1>1, <1>3, <1>9, Bound
  <2>2. col \in {"NONE", "TEXT"} \/ ~Numeric(s.v.kids[1])
    BY <1>3, <1>4, <1>6, <1>9 DEF KeptBy
  <2>3. a = s
    <3>1. CASE col = "NONE" \/ ~Numeric(s.v.kids[1])
      BY <2>1, <3>1 DEF Affinity
    <3>2. CASE col = "TEXT" /\ Numeric(s.v.kids[1])
      BY <2>1, <3>2 DEF Affinity
    <3> QED BY <2>2, <3>1, <3>2
  <2> QED BY <1>3, <1>9, <2>1, <2>3
<1> QED BY <1>7, <1>8, <1>9

\* SQLite gives back what its column keeps: numbers, texts, 0 or 1 for a bool.
LEMMA SqliteReadsBack ==
  ASSUME NEW x \in Binds \ {Nil}, NEW col \in Affinities, Fits(x, col)
  PROVE  Accessor(x.ty, JObj([c |-> SqliteRowToJson(Affinity(BindValuesFromRaw(EmitDbBinds(x)), col))]))
           = Ok(x.v)
<1>1. PICK e : e = EmitDbBinds(x)
  OBVIOUS
<1>2. PICK s : s = BindValuesFromRaw(e)
  OBVIOUS
<1>3. PICK a : a = Affinity(s, col)
  OBVIOUS
<1>4. /\ x.ty \in {"i64", "bool"} => a.sql = "Integer" /\ a.v = x.v
      /\ x.ty = "f64" => a.sql \in {"Integer", "Real"} /\ a.v = x.v
      /\ x.ty = "str" => a.sql = "Text" /\ a.v = x.v
  BY <1>1, <1>2, <1>3, AffinityKeeps
<1>5. PICK j : j = SqliteRowToJson(a)
  OBVIOUS
<1>6. /\ a.sql = "Integer" /\ a.v = x.v => j = JNum(x.v.n)
      /\ a.sql = "Real" /\ a.v = x.v => j = JReal(x.v.n)
      /\ a.sql = "Text" /\ a.v = x.v => j = JStr(x.v.kids[1])
  BY <1>5 DEF SqliteRowToJson, Fits
<1>7. SUFFICES Accessor(x.ty, JObj([c |-> j])) = Ok(x.v)
  BY <1>1, <1>2, <1>3, <1>5
<1>8. CASE x.ty = "i64"
  <2>1. AsI64(j) /\ Val(j.n) = x.v
    BY <1>4, <1>6, <1>8, Bound, Texted DEF AsI64
  <2> QED BY <1>8, <2>1, AccessorReads
<1>9. CASE x.ty = "f64"
  <2>1. AsF64(j) /\ Val(j.n) = x.v
    <3>1. j = JNum(x.v.n) \/ j = JReal(x.v.n)
      BY <1>4, <1>6, <1>9
    <3>2. x.v = Val(x.v.n)
      BY <1>9, Bound DEF Fits
    <3> QED BY <3>1, <3>2, Texted DEF AsF64
  <2> QED BY <1>9, <2>1, AccessorReads
<1>10. CASE x.ty = "str"
  <2>1. IsStr(j) /\ StrVal(Content(j)) = x.v
    BY <1>4, <1>6, <1>10, Bound, Texted DEF IsStr, Content
  <2> QED BY <1>10, <2>1, AccessorReads
<1>11. CASE x.ty = "bool"
  <2>1. AsBool(j) /\ Val(j.n) = x.v
    BY <1>4, <1>6, <1>11, Bound, Texted DEF AsBool
  <2> QED BY <1>11, <2>1, AccessorReads
<1> QED BY <1>8, <1>9, <1>10, <1>11, Bound

\* A Postgres column that accepts a value and can hold it gives it back.
LEMMA PostgresReadsBack ==
  ASSUME NEW x \in Binds \ {Nil}, NEW col \in DOMAIN PgColumns, Fits(x, col),
         ToSql(PgBindValuesFromRaw(EmitDbBinds(x)), col).found
  PROVE  Accessor(x.ty, JObj([c |-> PgRowToJson(ToSql(PgBindValuesFromRaw(EmitDbBinds(x)), col).out)]))
           = Ok(x.v)
<1>1. PICK e : e = EmitDbBinds(x)
  OBVIOUS
<1>2. e = [tag |-> e.tag, v |-> x.v]
  BY <1>1 DEF EmitDbBinds
<1>3. PICK b : b = PgBindValuesFromRaw(e)
  OBVIOUS
<1>4. /\ b.v = x.v
      /\ e.tag = 0 => b.tag = "I64"
      /\ e.tag = 1 => b.tag = "F64"
      /\ e.tag = 2 => b.tag = "Str"
      /\ e.tag = 3 => b.tag = "Bool"
  BY <1>2, <1>3 DEF PgBindValuesFromRaw
<1>5. PICK v : v = IF b.tag \notin {"I64", "F64"} \/ ~Finite(b.v) THEN b.v ELSE Val(CastTo(b.v.n, col))
  OBVIOUS
<1>6. PICK s : s = Stored(col, v)
  OBVIOUS
<1>7. ToSql(b, col) = When(col \in Accepts[b.tag], s)
  BY <1>5, <1>6 DEF ToSql
<1>8. col \in Accepts[b.tag] /\ ToSql(b, col).out = s
  <2>1. PICK ok, r : ok = (col \in Accepts[b.tag]) /\ r = When(ok, s)
    OBVIOUS
  <2>2. ToSql(b, col) = r /\ r.found
    BY <1>1, <1>3, <1>7, <2>1
  <2>3. r = Failed \/ (ok /\ r = Found(s))
    BY <2>1, Answered, Zenon
  <2> QED BY <2>1, <2>2, <2>3, Answered
<1>9. s.sql = col /\ s.v = v
  BY <1>6 DEF Stored
<1>10. Finite(x.v) /\ (x.ty \in {"i64", "f64"} => x.v.n \in PgColumns[col])
  BY ColumnsType DEF Fits
<1>11. v = x.v
  <2>1. CASE b.tag \in {"I64", "F64"}
    <3>1. x.v.n \in PgColumns[col] /\ x.v = Val(x.v.n)
      BY <1>1, <1>4, <1>10, <2>1, Bound
    <3>2. CastTo(x.v.n, col) = x.v.n
      <4>1. PICK R : R = PgColumns[col]
        OBVIOUS
      <4>2. IsFiniteSet(R) /\ R \subseteq Int /\ x.v.n \in R
        BY <3>1, <4>1, ColumnsType
      <4>3. CASE col \in {"int2", "int4"}
        <5>1. \A m, n \in R : m .. n \subseteq R
          BY <4>1, <4>3, ColumnsType
        <5> QED BY <4>1, <4>2, <4>3, <5>1, NarrowKeeps DEF CastTo
      <4>4. CASE col \notin {"int2", "int4"}
        BY <4>1, <4>2, <4>4, NearestKeeps DEF CastTo
      <4> QED BY <4>3, <4>4
    <3> QED BY <1>4, <1>5, <1>10, <2>1, <3>1, <3>2
  <2> QED BY <1>4, <1>5, <2>1
<1>12. PICK j : j = PgRowToJson(s)
  OBVIOUS
<1>13. /\ b.tag = "I64" => j = JNum(x.v.n)
       /\ b.tag = "F64" => j = JReal(x.v.n)
       /\ b.tag = "Bool" => j = JBool(x.v.n)
       /\ b.tag = "Str" => j = JStr(x.v.kids[1])
  <2>1. /\ Accepts["I64"] = {"int2", "int4", "int8"} /\ Accepts["F64"] = {"float4", "float8"}
        /\ Accepts["Str"] = {"text", "varchar", "bpchar", "name"} /\ Accepts["Bool"] = {"bool"}
    BY DEF Accepts
  <2> QED BY <1>8, <1>9, <1>10, <1>11, <1>12, <2>1 DEF PgRowToJson
<1>14. SUFFICES Accessor(x.ty, JObj([c |-> j])) = Ok(x.v)
  BY <1>1, <1>3, <1>8, <1>12
<1>15. CASE x.ty = "i64"
  <2>1. AsI64(j) /\ Val(j.n) = x.v
    BY <1>1, <1>4, <1>13, <1>15, Bound, Texted DEF AsI64
  <2> QED BY <1>15, <2>1, AccessorReads
<1>16. CASE x.ty = "f64"
  <2>1. AsF64(j) /\ Val(j.n) = x.v
    BY <1>1, <1>4, <1>10, <1>13, <1>16, Bound, Texted DEF AsF64
  <2> QED BY <1>16, <2>1, AccessorReads
<1>17. CASE x.ty = "str"
  <2>1. IsStr(j) /\ StrVal(Content(j)) = x.v
    BY <1>1, <1>4, <1>13, <1>17, Bound, Texted DEF IsStr, Content
  <2> QED BY <1>17, <2>1, AccessorReads
<1>18. CASE x.ty = "bool"
  <2>1. AsBool(j) /\ Val(j.n) = x.v
    BY <1>1, <1>4, <1>13, <1>18, Bound, Texted DEF AsBool
  <2> QED BY <1>18, <2>1, AccessorReads
<1> QED BY <1>15, <1>16, <1>17, <1>18, Bound

-----------------------------------------------------------------------------
(* Statements.                                                             *)

\* The scan numbers as many ?s as SQL has parameters in the statement.
NumbersParams == \A s \in Statements : RewritePlaceholders(s.chars) = s.params

\* A statement is refused when its arguments are not as many as its ?s.
LEMMA RefusedIsTrue ==
  ASSUME NumbersParams, NEW stmt \in Statements, NEW x, NEW b, ~Takes(b, stmt, x),
         NEW k \in DbOps, result' = Refused(k, stmt, x)
  PROVE  ResultIsTrue'
<1>1. PICK v : v = EmitOp(k, Failed)
  OBVIOUS
<1>2. Built(v)
  BY <1>1, EmitsBuilt DEF DbOps, Ops
<1>3. PICK y : y = [stmt |-> stmt, x |-> x]
  OBVIOUS
<1>4. y.stmt = stmt /\ y.x = x
  BY <1>3
<1>5. result' = [Gives(v) EXCEPT !.refused = y]
  BY <1>1, <1>3 DEF Refused
<1>6. result'.v = v /\ result'.row = Nil /\ result'.refused = y
  BY <1>5 DEF Gives
<1>7. stmt.params # IF x = Nil THEN 0 ELSE 1
  BY DEF NumbersParams, Takes
<1>8. Unwritten \notin Texts(v)
  BY <1>2, BuiltTexts
<1>9. /\ Unwritten \notin Texts(result'.v) /\ result'.row = Nil
      /\ result'.refused.stmt.params # IF result'.refused.x = Nil THEN 0 ELSE 1
  BY <1>4, <1>6, <1>7, <1>8
<1>10. (/\ Unwritten \notin Texts(result.v) /\ result.row = Nil
        /\ result.refused.stmt.params # IF result.refused.x = Nil THEN 0 ELSE 1)' => ResultIsTrue'
  BY DEF ResultIsTrue
<1> QED BY <1>9, <1>10

\* A row is written as the database takes the value that was bound.
LEMMA PutKeeps ==
  ASSUME ResultInv, NEW b \in {"sqlite", "postgres"}, NEW x \in Binds \ {Nil}, NEW col, NEW sv,
         col \in Columns(b),
         StoredAs(b, col, x).found, sv = StoredAs(b, col, x).out,
         cell' = [cell EXCEPT ![b] = [sent |-> x, col |-> col, sv |-> sv]]
  PROVE  CellsTrue'
<1>1. PICK c : c = [sent |-> x, col |-> col, sv |-> sv]
  OBVIOUS
<1>2. c.sent = x /\ c.col = col /\ c.sv = sv
  BY <1>1
<1>3. DOMAIN cell = {"sqlite", "postgres"}
  BY DEF ResultInv, CellsTrue
<1>4. cell' = [cell EXCEPT ![b] = c]
  BY <1>1
<1>5. \A d \in DOMAIN cell : cell'[d] = IF d = b THEN c ELSE cell[d]
  BY <1>4
<1> QED BY <1>2, <1>3, <1>4, <1>5 DEF ResultInv, CellsTrue

LEMMA ExecuteKeeps ==
  ASSUME NumbersParams, Shaped, ResultInv, NEW t \in Threads, DbExecute(t)
  PROVE  ResultInv'
<1>1. PICK b, x, stmt : b = Behind(t) /\ x = call[t].arg.x /\ stmt = call[t].arg.stmt
  OBVIOUS
<1>2. /\ b \in {"sqlite", "postgres"} /\ x \in Binds /\ stmt \in Statements
      /\ call[t].k = "db_execute"
  BY <1>1 DEF DbExecute, Running, DbOps, ResultInv, CellsTrue, BindsKept
<1>3. /\ \E r : Finish(t, r)
      /\ \/ ~Takes(b, stmt, x) /\ cell' = cell /\ Finish(t, Refused("db_execute", stmt, x))
         \/ cell' = cell /\ Finish(t, Gives(EmitDbExecute(Found(0))))
         \/ cell' = cell /\ Finish(t, Gives(EmitDbExecute(Failed)))
         \/ /\ x # Nil /\ Finish(t, Gives(EmitDbExecute(Found(1))))
            /\ \E col : /\ col \in Columns(b)
                        /\ StoredAs(b, col, x).found
                        /\ cell' = [cell EXCEPT ![b] = [sent |-> x, col |-> col,
                                                        sv |-> StoredAs(b, col, x).out]]
  <2>1. \/ ~Takes(b, stmt, x) /\ cell' = cell /\ Finish(t, Refused("db_execute", stmt, x))
        \/ cell' = cell /\ Finish(t, Gives(EmitDbExecute(Found(0))))
        \/ /\ x # Nil /\ b = "sqlite"
           /\ \E col \in Affinities :
                cell' = [cell EXCEPT ![b] = [sent |-> x, col |-> col,
                                             sv |-> Affinity(BindValuesFromRaw(EmitDbBinds(x)), col)]]
           /\ Finish(t, Gives(EmitDbExecute(Found(1))))
        \/ /\ x # Nil /\ b = "postgres"
           /\ \E col \in DOMAIN PgColumns :
                \/ /\ ToSql(PgBindValuesFromRaw(EmitDbBinds(x)), col).found
                   /\ cell' = [cell EXCEPT ![b] = [sent |-> x, col |-> col,
                                sv |-> ToSql(PgBindValuesFromRaw(EmitDbBinds(x)), col).out]]
                   /\ Finish(t, Gives(EmitDbExecute(Found(1))))
                \/ cell' = cell /\ Finish(t, Gives(EmitDbExecute(Failed)))
    BY <1>1, Zenon DEF DbExecute
  <2>2. \A col : StoredAs("sqlite", col, x) = Found(Affinity(BindValuesFromRaw(EmitDbBinds(x)), col))
    BY DEF StoredAs
  <2>3. \A col : StoredAs("postgres", col, x) = ToSql(PgBindValuesFromRaw(EmitDbBinds(x)), col)
    BY DEF StoredAs
  <2>4. Columns("sqlite") = Affinities /\ Columns("postgres") = DOMAIN PgColumns
    BY DEF Columns
  <2>6. CASE /\ x # Nil /\ b = "sqlite"
             /\ \E col \in Affinities :
                  cell' = [cell EXCEPT ![b] = [sent |-> x, col |-> col,
                                               sv |-> Affinity(BindValuesFromRaw(EmitDbBinds(x)), col)]]
             /\ Finish(t, Gives(EmitDbExecute(Found(1))))
    <3>1. PICK col, sv :
            /\ col \in Affinities /\ sv = Affinity(BindValuesFromRaw(EmitDbBinds(x)), col)
            /\ cell' = [cell EXCEPT ![b] = [sent |-> x, col |-> col, sv |-> sv]]
      BY <2>6
    <3>2. StoredAs(b, col, x).found /\ StoredAs(b, col, x).out = sv
      BY <2>2, <2>6, <3>1, Answered
    <3>3. cell' = [cell EXCEPT ![b] = [sent |-> x, col |-> col, sv |-> StoredAs(b, col, x).out]]
      BY <3>1, <3>2
    <3>4. col \in Columns(b)
      BY <2>4, <2>6, <3>1
    <3>5. x # Nil /\ Finish(t, Gives(EmitDbExecute(Found(1))))
      BY <2>6
    <3> QED BY <3>2, <3>3, <3>4, <3>5
  <2>7. CASE /\ x # Nil /\ b = "postgres"
             /\ \E col \in DOMAIN PgColumns :
                  \/ /\ ToSql(PgBindValuesFromRaw(EmitDbBinds(x)), col).found
                     /\ cell' = [cell EXCEPT ![b] = [sent |-> x, col |-> col,
                                  sv |-> ToSql(PgBindValuesFromRaw(EmitDbBinds(x)), col).out]]
                     /\ Finish(t, Gives(EmitDbExecute(Found(1))))
                  \/ cell' = cell /\ Finish(t, Gives(EmitDbExecute(Failed)))
    BY <2>3, <2>4, <2>7
  <2> QED BY <2>1, <2>6, <2>7
<1>4. BindsKept'
  BY <1>3, KeptReturn, ArgKeeps DEF Finish, ResultInv
<1>5. ASSUME NEW v, Built(v), Finish(t, Gives(v)) PROVE ResultIsTrue'
  BY <1>5, TellsReturn, ToldIsTrue DEF Finish
<1>6. ASSUME cell' = cell PROVE CellsTrue'
  BY <1>6 DEF ResultInv, CellsTrue
<1>7. Built(EmitDbExecute(Failed)) /\ \A n : Built(EmitDbExecute(Found(n)))
  BY EmitsBuilt, ResultsBuilt DEF EmitDbExecute
<1>8. CASE ~Takes(b, stmt, x) /\ cell' = cell /\ Finish(t, Refused("db_execute", stmt, x))
  <2>1. result' = Refused("db_execute", stmt, x)
    BY <1>8 DEF Finish, Return
  <2>2. ResultIsTrue'
    BY <1>2, <1>8, <2>1, RefusedIsTrue DEF DbOps
  <2> QED BY <1>4, <1>6, <1>8, <2>2 DEF ResultInv
<1>9. CASE cell' = cell /\ (\/ Finish(t, Gives(EmitDbExecute(Found(0))))
                            \/ Finish(t, Gives(EmitDbExecute(Failed))))
  BY <1>4, <1>5, <1>6, <1>7, <1>9, Zenon DEF ResultInv
<1>10. CASE /\ x # Nil /\ Finish(t, Gives(EmitDbExecute(Found(1))))
            /\ \E col : /\ col \in Columns(b)
                        /\ StoredAs(b, col, x).found
                        /\ cell' = [cell EXCEPT ![b] = [sent |-> x, col |-> col,
                                                        sv |-> StoredAs(b, col, x).out]]
  <2>1. PICK v : v = EmitDbExecute(Found(1))
    OBVIOUS
  <2>2. ResultIsTrue'
    BY <1>5, <1>7, <1>10, <2>1
  <2>3. CellsTrue'
    BY <1>2, <1>10, PutKeeps
  <2> QED BY <1>4, <2>2, <2>3 DEF ResultInv
<1> QED BY <1>3, <1>8, <1>9, <1>10

\* A row's column, read by the accessor of its type, is what was bound.
LEMMA RowReadsBack ==
  ASSUME CellsTrue, NEW b \in DOMAIN cell, cell[b] # Nil, Fits(cell[b].sent, cell[b].col)
  PROVE  Accessor(cell[b].sent.ty, JObj([c |-> RowJson(b, cell[b].sv)])) = Ok(cell[b].sent.v)
<1>1. PICK x, col, sv : x = cell[b].sent /\ col = cell[b].col /\ sv = cell[b].sv
  OBVIOUS
<1>2. /\ b \in {"sqlite", "postgres"} /\ x \in Binds \ {Nil}
      /\ b = "sqlite" => col \in Affinities
      /\ b = "postgres" => col \in DOMAIN PgColumns
      /\ StoredAs(b, col, x).found /\ sv = StoredAs(b, col, x).out
  BY <1>1 DEF CellsTrue, Columns
<1>3. SUFFICES Accessor(x.ty, JObj([c |-> RowJson(b, sv)])) = Ok(x.v)
  BY <1>1
<1>4. CASE b = "sqlite"
  <2>1. PICK a : a = Affinity(BindValuesFromRaw(EmitDbBinds(x)), col)
    OBVIOUS
  <2>2. sv = a
    BY <1>2, <1>4, <2>1, Answered DEF StoredAs
  <2>3. RowJson(b, sv) = SqliteRowToJson(a)
    BY <1>4, <2>2 DEF RowJson
  <2> QED BY <1>1, <1>2, <1>4, <2>1, <2>3, SqliteReadsBack
<1>5. CASE b = "postgres"
  <2>1. PICK w : w = ToSql(PgBindValuesFromRaw(EmitDbBinds(x)), col)
    OBVIOUS
  <2>2. w.found /\ sv = w.out
    BY <1>2, <1>5, <2>1 DEF StoredAs
  <2>3. RowJson(b, sv) = PgRowToJson(w.out)
    BY <1>5, <2>2 DEF RowJson
  <2> QED BY <1>1, <1>2, <1>5, <2>1, <2>2, <2>3, PostgresReadsBack
<1> QED BY <1>2, <1>4, <1>5

\* The program takes the first object of the array.
LEMMA FirstRow ==
  ASSUME NEW row
  PROVE  EmitJsonArrayGet(JArr(<<row>>), 0).kids[1].kids[1] = row
<1>1. PICK ts : ts = <<row>>
  OBVIOUS
<1>2. JArr(ts).j = "arr" /\ JArr(ts).items = ts /\ Len(ts) = 1 /\ ts[1] = row
  BY <1>1 DEF JArr, Text
<1>3. PICK a : a = JArr(ts)
  OBVIOUS
<1>4. ArrayGet(a, 0) = Found(row)
  BY <1>2, <1>3 DEF ArrayGet
<1>5. EmitJsonArrayGet(a, 0) = Ok(StrVal(row))
  BY <1>4, Answered DEF EmitJsonArrayGet, StrResult, ResultMerge
<1>6. \A v : Ok(v).kids[1] = v /\ StrVal(v).kids[1] = v
  BY DEF Ok, StrVal
<1> QED BY <1>1, <1>3, <1>5, <1>6

LEMMA QueryKeeps ==
  ASSUME NumbersParams, Shaped, ResultInv, NEW t \in Threads, DbQuery(t)
  PROVE  ResultInv'
<1>1. PICK b, x, stmt : b = Behind(t) /\ x = call[t].arg.x /\ stmt = call[t].arg.stmt
  OBVIOUS
<1>2. /\ b \in DOMAIN cell /\ x \in Binds /\ stmt \in Statements
      /\ call[t].k = "db_query" /\ cell' = cell /\ \E r : Finish(t, r)
  BY <1>1 DEF DbQuery, Running, DbOps, ResultInv, BindsKept
<1>3. BindsKept' /\ CellsTrue'
  BY <1>2, KeptReturn, ArgKeeps DEF Finish, ResultInv, CellsTrue
<1>4. CASE ~Takes(b, stmt, x)
  <2>1. result' = Refused("db_query", stmt, x)
    BY <1>1, <1>4 DEF DbQuery, Finish, Return
  <2>2. ResultIsTrue'
    BY <1>2, <1>4, <2>1, RefusedIsTrue DEF DbOps
  <2> QED BY <1>3, <2>2 DEF ResultInv
<1>5. CASE Takes(b, stmt, x) /\ cell[b] = Nil
  <2>1. PICK ts : result' = Gives(EmitDbQuery(Found(JArr(ts))))
    BY <1>1, <1>5 DEF DbQuery, Finish, Return
  <2>2. PICK v : v = EmitDbQuery(Found(JArr(ts)))
    OBVIOUS
  <2>3. Built(v)
    BY <2>2, EmitsBuilt, WrittenTexts
  <2>4. Told
    BY <2>1, <2>2, <2>3 DEF Told
  <2> QED BY <1>3, <2>4, ToldIsTrue DEF ResultInv
<1>6. CASE Takes(b, stmt, x) /\ cell[b] # Nil
  <2>1. PICK row, ts : row = JObj([c |-> RowJson(b, cell[b].sv)]) /\ ts = <<row>>
    OBVIOUS
  <2>2. PICK got : got = Accessor(cell[b].sent.ty, EmitJsonArrayGet(JArr(ts), 0).kids[1].kids[1])
    OBVIOUS
  <2>3. PICK v : v = EmitDbQuery(Found(JArr(ts)))
    OBVIOUS
  <2>4. PICK y : y = [sent |-> cell[b].sent, col |-> cell[b].col, got |-> got]
    OBVIOUS
  <2>5. result' = [Gives(v) EXCEPT !.row = y]
    BY <1>1, <1>6, <2>1, <2>2, <2>3, <2>4 DEF DbQuery, Finish, Return
  <2>6. result'.v = v /\ result'.row = y /\ result'.refused = Nil
    BY <2>5 DEF Gives
  <2>7. Built(v)
    BY <2>3, EmitsBuilt, WrittenTexts
  <2>8. Fits(y.sent, y.col) => y.got = Ok(y.sent.v)
    BY <1>2, <1>6, <2>1, <2>2, <2>4, FirstRow, RowReadsBack DEF ResultInv
  <2>9. Unwritten \notin Texts(result'.v)
    BY <2>6, <2>7, BuiltTexts
  <2>10. (/\ Unwritten \notin Texts(result.v) /\ result.refused = Nil
          /\ Fits(result.row.sent, result.row.col)
               => result.row.got = Ok(result.row.sent.v))' => ResultIsTrue'
    BY DEF ResultIsTrue
  <2>11. ResultIsTrue'
    BY <2>6, <2>8, <2>9, <2>10
  <2> QED BY <1>3, <2>11 DEF ResultInv
<1> QED BY <1>4, <1>5, <1>6

-----------------------------------------------------------------------------
(* Every step keeps it.                                                    *)

LEMMA ResultInvStep ==
  ASSUME NumbersParams, Shaped, CallsApt, ResultInv, [Next]_vars
  PROVE  ResultInv'
<1>1. CASE UNCHANGED vars
  BY <1>1 DEF vars, kernelVars, ResultInv, CellsTrue, BindsKept, ResultIsTrue
<1>2. CASE Tick
  <2>1. cell' = cell /\ call' = call /\ result' = Nil
    BY <1>2 DEF Tick, Kernel
  <2> QED BY <2>1, ToldIsTrue DEF ResultInv, CellsTrue, BindsKept, Told
<1>3. ASSUME NEW t \in Threads, KernelBegin(t) PROVE ResultInv'
  <2>1. ASSUME NEW m, NEW s \in Statements, NEW x \in Binds, NEW k \in {"db_execute", "db_query"},
               Use(t, m, k, [stmt |-> s, x |-> x])
        PROVE  ResultInv'
    BY <2>1, StatementBegins DEF DbOps
  <2>2. "mq_publish" \notin DbOps /\ "mq_consume" \notin DbOps
    BY DEF DbOps
  <2>3. ASSUME NEW m, NEW n, Use(t, m, "mq_publish", Nil) \/ Use(t, m, "mq_consume", n)
        PROVE  Plain(t)
    BY <2>2, <2>3, BeginsPlain
  <2>4. ASSUME \/ \E k : BadArgument(t, k) \/ Admit(t, k)
               \/ \E m : Stop(t, m) \/ SendTo(t, m) \/ RecvFrom(t, m)
               \/ \E m, u : Move(t, u, m)
               \/ CallBuiltin(t)
        PROVE  Plain(t)
    BY <2>4, BeginsPlain
  <2> QED BY <1>3, <2>1, <2>3, <2>4, PlainKeeps, Zenon DEF KernelBegin
<1>4. ASSUME NEW t \in Threads, KernelStep(t) PROVE ResultInv'
  <2>1. Ops \ {"mq_consume"} \subseteq Ops
    OBVIOUS
  <2> QED BY <1>4, <2>1, OpensPlain, OperationsPlain, PlainKeeps, ExecuteKeeps, QueryKeeps, Zenon
          DEF KernelStep
<1>5. ASSUME NEW t \in Threads, Started(t) PROVE ResultInv'
  BY <1>3, <1>5, WorkflowPlain, PlainKeeps DEF Started
<1>6. ASSUME NEW t \in Threads, Step(t) PROVE ResultInv'
  BY <1>4, <1>6, WorkflowPlain, PlainKeeps DEF Step
<1>7. ASSUME NEW t \in Threads, ConsumeFails(t) PROVE ResultInv'
  <2>1. Plain(t)
    BY <1>7, OperationsPlain DEF ConsumeFails, Ops
  <2> QED BY <2>1, PlainKeeps
<1> QED BY <1>1, <1>2, <1>5, <1>6, <1>7 DEF Next

\* Where the placeholders of every statement are numbered as SQL counts them,
\* what every kernel call returns is what it stands for.
THEOREM ResultsAreTrue == ASSUME NumbersParams PROVE Spec => []ResultIsTrue
<1>1. WorkflowInit => ResultInv
  <2> SUFFICES ASSUME WorkflowInit PROVE ResultInv
    OBVIOUS
  <2>1. /\ call = [t \in Threads |-> Idle] /\ result = Nil
        /\ cell = [b \in {"sqlite", "postgres"} |-> Nil]
    BY DEF WorkflowInit, KernelInit
  <2>2. Idle.k \notin DbOps
    BY DEF Idle, Call, DbOps
  <2> QED BY <2>1, <2>2 DEF ResultInv, CellsTrue, BindsKept, ResultIsTrue
<1>2. KernelInv /\ ResultInv /\ [Next]_vars => ResultInv'
  BY ResultInvStep DEF KernelInv
<1>3. ResultInv => ResultIsTrue
  BY DEF ResultInv
<1> QED BY <1>1, <1>2, <1>3, KernelInvariance, PTL DEF Spec

=============================================================================
