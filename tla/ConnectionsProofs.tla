-------------------------- MODULE ConnectionsProofs --------------------------
(***************************************************************************)
(* Proofs about Connections and the Admission counters below it, for every *)
(* number of callers, keys and connections, every ceiling, pool size and   *)
(* key cap.                                                                *)
(*                                                                         *)
(* Every step of a caller, of r2d2 or of the reaper is a step of the       *)
(* admission counters or leaves them alone, so the theorems about          *)
(* Admission carry over. That each session is paid for by its slot needs   *)
(* to know, at every label, whether the admission has been taken: the core *)
(* path asks before it looks for the pool, the plugin path after. Whose a  *)
(* connection is needs to know, for each one, the one place it is in: the  *)
(* hands of a caller, its pool's idle list or the reaper's sweep, and that *)
(* r2d2's count of a pool is the number of connections that are home to it.*)
(***************************************************************************)
EXTENDS Connections, FiniteSetTheorems, TLAPS

-----------------------------------------------------------------------------
(* Admission: the lock-free counter is exact, and the compare-exchange     *)
(* loop implements the atomic semaphore, for every number of callers,      *)
(* every set of domains and every ceiling. HeldExact alone is not          *)
(* inductive: a step about dom[p] says something of held only if dom[p] is *)
(* a domain, which is what Engaged adds.                                   *)

\* A caller in acquire, or past it, is about a domain.
Engaged == \A p \in Callers : adm[p] # "idle" => dom[p] \in Domains

AdmInv == AdmTypeOK /\ Engaged /\ HeldExact

-----------------------------------------------------------------------------
(***************************************************************************)
(* The slots of a domain are a finite set, so that they can be counted.    *)
(***************************************************************************)
\* The slots of a domain, and the slots without one caller, are finite.
LEMMA SlotsFinite ==
  ASSUME NEW d PROVE IsFiniteSet(Slots(d)) /\ Slots(d) \subseteq Callers
  BY CallersFinite, FS_Subset DEF Slots

\* A caller that is granted a slot of d adds one to the slots of d.
LEMMA SlotTaken ==
  ASSUME NEW d, NEW p \in Callers, p \notin Slots(d), Slots(d)' = Slots(d) \cup {p}
  PROVE  Cardinality(Slots(d)') = Cardinality(Slots(d)) + 1
  BY SlotsFinite, FS_AddElement

\* A caller that releases a slot of d takes one from the slots of d.
LEMMA SlotGivenBack ==
  ASSUME NEW d, NEW p \in Callers, p \in Slots(d), Slots(d)' = Slots(d) \ {p}
  PROVE  Cardinality(Slots(d)') = Cardinality(Slots(d)) - 1
  BY SlotsFinite, FS_RemoveElement

\* The number of slots is a natural number.
LEMMA SlotCount ==
  ASSUME NEW d PROVE Cardinality(Slots(d)) \in Nat
  BY SlotsFinite, FS_CardinalityType

-----------------------------------------------------------------------------
\* Initially no slot is held: AdmInit establishes the inductive invariant.
LEMMA AdmInitInv == AdmInit => AdmInv
<1> SUFFICES ASSUME AdmInit PROVE AdmInv
  OBVIOUS
<1>1. AdmTypeOK /\ Engaged
  BY DEF AdmInit, AdmTypeOK, Engaged, AdmLabels
<1>2. ASSUME NEW d \in Domains PROVE held[d] = Cardinality(Slots(d)) /\ held[d] <= Ceiling[d]
  <2>1. Slots(d) = {}
    BY DEF AdmInit, Slots
  <2>2. Cardinality(Slots(d)) = 0
    BY <2>1, FS_EmptySet
  <2> QED
    BY <2>2, CeilingsPositive DEF AdmInit
<1> QED
  BY <1>1, <1>2 DEF AdmInv, HeldExact

\* A step that neither grants nor releases leaves every count alone.
LEMMA QuietStep ==
  ASSUME HeldExact, held' = held, \A d \in Domains : Slots(d)' = Slots(d)
  PROVE  HeldExact'
  BY DEF HeldExact

\* Every step of AdmNext preserves the inductive invariant.
LEMMA AdmStepInv == AdmInv /\ [AdmNext]_admission => AdmInv'
<1> SUFFICES ASSUME AdmInv, [AdmNext]_admission PROVE AdmInv'
  OBVIOUS
<1> USE DEF AdmInv
<1>1. ASSUME NEW p \in Callers, NEW d \in Domains, AcquireCall(p, d) PROVE AdmInv'
  <2>1. AdmTypeOK' /\ Engaged'
    BY <1>1 DEF AcquireCall, AdmTypeOK, Engaged, AdmLabels
  <2>2. \A e \in Domains : Slots(e)' = Slots(e)
    BY <1>1 DEF AcquireCall, Slots, AdmTypeOK, AdmLabels
  <2> QED
    BY <1>1, <2>1, <2>2, QuietStep DEF AcquireCall
<1>2. ASSUME NEW p \in Callers, AcquireLoad(p) PROVE AdmInv'
  <2>1. AdmTypeOK' /\ Engaged'
    BY <1>2 DEF AcquireLoad, AdmTypeOK, Engaged, AdmLabels
  <2>2. \A e \in Domains : Slots(e)' = Slots(e)
    BY <1>2 DEF AcquireLoad, Slots, AdmTypeOK, AdmLabels
  <2> QED
    BY <1>2, <2>1, <2>2, QuietStep DEF AcquireLoad
<1>3. ASSUME NEW p \in Callers, AcquireDenied(p) PROVE AdmInv'
  <2>1. AdmTypeOK' /\ Engaged'
    BY <1>3 DEF AcquireDenied, AdmTypeOK, Engaged, AdmLabels
  <2>2. \A e \in Domains : Slots(e)' = Slots(e)
    BY <1>3 DEF AcquireDenied, Slots, AdmTypeOK, AdmLabels
  <2> QED
    BY <1>3, <2>1, <2>2, QuietStep DEF AcquireDenied
<1>4. ASSUME NEW p \in Callers, AcquireSwapped(p) PROVE AdmInv'
  <2>1. dom[p] \in Domains /\ Ceiling[dom[p]] \in Nat /\ seen[p] \in Nat
    BY <1>4, CeilingsPositive DEF AcquireSwapped, Engaged, AdmTypeOK
  <2>2. AdmTypeOK' /\ Engaged'
    BY <1>4, <2>1 DEF AcquireSwapped, AdmTypeOK, Engaged, AdmLabels
  <2>3. ASSUME NEW d \in Domains, d # dom[p]
        PROVE  held'[d] = Cardinality(Slots(d)') /\ held'[d] <= Ceiling[d]
    <3>1. Slots(d)' = Slots(d)
      BY <1>4, <2>3 DEF AcquireSwapped, Slots, AdmTypeOK, AdmLabels
    <3> QED
      BY <1>4, <2>3, <3>1 DEF AcquireSwapped, AdmTypeOK, HeldExact
  <2>4. ASSUME NEW d \in Domains, d = dom[p]
        PROVE  held'[d] = Cardinality(Slots(d)') /\ held'[d] <= Ceiling[d]
    <3>1. p \notin Slots(d) /\ Slots(d)' = Slots(d) \cup {p}
      BY <1>4, <2>4 DEF AcquireSwapped, Slots, AdmTypeOK, AdmLabels
    <3>2. Cardinality(Slots(d)') = Cardinality(Slots(d)) + 1
      BY <3>1, SlotTaken
    <3>3. held'[d] = held[d] + 1 /\ held[d] < Ceiling[d]
      BY <1>4, <2>1, <2>4 DEF AcquireSwapped, AdmTypeOK
    <3>4. held[d] = Cardinality(Slots(d)) /\ held[d] \in Nat
      BY DEF HeldExact, AdmTypeOK
    <3> QED
      BY <2>1, <2>4, <3>2, <3>3, <3>4
  <2>5. HeldExact'
    BY <2>3, <2>4 DEF HeldExact
  <2> QED
    BY <2>2, <2>5
<1>5. ASSUME NEW p \in Callers, AcquireRetry(p) PROVE AdmInv'
  <2>1. AdmTypeOK' /\ Engaged'
    BY <1>5 DEF AcquireRetry, AdmTypeOK, Engaged, AdmLabels
  <2>2. \A e \in Domains : Slots(e)' = Slots(e)
    BY <1>5 DEF AcquireRetry, Slots
  <2> QED
    BY <1>5, <2>1, <2>2, QuietStep DEF AcquireRetry
<1>6. ASSUME NEW p \in Callers, DenialReturned(p) PROVE AdmInv'
  <2>1. AdmTypeOK' /\ Engaged'
    BY <1>6 DEF DenialReturned, AdmTypeOK, Engaged, AdmLabels
  <2>2. \A e \in Domains : Slots(e)' = Slots(e)
    BY <1>6 DEF DenialReturned, Slots, AdmTypeOK, AdmLabels
  <2> QED
    BY <1>6, <2>1, <2>2, QuietStep DEF DenialReturned
<1>7. ASSUME NEW p \in Callers, release(p) PROVE AdmInv'
  <2>1. dom[p] \in Domains /\ adm[p] = "granted"
    BY <1>7 DEF release, Engaged
  <2>2. ASSUME NEW d \in Domains, d # dom[p] PROVE Slots(d)' = Slots(d)
    BY <1>7, <2>2, NoneIsNoDomain DEF release, Slots, AdmTypeOK, AdmLabels
  <2>3. ASSUME NEW d \in Domains, d = dom[p]
        PROVE  /\ p \in Slots(d)
               /\ Cardinality(Slots(d)') = Cardinality(Slots(d)) - 1
    <3>1. p \in Slots(d) /\ Slots(d)' = Slots(d) \ {p}
      BY <1>7, <2>1, <2>3, NoneIsNoDomain DEF release, Slots, AdmTypeOK, AdmLabels
    <3> QED
      BY <3>1, SlotGivenBack
  <2>4. ASSUME NEW d \in Domains, d = dom[p] PROVE held[d] - 1 \in Nat
    <3>1. Slots(d) # {} /\ IsFiniteSet(Slots(d))
      BY <2>3, <2>4, SlotsFinite
    <3>2. Cardinality(Slots(d)) # 0
      BY <3>1, FS_EmptySet
    <3> QED
      BY <3>2, SlotCount DEF HeldExact
  <2>5. held' = [held EXCEPT ![dom[p]] = held[dom[p]] - 1]
    BY <1>7 DEF release
  <2>6. AdmTypeOK' /\ Engaged'
    BY <1>7, <2>1, <2>4, <2>5 DEF release, AdmTypeOK, Engaged, AdmLabels
  <2>7. ASSUME NEW d \in Domains PROVE held'[d] = Cardinality(Slots(d)') /\ held'[d] <= Ceiling[d]
    <3>1. CASE d # dom[p]
      BY <2>2, <2>5, <3>1 DEF AdmTypeOK, HeldExact
    <3>2. CASE d = dom[p]
      <4>1. held'[d] = held[d] - 1
        BY <2>5, <3>2 DEF AdmTypeOK
      <4>2. held[d] = Cardinality(Slots(d)) /\ held[d] <= Ceiling[d] /\ Ceiling[d] \in Nat /\ held[d] \in Nat
        BY CeilingsPositive DEF HeldExact, AdmTypeOK
      <4> QED
        BY <2>3, <3>2, <4>1, <4>2
    <3> QED
      BY <3>1, <3>2
  <2>8. HeldExact'
    BY <2>7 DEF HeldExact
  <2> QED
    BY <2>6, <2>8
<1>8. CASE UNCHANGED admission
  <2>1. AdmTypeOK' /\ Engaged'
    BY <1>8 DEF admission, AdmTypeOK, Engaged
  <2>2. \A e \in Domains : Slots(e)' = Slots(e)
    BY <1>8 DEF admission, Slots
  <2> QED
    BY <1>8, <2>1, <2>2, QuietStep DEF admission
<1> QED
  BY <1>1, <1>2, <1>3, <1>4, <1>5, <1>6, <1>7, <1>8 DEF AdmNext, acquire

\* The inductive invariant holds in every reachable state of the counters.
THEOREM AdmInvariance == AdmSpec => []AdmInv
  BY AdmInitInv, AdmStepInv, PTL DEF AdmSpec

\* The counters of kernel::acquire and kernel::release are exact: each equals
\* the number of slots granted and not yet released, and stays within the
\* domain's ceiling, whatever the interleaving.
THEOREM HeldIsExact == AdmSpec => []HeldExact
<1>1. AdmInv => HeldExact
  BY DEF AdmInv
<1> QED
  BY <1>1, AdmInvariance, PTL

-----------------------------------------------------------------------------
(***************************************************************************)
(* The refinement. A step of the loop that changes the abstract status of  *)
(* its caller is the one step at which the abstract semaphore decides; the *)
(* others are stuttering steps of it.                                      *)
(***************************************************************************)
status == [p \in Callers |-> AbstractStatus(p)]

\* The abstract module counts with the same Cardinality.
LEMMA SameCount == \A S : Atomic!Cardinality(S) = Cardinality(S)
  BY Zenon DEF Atomic!Cardinality, Cardinality

\* The slots the abstract semaphore counts are the slots held counts.
LEMMA SameSlots == AdmTypeOK => \A d : Atomic!Slots(d) = Slots(d)
  BY DEF Atomic!Slots, Slots, AbstractStatus, AdmTypeOK, AdmLabels

\* A caller that reads a full counter is denied at that instant; one that
\* reads less goes on asking.
LEMMA ReadDecides ==
  ASSUME AdmInv, NEW p \in Callers, adm[p] = "load" \/ (adm[p] = "check" /\ seen[p] < Ceiling[dom[p]]),
         adm' = [adm EXCEPT ![p] = "check"], seen' = [seen EXCEPT ![p] = held[dom[p]]],
         UNCHANGED <<held, dom>>
  PROVE  Atomic!Deny(p) \/ UNCHANGED <<status, dom>>
<1>1. /\ dom[p] \in Domains /\ held[dom[p]] \in Nat /\ Ceiling[dom[p]] \in Nat
      /\ seen[p] \in Nat
  BY CeilingsPositive DEF AdmInv, Engaged, AdmTypeOK
<1>2. status[p] = "asking"
  BY <1>1 DEF status, AbstractStatus
<1>3. status' = [status EXCEPT ![p] = IF held[dom[p]] >= Ceiling[dom[p]] THEN "denied" ELSE "asking"]
  BY <1>1 DEF status, AbstractStatus, AdmInv, AdmTypeOK
<1>4. held[dom[p]] = Cardinality(Atomic!Slots(dom[p]))
  BY <1>1, SameSlots DEF AdmInv, HeldExact
<1>5. CASE held[dom[p]] >= Ceiling[dom[p]]
  BY <1>2, <1>3, <1>4, <1>5, SameCount DEF Atomic!Deny, status
<1>6. CASE ~(held[dom[p]] >= Ceiling[dom[p]])
  <2>1. status' = [status EXCEPT ![p] = status[p]]
    BY <1>2, <1>3, <1>6
  <2>2. status' = status
    BY <2>1 DEF status
  <2> QED
    BY <2>2
<1> QED
  BY <1>5, <1>6

\* Every step of the counters is a step of the semaphore or a stutter.
LEMMA StepRefines == AdmInv /\ [AdmNext]_admission => [Atomic!Next]_<<status, dom>>
<1> SUFFICES ASSUME AdmInv, [AdmNext]_admission PROVE Atomic!Next \/ UNCHANGED <<status, dom>>
  OBVIOUS
<1>0. AdmTypeOK /\ Engaged /\ HeldExact
  BY DEF AdmInv
<1>1. ASSUME NEW p \in Callers, NEW d \in Domains, AcquireCall(p, d) PROVE Atomic!Ask(p, d)
  <2>1. status[p] = "idle"
    BY <1>1 DEF AcquireCall, status, AbstractStatus
  <2>2. status' = [status EXCEPT ![p] = "asking"]
    BY <1>0, <1>1 DEF AcquireCall, status, AbstractStatus, AdmTypeOK
  <2> QED
    BY <1>1, <2>1, <2>2 DEF AcquireCall, Atomic!Ask, status
<1>2. ASSUME NEW p \in Callers, AcquireLoad(p) PROVE Atomic!Deny(p) \/ UNCHANGED <<status, dom>>
  BY <1>2, ReadDecides DEF AcquireLoad
<1>3. ASSUME NEW p \in Callers, AcquireDenied(p) PROVE UNCHANGED <<status, dom>>
  <2>1. status' = [status EXCEPT ![p] = status[p]]
    BY <1>0, <1>3 DEF AcquireDenied, status, AbstractStatus, AdmTypeOK
  <2> QED
    BY <1>3, <2>1 DEF AcquireDenied, status
<1>4. ASSUME NEW p \in Callers, AcquireSwapped(p) PROVE Atomic!Grant(p)
  <2>1. dom[p] \in Domains /\ seen[p] \in Nat /\ Ceiling[dom[p]] \in Nat
    BY <1>0, <1>4, CeilingsPositive DEF AcquireSwapped, Engaged, AdmTypeOK
  <2>2. status[p] = "asking"
    BY <1>4, <2>1 DEF AcquireSwapped, status, AbstractStatus
  <2>3. status' = [status EXCEPT ![p] = "granted"]
    BY <1>0, <1>4 DEF AcquireSwapped, status, AbstractStatus, AdmTypeOK
  <2>4. Cardinality(Atomic!Slots(dom[p])) < Ceiling[dom[p]]
    BY <1>0, <1>4, <2>1, SameSlots DEF AcquireSwapped, HeldExact
  <2> QED
    BY <1>4, <2>2, <2>3, <2>4, SameCount DEF AcquireSwapped, Atomic!Grant, status
<1>5. ASSUME NEW p \in Callers, AcquireRetry(p) PROVE Atomic!Deny(p) \/ UNCHANGED <<status, dom>>
  <2>1. adm' = [adm EXCEPT ![p] = "check"]
    BY <1>0, <1>5 DEF AcquireRetry, AdmTypeOK
  <2> QED
    BY <1>5, <2>1, ReadDecides DEF AcquireRetry
<1>6. ASSUME NEW p \in Callers, DenialReturned(p) \/ release(p) PROVE Atomic!Finish(p)
  <2>1. status[p] \in {"granted", "denied"}
    BY <1>6 DEF DenialReturned, release, status, AbstractStatus
  <2>2. status' = [status EXCEPT ![p] = "idle"]
    BY <1>0, <1>6 DEF DenialReturned, release, status, AbstractStatus, AdmTypeOK
  <2> QED
    BY <1>6, <2>1, <2>2 DEF DenialReturned, release, Atomic!Finish, status
<1>7. CASE UNCHANGED admission
  BY <1>7 DEF admission, status, AbstractStatus
<1> QED
  BY <1>1, <1>2, <1>3, <1>4, <1>5, <1>6, <1>7 DEF AdmNext, acquire, Atomic!Next

\* kernel::acquire's compare-exchange loop and kernel::release's fetch_sub
\* implement the atomic counting semaphore of AtomicAdmission.
THEOREM AdmissionRefines == AdmSpec => AcquireIsAtomic
<1>1. AdmInit => Atomic!Init
  BY DEF AdmInit, Atomic!Init, AbstractStatus
<1>2. AdmInv /\ [AdmNext]_admission => [Atomic!Next]_<<[p \in Callers |-> AbstractStatus(p)], dom>>
  BY StepRefines DEF status
<1> QED
  BY <1>1, <1>2, AdmInvariance, PTL DEF AdmSpec, AcquireIsAtomic, Atomic!Spec

-----------------------------------------------------------------------------
(* Connections.                                                            *)

\* The provider of a key is one of the three domains.
LEMMA ProviderDomain == \A k : Provider(k) \in Domains
  BY DomainsOfProviders DEF Provider

\* A step of the connections is a step of the counters, or a stutter of them.
LEMMA StepIsAdmStep == [Next]_vars => [AdmNext]_admission
<1> SUFFICES ASSUME [Next]_vars PROVE AdmNext \/ UNCHANGED admission
  OBVIOUS
<1>1. ASSUME NEW p \in Callers, NEW k \in Keys, db_connect(p, k) PROVE AdmNext
  BY <1>1, DomainsOfProviders DEF db_connect, AdmNext
<1>2. ASSUME NEW p \in Callers, OverCap(p) \/ FoundPlugin(p) PROVE AdmNext
  BY <1>2, ProviderDomain DEF OverCap, FoundPlugin, AdmNext
<1>3. ASSUME NEW p \in Callers, Admit(p) PROVE AdmNext
  BY <1>3 DEF Admit, AdmNext
<1>4. ASSUME NEW p \in Callers, Refused(p) PROVE AdmNext
  BY <1>4 DEF Refused, AdmNext
<1>5. ASSUME NEW p \in Callers, Undo(p) \/ CallReturns(p) \/ CallReturnsDirect(p) \/ StopPlugin(p)
      PROVE  AdmNext
  BY <1>5 DEF Undo, CallReturns, CallReturnsDirect, StopPlugin, AdmNext
<1>6. ASSUME NEW p \in Callers,
             \/ \E k \in Keys : connect_plugin(p, k)
             \/ HasKey(p) \/ UnderCap(p) \/ Lookup(p) \/ Install(p) \/ BuildFails(p)
             \/ FoundCore(p) \/ Admitted(p)
             \/ \E c \in Conns : GetIdle(p, c) \/ GetStale(p, c) \/ OpenConnection(p, c) \/ Dial(p, c)
             \/ GetFails(p) \/ DialFails(p) \/ CallKeepsRaw(p)
             \/ StopCore(p) \/ StopCheckIn(p) \/ StopClose(p)
      PROVE  UNCHANGED admission
  BY <1>6 DEF connect_plugin, HasKey, UnderCap, Lookup, Install, BuildFails, FoundCore, Admitted,
              GetIdle, GetStale, OpenConnection, Dial, GetFails, DialFails, CallKeepsRaw,
              StopCore, StopCheckIn, StopClose
<1>7. CASE Background
  BY <1>7 DEF Background, IdleExpires, SweepTake, SweepReturn, SweepEvict
<1>8. CASE UNCHANGED vars
  BY <1>8 DEF vars
<1> QED
  BY <1>1, <1>2, <1>3, <1>4, <1>5, <1>6, <1>7, <1>8 DEF Next, Caller

\* The connections, as seen by the counters, are a run of Admission.
THEOREM ConnectionsAdmit == Spec => AdmSpec
<1>1. Init => AdmInit
  BY DEF Init
<1> QED
  BY <1>1, StepIsAdmStep, PTL DEF Spec, AdmSpec

\* No interleaving of sessions, failed connects, call_via requests and reaper
\* sweeps makes a domain's counter drift from the slots that are really held.
THEOREM ConnectionsHeldExact == Spec => []HeldExact
  BY ConnectionsAdmit, HeldIsExact, PTL

\* To every user of the pools, admission is the atomic semaphore.
THEOREM ConnectionsAtomic == Spec => AcquireIsAtomic
  BY ConnectionsAdmit, AdmissionRefines, PTL

-----------------------------------------------------------------------------
(***************************************************************************)
(* The slot of each session.                                               *)
(***************************************************************************)
Paying == {"undo", "get", "dial", "fetched", "request", "request_direct", "open"}
Finding == {"lookup", "build", "found"}
Asking == {"admit_core", "admit_pooled", "admit_direct"}

\* At each label: whether the slot is held, being asked for, or not held.
SlotShape ==
  \A p \in Callers :
    /\ pc[p] # "idle" => key[p] \in Keys
    /\ pc[p] = "admit_core" => key[p] \in CoreKeys
    /\ pc[p] \in {"admit_pooled", "admit_direct", "has_key", "count"} => key[p] \notin CoreKeys
    /\ pc[p] \in Paying => adm[p] = "granted" /\ dom[p] = Provider(key[p])
    /\ pc[p] \in Asking => adm[p] # "idle" /\ dom[p] = Provider(key[p])
    /\ pc[p] \in Finding => IF key[p] \in CoreKeys
                            THEN adm[p] = "granted" /\ dom[p] = Provider(key[p])
                            ELSE adm[p] = "idle"
    /\ pc[p] \in {"idle", "has_key", "count", "check_in", "close"} => adm[p] = "idle"

\* A label at which the caller has a connection in its hands.
Holding == {"fetched", "request_direct", "open", "check_in", "close"}
ConnShape == \A p \in Callers : pc[p] \in Holding => conn[p] \in Conns

\* TypeOK without the counters, which AdmStepInv covers.
LocalsOK ==
  /\ pc \in [Callers -> PcLabels]
  /\ key \in [Callers -> Keys \cup {None}]
  /\ conn \in [Callers -> Conns \cup {None}]
  /\ registry \in [Keys -> Pools \cup {None}]
  /\ home \in [Conns -> Pools \cup {Direct, None}]
  /\ idle \subseteq Conns
  /\ swept \in Conns \cup {None}

Shapes  == LocalsOK /\ SlotShape /\ ConnShape
ConnInv == AdmInv /\ Shapes

\* No caller has begun: Init establishes the inductive invariant.
LEMMA ConnInitInv == Init => ConnInv
  BY AdmInitInv DEF Init, ConnInv, Shapes, LocalsOK, SlotShape, ConnShape, PcLabels, Paying, Asking,
     Finding, Holding, AdmInit

\* Every step of a caller keeps the locals, the slots and the connections in
\* shape.
LEMMA CallerKeepsShapes ==
  ASSUME ConnInv, NEW p \in Callers, Caller(p) PROVE Shapes'
<1> USE DEF ConnInv, AdmInv, AdmTypeOK, Shapes, LocalsOK, SlotShape, ConnShape, PcLabels,
            Paying, Asking, Finding, Holding
<1>1. ASSUME NEW k \in Keys, db_connect(p, k) PROVE Shapes'
  BY <1>1 DEF db_connect, AcquireCall, Go, Provider
<1>2. ASSUME NEW k \in Keys, connect_plugin(p, k) PROVE Shapes'
  <2>1. k \notin CoreKeys
    BY <1>2, KeysDistinct DEF connect_plugin, PluginKeys
  <2> QED
    BY <1>2, <2>1 DEF connect_plugin, Go, admission
<1>3. ASSUME HasKey(p) PROVE Shapes'
  BY <1>3 DEF HasKey, Go, admission
<1>4. ASSUME UnderCap(p) PROVE Shapes'
  BY <1>4 DEF UnderCap, Go, admission
<1>5. ASSUME OverCap(p) PROVE Shapes'
  BY <1>5 DEF OverCap, AcquireCall, Go
<1>6. ASSUME Lookup(p) PROVE Shapes'
  BY <1>6 DEF Lookup, Go, admission
<1>7. ASSUME Install(p) PROVE Shapes'
  BY <1>7 DEF Install, Go, admission, Pools
<1>8. ASSUME BuildFails(p) PROVE Shapes'
  BY <1>8 DEF BuildFails, Go, admission
<1>9. ASSUME FoundCore(p) PROVE Shapes'
  BY <1>9 DEF FoundCore, Go, admission
<1>10. ASSUME FoundPlugin(p) PROVE Shapes'
  BY <1>10 DEF FoundPlugin, AcquireCall, Go
<1>11. ASSUME Admit(p) PROVE Shapes'
  BY <1>11 DEF Admit, acquire, AcquireLoad, AcquireDenied, AcquireSwapped, AcquireRetry
<1>12. ASSUME Admitted(p) PROVE Shapes'
  BY <1>12 DEF Admitted, Go, admission
<1>13. ASSUME Refused(p) PROVE Shapes'
  BY <1>13 DEF Refused, DenialReturned, Return, Go
<1>14. ASSUME Undo(p) PROVE Shapes'
  BY <1>14 DEF Undo, release, Return, Go
<1>15. ASSUME NEW c \in Conns, GetIdle(p, c) PROVE Shapes'
  BY <1>15 DEF GetIdle, Using, Go, admission
<1>16. ASSUME NEW c \in Conns, GetStale(p, c) PROVE Shapes'
  BY <1>16 DEF GetStale, admission
<1>17. ASSUME NEW c \in Conns, OpenConnection(p, c) PROVE Shapes'
  BY <1>17 DEF OpenConnection, admission
<1>18. ASSUME NEW c \in Conns, Dial(p, c) PROVE Shapes'
  BY <1>18 DEF Dial, Go, admission
<1>19. ASSUME GetFails(p) PROVE Shapes'
  BY <1>19 DEF GetFails, Go, admission
<1>20. ASSUME DialFails(p) PROVE Shapes'
  BY <1>20 DEF DialFails, Go, admission
<1>21. ASSUME CallKeepsRaw(p) PROVE Shapes'
  BY <1>21 DEF CallKeepsRaw, CheckIn, Go, admission
<1>22. ASSUME CallReturns(p) PROVE Shapes'
  BY <1>22 DEF CallReturns, release, Return, Go
<1>23. ASSUME CallReturnsDirect(p) PROVE Shapes'
  BY <1>23 DEF CallReturnsDirect, release, Go
<1>24. ASSUME StopCore(p) PROVE Shapes'
  BY <1>24 DEF StopCore, CheckIn, Go, admission
<1>25. ASSUME StopPlugin(p) PROVE Shapes'
  BY <1>25 DEF StopPlugin, release, Go
<1>26. ASSUME StopCheckIn(p) PROVE Shapes'
  BY <1>26 DEF StopCheckIn, CheckIn, Return, Go, admission
<1>27. ASSUME StopClose(p) PROVE Shapes'
  BY <1>27 DEF StopClose, Return, Go, admission
<1> QED
  BY <1>1, <1>2, <1>3, <1>4, <1>5, <1>6, <1>7, <1>8, <1>9, <1>10, <1>11, <1>12, <1>13, <1>14, <1>15, <1>16, <1>17, <1>18, <1>19, <1>20, <1>21, <1>22, <1>23, <1>24, <1>25, <1>26, <1>27, Zenon DEF Caller

\* So does every step of r2d2's and of the reaper's own threads.
LEMMA BackgroundKeepsShapes ==
  ASSUME ConnInv, Background PROVE Shapes'
  BY DEF ConnInv, Shapes, LocalsOK, SlotShape, ConnShape, Background, IdleExpires, SweepTake,
         SweepReturn, SweepEvict, CheckIn, admission

\* The inductive invariant is preserved by every step.
LEMMA ConnStepInv == ConnInv /\ [Next]_vars => ConnInv'
<1> SUFFICES ASSUME ConnInv, [Next]_vars PROVE ConnInv'
  OBVIOUS
<1>1. AdmInv'
  BY StepIsAdmStep, AdmStepInv DEF ConnInv
<1>2. CASE UNCHANGED vars
  BY <1>1, <1>2 DEF ConnInv, Shapes, LocalsOK, SlotShape, ConnShape, vars, admission
<1>3. CASE Next
  BY <1>1, <1>3, CallerKeepsShapes, BackgroundKeepsShapes DEF Next, ConnInv
<1> QED
  BY <1>2, <1>3

\* The inductive invariant holds in every reachable state.
THEOREM ConnInvariance == Spec => []ConnInv
  BY ConnInitInv, ConnStepInv, PTL DEF Spec

\* Every variable of Connections keeps its type.
THEOREM ConnectionsTyped == Spec => []TypeOK
<1>1. ConnInv => TypeOK
  BY DEF ConnInv, AdmInv, Shapes, LocalsOK, TypeOK
<1> QED
  BY <1>1, ConnInvariance, PTL

\* A session or a request always has its slot, and a caller between calls has
\* none, along every error path of nir_db_connect, connect_conn_shape,
\* checkout_with_key_cap and call_via.
THEOREM SessionsPaidFor == Spec => []SlotCoversSession
<1>1. ConnInv => SlotCoversSession
  BY DEF ConnInv, Shapes, SlotShape, SlotCoversSession, InSession, Paying
<1> QED
  BY <1>1, ConnInvariance, PTL

-----------------------------------------------------------------------------
(***************************************************************************)
(* Who has each physical connection.                                       *)
(***************************************************************************)
\* The pool a caller waits in is installed, and serves its key.
PoolsKeyed ==
  /\ \A k \in Keys : registry[k] # None => registry[k] \in Callers \X {k}
  /\ \A p \in Callers :
       /\ pc[p] \in {"found", "admit_pooled", "get"} => registry[key[p]] # None
       /\ pc[p] = "dial" => key[p] \notin CoreKeys

\* Every pooled connection is the registered pool's.
HomesRegistered ==
  \A k \in Keys, c \in Conns : home[c] \in Callers \X {k} => home[c] = registry[k]

\* An idle connection, and the one being swept, are pooled and in one place.
IdleApart ==
  /\ \A c \in idle : home[c] \in Pools /\ c # swept
  /\ swept # None => home[swept] \in Pools

\* So is the one a caller has in hand, and the label says where it goes back.
Hand(p) ==
  pc[p] \in Holding =>
    /\ conn[p] \notin idle /\ conn[p] # swept
    /\ home[conn[p]] \in Pools \cup {Direct}
    /\ pc[p] \in {"fetched", "check_in"} => home[conn[p]] \in Pools
    /\ pc[p] \in {"request_direct", "close"} => home[conn[p]] = Direct
    /\ pc[p] = "open" /\ key[p] \in CoreKeys => home[conn[p]] \in Pools

OneHolder ==
  \A p, q \in Callers : pc[p] \in Holding /\ pc[q] \in Holding /\ conn[p] = conn[q] => p = q

Accounted ==
  \A c \in Conns : home[c] # None =>
    c \in idle \/ c = swept \/ \E p \in Callers : conn[p] = c /\ pc[p] \in Holding

Ownership == /\ PoolsKeyed /\ HomesRegistered /\ IdleApart
             /\ \A p \in Callers : Hand(p)
             /\ OneHolder /\ Accounted

PoolOf(k) == {c \in Conns : home[c] \in Callers \X {k}}
SizesHold == \A k \in Keys : Cardinality(PoolOf(k)) <= PoolMax(k)

ConnOwnInv == ConnInv /\ Ownership /\ SizesHold

\* A pool is none of the two other homes, and is some key's.
LEMMA PoolNames ==
  /\ None \notin Pools /\ Direct \notin Pools /\ None # Direct /\ None \notin Conns
  /\ \A q : q \in Pools <=> \E k \in Keys : q \in Callers \X {k}
<1>1. None \notin Pools /\ Direct \notin Pools /\ None # Direct /\ None \notin Conns
  BY KeysDistinct DEF Pools, Keys
<1>2. \A q : q \in Pools <=> \E k \in Keys : q \in Callers \X {k}
  BY DEF Pools
<1> QED
  BY <1>1, <1>2

\* A caller without a connection goes to another label without one.
LEMMA ElsewhereOwns ==
  ASSUME Shapes, Ownership, NEW p \in Callers,
         pc[p] \notin Holding, pc'[p] \notin Holding,
         \A q \in Callers \ {p} : pc'[q] = pc[q] /\ conn'[q] = conn[q] /\ key'[q] = key[q],
         UNCHANGED <<registry, home, idle, swept>>, PoolsKeyed'
  PROVE  Ownership'
<1>1. HomesRegistered' /\ IdleApart'
  BY DEF Ownership, HomesRegistered, IdleApart
<1>2. \A q \in Callers : Hand(q)'
  BY DEF Ownership, Hand
<1>3. OneHolder'
  BY DEF Ownership, OneHolder
<1>4. Accounted'
  BY DEF Ownership, Accounted
<1> QED
  BY <1>1, <1>2, <1>3, <1>4 DEF Ownership

\* The steps that neither take a connection nor give one back.
LEMMA LabelOwns ==
  ASSUME ConnInv, Ownership, NEW p \in Callers,
         \/ \E k \in Keys : db_connect(p, k) \/ connect_plugin(p, k)
         \/ HasKey(p) \/ UnderCap(p) \/ OverCap(p) \/ Lookup(p) \/ BuildFails(p)
         \/ FoundCore(p) \/ FoundPlugin(p) \/ Admitted(p) \/ Refused(p) \/ Undo(p)
         \/ GetFails(p) \/ DialFails(p) \/ CallReturns(p)
  PROVE  Ownership'
<1> USE DEF ConnInv, Shapes, LocalsOK, Go, Return, Holding
<1>1. /\ pc[p] \notin Holding /\ pc'[p] \notin Holding
      /\ \A q \in Callers \ {p} : pc'[q] = pc[q] /\ conn'[q] = conn[q] /\ key'[q] = key[q]
      /\ UNCHANGED <<registry, home, idle, swept>>
  BY DEF db_connect, connect_plugin, HasKey, UnderCap, OverCap, Lookup, BuildFails, FoundCore,
         FoundPlugin, Admitted, Refused, Undo, GetFails, DialFails, CallReturns
<1>2. /\ pc'[p] \in {"found", "admit_pooled", "get"} => registry[key'[p]] # None
      /\ pc'[p] = "dial" => key'[p] \notin CoreKeys
  BY DEF Ownership, PoolsKeyed, SlotShape, db_connect, connect_plugin, HasKey, UnderCap, OverCap,
         Lookup, BuildFails, FoundCore, FoundPlugin, Admitted, Refused, Undo, GetFails, DialFails,
         CallReturns
<1>3. PoolsKeyed'
  BY <1>1, <1>2 DEF Ownership, PoolsKeyed
<1> QED
  BY <1>1, <1>3, ElsewhereOwns

\* A pool is installed for a key that has no connection yet.
LEMMA InstallOwns ==
  ASSUME ConnInv, Ownership, NEW p \in Callers, Install(p) PROVE Ownership'
<1> USE DEF ConnInv, Shapes, LocalsOK, Install, Go, Ownership
<1>1. key[p] \in Keys /\ registry' \in [Keys -> Pools \cup {None}]
  BY DEF SlotShape, Pools
<1>2. /\ \A k \in Keys : registry[k] # None => registry'[k] = registry[k]
      /\ \A k \in Keys : registry'[k] # None => registry'[k] \in Callers \X {k}
      /\ registry'[key[p]] # None
  BY <1>1, PoolNames DEF PoolsKeyed, Pools
<1>3. PoolsKeyed'
  BY <1>1, <1>2 DEF PoolsKeyed, SlotShape
<1>4. HomesRegistered'
  BY <1>2, PoolNames DEF HomesRegistered
<1>5. IdleApart' /\ OneHolder'
  BY DEF IdleApart, OneHolder, Holding
<1>6. \A q \in Callers : Hand(q)'
  BY DEF Hand, Holding
<1>7. Accounted'
  BY DEF Accounted, Holding
<1> QED
  BY <1>3, <1>4, <1>5, <1>6, <1>7

\* get() hands out an idle connection.
LEMMA GetIdleOwns ==
  ASSUME ConnInv, Ownership, NEW p \in Callers, NEW c \in Conns, GetIdle(p, c)
  PROVE  Ownership'
<1> USE DEF ConnInv, Shapes, LocalsOK, GetIdle, Go, Ownership, Idle
<1>1. /\ c \in idle /\ home[c] \in Pools /\ c # swept
      /\ \A q \in Callers : pc[q] \in Holding => conn[q] # c
  BY DEF IdleApart, Hand
<1>2. /\ pc'[p] \in {"fetched", "open"} /\ conn'[p] = c
      /\ \A q \in Callers \ {p} : pc'[q] = pc[q] /\ conn'[q] = conn[q]
      /\ idle' = idle \ {c} /\ UNCHANGED <<key, registry, home, swept>>
  BY DEF Using
<1>3. PoolsKeyed'
  BY <1>2 DEF PoolsKeyed
<1>4. HomesRegistered' /\ IdleApart'
  BY <1>2 DEF HomesRegistered, IdleApart
<1>5. \A q \in Callers : Hand(q)'
  BY <1>1, <1>2 DEF Hand, Holding
<1>6. OneHolder'
  BY <1>1, <1>2 DEF OneHolder, Holding
<1>7. Accounted'
  BY <1>1, <1>2 DEF Accounted, Holding
<1> QED
  BY <1>3, <1>4, <1>5, <1>6, <1>7

\* The unpooled dial opens a connection nobody has.
LEMMA DialOwns ==
  ASSUME ConnInv, Ownership, NEW p \in Callers, NEW c \in Conns, Dial(p, c)
  PROVE  Ownership'
<1> USE PoolNames DEF ConnInv, Shapes, LocalsOK, Dial, Go, Ownership, Free
<1>1. /\ c \notin idle /\ c # swept
      /\ \A q \in Callers : conn[q] # c
      /\ key[p] \notin CoreKeys
  BY DEF IdleApart, PoolsKeyed
<1>2. /\ pc'[p] \in {"request_direct", "open"} /\ conn'[p] = c
      /\ \A q \in Callers \ {p} : pc'[q] = pc[q] /\ conn'[q] = conn[q]
      /\ home'[c] = Direct /\ \A d \in Conns \ {c} : home'[d] = home[d]
      /\ UNCHANGED <<key, registry, idle, swept>>
  OBVIOUS
<1>3. PoolsKeyed'
  BY <1>2 DEF PoolsKeyed
<1>4. HomesRegistered'
  BY <1>2 DEF HomesRegistered
<1>5. IdleApart'
  BY <1>1, <1>2 DEF IdleApart
<1>6. \A q \in Callers : Hand(q)'
  BY <1>1, <1>2 DEF Hand, Holding, ConnShape
<1>7. OneHolder'
  BY <1>1, <1>2 DEF OneHolder, Holding
<1>8. Accounted'
  BY <1>1, <1>2 DEF Accounted, Holding
<1> QED
  BY <1>3, <1>4, <1>5, <1>6, <1>7, <1>8

\* r2d2 opens a connection for the pool someone waits in.
LEMMA OpenOwns ==
  ASSUME ConnInv, Ownership, NEW p \in Callers, NEW c \in Conns, OpenConnection(p, c)
  PROVE  Ownership'
<1> USE PoolNames DEF ConnInv, Shapes, LocalsOK, OpenConnection, Ownership, Free
<1>1. /\ key[p] \in Keys /\ registry[key[p]] \in Callers \X {key[p]} /\ registry[key[p]] \in Pools
      /\ c \notin idle /\ c # swept
      /\ \A q \in Callers : conn[q] # c
  BY DEF IdleApart, PoolsKeyed, SlotShape
<1>2. /\ home'[c] = registry[key[p]] /\ \A d \in Conns \ {c} : home'[d] = home[d]
      /\ idle' = idle \cup {c}
      /\ UNCHANGED <<pc, key, conn, registry, swept>>
  OBVIOUS
<1>3. PoolsKeyed' /\ OneHolder'
  BY <1>2 DEF PoolsKeyed, OneHolder
<1>4. HomesRegistered'
  <2> SUFFICES ASSUME NEW k \in Keys, home'[c] \in Callers \X {k} PROVE home'[c] = registry[k]
    BY <1>2 DEF HomesRegistered
  <2>1. k = key[p]
    BY <1>1, <1>2
  <2> QED
    BY <1>2, <2>1
<1>5. IdleApart'
  BY <1>1, <1>2 DEF IdleApart
<1>6. \A q \in Callers : Hand(q)'
  BY <1>1, <1>2 DEF Hand, ConnShape
<1>7. Accounted'
  BY <1>2 DEF Accounted
<1> QED
  BY <1>3, <1>4, <1>5, <1>6, <1>7

\* An idle connection is closed.
LEMMA CloseIdleOwns ==
  ASSUME ConnInv, Ownership, NEW c \in idle, idle' = idle \ {c},
         home' = [home EXCEPT ![c] = None],
         UNCHANGED <<pc, key, conn, registry, swept>>
  PROVE  Ownership'
<1> USE PoolNames DEF ConnInv, Shapes, LocalsOK, Ownership
<1>1. c \in Conns /\ home'[c] = None /\ \A d \in Conns \ {c} : home'[d] = home[d]
  OBVIOUS
<1>2. PoolsKeyed' /\ OneHolder'
  BY DEF PoolsKeyed, OneHolder
<1>3. HomesRegistered'
  BY <1>1 DEF HomesRegistered
<1>4. IdleApart'
  BY <1>1 DEF IdleApart
<1>5. \A q \in Callers : Hand(q)'
  BY <1>1 DEF Hand, ConnShape
<1>6. Accounted'
  BY <1>1 DEF Accounted
<1> QED
  BY <1>2, <1>3, <1>4, <1>5, <1>6

\* The reaper takes an idle connection, and puts it back or drops it.
LEMMA SweepOwns ==
  ASSUME ConnInv, Ownership, (\E c \in Conns : SweepTake(c)) \/ SweepReturn \/ SweepEvict
  PROVE  Ownership'
<1> USE PoolNames DEF ConnInv, Shapes, LocalsOK, Ownership
<1>1. PoolsKeyed' /\ OneHolder'
  BY DEF PoolsKeyed, OneHolder, SweepTake, SweepReturn, SweepEvict
<1>2. ASSUME NEW c \in Conns, SweepTake(c) PROVE Ownership'
  <2>1. HomesRegistered' /\ IdleApart' /\ Accounted'
    BY <1>2 DEF SweepTake, HomesRegistered, IdleApart, Accounted
  <2>2. \A q \in Callers : Hand(q)'
    BY <1>2 DEF SweepTake, Hand
  <2> QED
    BY <1>1, <2>1, <2>2
<1>3. CASE SweepReturn /\ UNCHANGED home
  <2>1. idle' = idle \cup {swept} /\ swept \in Conns /\ home[swept] \in Pools
    BY <1>3 DEF SweepReturn, CheckIn, IdleApart
  <2>2. HomesRegistered' /\ IdleApart' /\ Accounted'
    BY <1>3, <2>1 DEF SweepReturn, HomesRegistered, IdleApart, Accounted
  <2>3. \A q \in Callers : Hand(q)'
    BY <1>3, <2>1 DEF SweepReturn, Hand, ConnShape
  <2> QED
    BY <1>1, <2>2, <2>3
<1>4. CASE home' = [home EXCEPT ![swept] = None] /\ UNCHANGED <<idle, pc, key, conn, registry>> /\ swept' = None /\ swept # None
  <2>1. swept \in Conns /\ home'[swept] = None /\ \A d \in Conns \ {swept} : home'[d] = home[d]
    BY <1>4
  <2>2. HomesRegistered'
    BY <1>4, <2>1 DEF HomesRegistered
  <2>3. IdleApart'
    BY <1>4, <2>1 DEF IdleApart
  <2>4. Accounted'
    BY <1>4, <2>1 DEF Accounted
  <2>5. \A q \in Callers : Hand(q)'
    BY <1>4, <2>1 DEF Hand, ConnShape
  <2> QED
    BY <1>1, <2>2, <2>3, <2>4, <2>5
<1> QED
  BY <1>2, <1>3, <1>4 DEF SweepReturn, SweepEvict, CheckIn

\* A caller gives back the connection it holds: to the idle list, or closed.
LEMMA PutDownOwns ==
  ASSUME ConnInv, Ownership, NEW p \in Callers, pc[p] \in Holding,
         pc'[p] \in {"request", "undo", "idle"},
         \A q \in Callers \ {p} : pc'[q] = pc[q] /\ conn'[q] = conn[q] /\ key'[q] = key[q],
         \/ home[conn[p]] \in Pools /\ idle' = idle \cup {conn[p]} /\ UNCHANGED home
         \/ home' = [home EXCEPT ![conn[p]] = None] /\ UNCHANGED idle,
         UNCHANGED <<registry, swept>>
  PROVE  Ownership'
<1> USE PoolNames DEF ConnInv, Shapes, LocalsOK, Ownership
<1>1. PICK c \in Conns : c = conn[p]
  BY DEF ConnShape
<1>2. /\ c \notin idle /\ c # swept
      /\ \A q \in Callers \ {p} : pc[q] \in Holding => conn[q] # c
      /\ \A d \in Conns \ {c} : home'[d] = home[d] /\ (d \in idle' <=> d \in idle)
      /\ \/ home[c] \in Pools /\ home'[c] = home[c] /\ c \in idle'
         \/ home'[c] = None /\ c \notin idle'
      /\ idle' \subseteq Conns
  BY <1>1 DEF Hand, OneHolder
<1>3. PoolsKeyed'
  BY DEF PoolsKeyed
<1>4. HomesRegistered'
  BY <1>2 DEF HomesRegistered
<1>5. IdleApart'
  BY <1>2 DEF IdleApart
<1>6. \A q \in Callers : Hand(q)'
  BY <1>2 DEF Hand, ConnShape, Holding
<1>7. OneHolder'
  BY DEF OneHolder, Holding
<1>8. Accounted'
  BY <1>1, <1>2 DEF Accounted, Holding
<1> QED
  BY <1>3, <1>4, <1>5, <1>6, <1>7, <1>8

\* The caller keeps its connection and goes on to give it back.
LEMMA ReleaseOwns ==
  ASSUME ConnInv, Ownership, NEW p \in Callers, CallReturnsDirect(p) \/ StopPlugin(p)
  PROVE  Ownership'
<1> USE DEF ConnInv, Shapes, LocalsOK, Ownership, Go, CallReturnsDirect, StopPlugin
<1>1. /\ pc[p] \in Holding /\ pc'[p] \in {"close", "check_in"}
      /\ \A q \in Callers \ {p} : pc'[q] = pc[q]
      /\ UNCHANGED <<key, conn, registry, home, idle, swept>>
  BY DEF Holding
<1>2. IF pc'[p] = "close" THEN home[conn[p]] = Direct ELSE home[conn[p]] \in Pools
  BY <1>1 DEF Hand, Holding
<1>3. PoolsKeyed' /\ HomesRegistered' /\ IdleApart'
  BY <1>1 DEF PoolsKeyed, HomesRegistered, IdleApart
<1>4. \A q \in Callers : Hand(q)'
  BY <1>1, <1>2 DEF Hand, Holding
<1>5. OneHolder' /\ Accounted'
  BY <1>1 DEF OneHolder, Accounted, Holding
<1> QED
  BY <1>3, <1>4, <1>5

\* Ownership is preserved by every step.
LEMMA OwnershipStep == ConnInv /\ Ownership /\ [Next]_vars => Ownership'
<1> SUFFICES ASSUME ConnInv, Ownership, [Next]_vars PROVE Ownership'
  OBVIOUS
<1>1. ASSUME NEW p \in Callers, Caller(p) PROVE Ownership'
  <2>1. CASE Admit(p) \/ Install(p)
    <3>1. CASE Admit(p)
      BY <3>1 DEF Admit, Ownership, PoolsKeyed, HomesRegistered, IdleApart, Hand, OneHolder, Accounted
    <3> QED
      BY <2>1, <3>1, InstallOwns
  <2>2. ASSUME NEW c \in Conns, GetStale(p, c) PROVE Ownership'
    BY <2>2, CloseIdleOwns DEF GetStale, Idle
  <2>3. ASSUME NEW c \in Conns, GetIdle(p, c) \/ OpenConnection(p, c) \/ Dial(p, c) PROVE Ownership'
    BY <2>3, GetIdleOwns, OpenOwns, DialOwns
  <2>4. CASE CallReturnsDirect(p) \/ StopPlugin(p)
    BY <2>4, ReleaseOwns
  <2>5. CASE CallKeepsRaw(p) \/ StopCore(p) \/ StopCheckIn(p) \/ StopClose(p)
    <3>1. /\ pc[p] \in Holding /\ pc'[p] \in {"request", "undo", "idle"}
          /\ \A q \in Callers \ {p} : pc'[q] = pc[q] /\ conn'[q] = conn[q] /\ key'[q] = key[q]
          /\ UNCHANGED <<registry, swept>>
      BY <2>5 DEF CallKeepsRaw, StopCore, StopCheckIn, StopClose, Return, Go, Holding, ConnInv, Shapes, LocalsOK
    <3>2. CASE StopClose(p)
      BY <3>1, <3>2, PutDownOwns DEF StopClose
    <3>3. CASE CallKeepsRaw(p) \/ StopCore(p) \/ StopCheckIn(p)
      <4>1. home[conn[p]] \in Pools
        BY <3>3 DEF CallKeepsRaw, StopCore, StopCheckIn, Ownership, Hand, Holding
      <4>2. CheckIn(conn[p])
        BY <3>3 DEF CallKeepsRaw, StopCore, StopCheckIn
      <4> QED
        BY <3>1, <4>1, <4>2, PutDownOwns DEF CheckIn
    <3> QED
      BY <2>5, <3>2, <3>3
  <2> QED
    BY <1>1, <2>1, <2>2, <2>3, <2>4, <2>5, LabelOwns DEF Caller
<1>2. CASE Background
  <2>1. ASSUME NEW c \in Conns, IdleExpires(c) PROVE Ownership'
    BY <2>1, CloseIdleOwns DEF IdleExpires
  <2> QED
    BY <1>2, <2>1, SweepOwns DEF Background
<1>3. CASE UNCHANGED vars
  BY <1>3 DEF vars, Ownership, PoolsKeyed, HomesRegistered, IdleApart, Hand, OneHolder, Accounted
<1> QED
  BY <1>1, <1>2, <1>3 DEF Next

\* A pool grows only in OpenConnection, below its size.
LEMMA SizesStep == ConnInv /\ Ownership /\ SizesHold /\ [Next]_vars => SizesHold'
<1> SUFFICES ASSUME ConnInv, Ownership, SizesHold, [Next]_vars, NEW k \in Keys
             PROVE  Cardinality(PoolOf(k)') <= PoolMax(k)
  BY DEF SizesHold, PoolOf, PoolMax
<1> USE PoolNames DEF ConnInv, Shapes, LocalsOK
<1>1. IsFiniteSet(PoolOf(k)) /\ Cardinality(PoolOf(k)) \in Nat /\ PoolMax(k) \in Nat
  <2>1. PoolOf(k) \in SUBSET Conns
    BY DEF PoolOf
  <2>2. Provider(k) \in Domains
    BY ProviderDomain
  <2> QED
    BY <2>1, <2>2, ConnsFinite, FS_Subset, FS_CardinalityType, CeilingsPositive, Sizes DEF PoolMax
<1>2. ASSUME PoolOf(k)' \subseteq PoolOf(k) PROVE Cardinality(PoolOf(k)') <= PoolMax(k)
  <2>1. Cardinality(PoolOf(k)') <= Cardinality(PoolOf(k)) /\ IsFiniteSet(PoolOf(k)')
    BY <1>1, <1>2, FS_Subset
  <2>2. Cardinality(PoolOf(k)') \in Nat /\ Cardinality(PoolOf(k)) <= PoolMax(k)
    BY <2>1, FS_CardinalityType DEF SizesHold
  <2> QED
    BY <1>1, <2>1, <2>2
<1>3. ASSUME NEW p \in Callers, NEW c \in Conns, OpenConnection(p, c)
      PROVE  Cardinality(PoolOf(k)') <= PoolMax(k)
  <2>1. /\ key[p] \in Keys /\ registry[key[p]] \in Callers \X {key[p]}
        /\ home'[c] = registry[key[p]] /\ \A d \in Conns \ {c} : home'[d] = home[d]
        /\ c \notin PoolOf(k)
    BY <1>3 DEF OpenConnection, Ownership, PoolsKeyed, SlotShape, Free, PoolOf
  <2>2. CASE k # key[p]
    BY <1>2, <2>1, <2>2 DEF PoolOf
  <2>3. CASE k = key[p]
    <3>1. PoolOf(k)' = PoolOf(k) \cup {c}
      BY <2>1, <2>3 DEF PoolOf
    <3>2. PoolOf(k) = Pooled(registry[k])
      BY <2>1, <2>3 DEF PoolOf, Pooled, Ownership, HomesRegistered
    <3>3. Cardinality(PoolOf(k)) < PoolMax(k)
      BY <1>3, <2>3, <3>2 DEF OpenConnection
    <3>4. Cardinality(PoolOf(k)') = Cardinality(PoolOf(k)) + 1
      BY <1>1, <2>1, <3>1, FS_AddElement
    <3> QED
      BY <1>1, <3>3, <3>4
  <2> QED
    BY <2>2, <2>3
<1>4. CASE \A c \in Conns : home'[c] \in {home[c], None, Direct}
  BY <1>2, <1>4 DEF PoolOf
<1>5. ASSUME NEW p \in Callers, Caller(p), ~ \E c \in Conns : OpenConnection(p, c)
      PROVE  \A c \in Conns : home'[c] \in {home[c], None, Direct}
  <2>1. CASE \E c \in Conns : Dial(p, c) \/ GetStale(p, c)
    BY <2>1 DEF Dial, GetStale
  <2>2. CASE CallKeepsRaw(p) \/ StopCore(p) \/ StopCheckIn(p) \/ StopClose(p)
    BY <2>2 DEF CallKeepsRaw, StopCore, StopCheckIn, StopClose, CheckIn
  <2>3. CASE UNCHANGED home
    BY <2>3
  <2> QED
    BY <1>5, <2>1, <2>2, <2>3
    DEF Caller, db_connect, connect_plugin, HasKey, UnderCap, OverCap, Lookup, Install, BuildFails,
        FoundCore, FoundPlugin, Admit, Admitted, Refused, Undo, GetIdle, GetFails, DialFails,
        CallReturns, CallReturnsDirect, StopPlugin
<1>6. CASE Background \/ UNCHANGED vars
  BY <1>4, <1>6 DEF Background, IdleExpires, SweepTake, SweepReturn, SweepEvict, CheckIn, vars
<1> QED
  BY <1>3, <1>4, <1>5, <1>6 DEF Next

\* Who has each connection is known in every reachable state.
THEOREM OwnershipInvariance == Spec => []ConnOwnInv
<1>1. Init => ConnOwnInv
  <2> SUFFICES ASSUME Init PROVE ConnOwnInv
    OBVIOUS
  <2>1. Ownership
    BY PoolNames DEF Init, Ownership, PoolsKeyed, HomesRegistered, IdleApart, Hand, OneHolder,
       Accounted, Holding
  <2>2. SizesHold
    <3> SUFFICES ASSUME NEW k \in Keys PROVE Cardinality(PoolOf(k)) <= PoolMax(k)
      BY DEF SizesHold
    <3>1. PoolOf(k) = {}
      BY PoolNames DEF Init, PoolOf
    <3>2. Provider(k) \in Domains
      BY ProviderDomain
    <3> QED
      BY <3>1, <3>2, FS_EmptySet, CeilingsPositive, Sizes DEF PoolMax
  <2> QED
    BY <2>1, <2>2, ConnInitInv DEF ConnOwnInv
<1>2. ConnOwnInv /\ [Next]_vars => ConnOwnInv'
  BY ConnStepInv, OwnershipStep, SizesStep DEF ConnOwnInv
<1> QED
  BY <1>1, <1>2, PTL DEF Spec

\* get_or_create's two locks never leave two live pools for a key, and a key
\* never has more connections open than its pool's size.
THEOREM PoolIsOne == Spec => []OnePoolPerKey
<1>1. ConnOwnInv => OnePoolPerKey
  BY DEF ConnOwnInv, Ownership, HomesRegistered, SizesHold, PoolOf, OnePoolPerKey
<1> QED
  BY <1>1, OwnershipInvariance, PTL

\* The connection of a session is its own until it stops, whatever r2d2, the
\* reaper and the other callers do.
THEOREM SessionsApart == Spec => []SessionIsExclusive
<1>1. ConnOwnInv => SessionIsExclusive
  BY PoolNames DEF ConnOwnInv, ConnInv, Shapes, ConnShape, Ownership, Hand, OneHolder, Holding,
     SessionIsExclusive, SessionsOn
<1> QED
  BY <1>1, OwnershipInvariance, PTL

\* No error path, drop order or sweep forgets an open connection.
THEOREM ConnectionsNotLeaked == Spec => []NoConnectionLeaks
<1>1. ConnOwnInv => NoConnectionLeaks
  BY DEF ConnOwnInv, Ownership, Accounted, Holding, NoConnectionLeaks
<1> QED
  BY <1>1, OwnershipInvariance, PTL
=============================================================================
