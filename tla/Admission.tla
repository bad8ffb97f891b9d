------------------------------ MODULE Admission ------------------------------
(***************************************************************************)
(* The admission counters of the kernel (runtime-kernels/src/kernel/mod.rs)*)
(* one `held` per domain, incremented by the compare-exchange loop of      *)
(* `acquire` and decremented by the fetch_sub of `release`. No lock is     *)
(* taken: between the load and the exchange of one caller any number of    *)
(* other callers acquire and release. The grant, denial and stale counters *)
(* are statistics nothing reads back, and are left out.                    *)
(***************************************************************************)
EXTENDS Integers, FiniteSets

CONSTANTS
  Callers,   \* the threads of the process, each in at most one session at a time
  Domains,   \* the registered domains
  Ceiling,   \* max_for: the ceiling of each domain, resolved once
  None

ASSUME CallersFinite == IsFiniteSet(Callers)
ASSUME CeilingsPositive == Ceiling \in [Domains -> Nat \ {0}]
ASSUME NoneIsNoDomain == None \notin Domains

VARIABLES
  held,  \* DomainCounters.held
  adm,   \* where each caller is: "idle", in acquire ("load", "check"), or past it
  seen,  \* acquire's local `current`, 0 outside the loop
  dom    \* the domain the call, or the slot, is about, if any

admission == <<held, adm, seen, dom>>

AdmLabels == {"idle", "load", "check", "granted", "denied"}

AdmInit ==
  /\ held = [d \in Domains |-> 0]
  /\ adm = [p \in Callers |-> "idle"]
  /\ seen = [p \in Callers |-> 0]
  /\ dom = [p \in Callers |-> None]

-----------------------------------------------------------------------------
AcquireCall(p, d) ==
  /\ adm[p] = "idle"
  /\ adm' = [adm EXCEPT ![p] = "load"]
  /\ dom' = [dom EXCEPT ![p] = d]
  /\ UNCHANGED <<held, seen>>

AcquireLoad(p) ==
  /\ adm[p] = "load"
  /\ seen' = [seen EXCEPT ![p] = held[dom[p]]]
  /\ adm' = [adm EXCEPT ![p] = "check"]
  /\ UNCHANGED <<held, dom>>

\* Mutant: off by one, the last slot is never granted.
AcquireDeniedEarly(p) ==
  /\ adm[p] = "check" /\ seen[p] + 1 >= Ceiling[dom[p]]
  /\ adm' = [adm EXCEPT ![p] = "denied"]
  /\ seen' = [seen EXCEPT ![p] = 0]
  /\ UNCHANGED <<held, dom>>

\* `if current >= max { return false }`.
AcquireDenied(p) ==
  /\ adm[p] = "check" /\ seen[p] >= Ceiling[dom[p]]
  /\ adm' = [adm EXCEPT ![p] = "denied"]
  /\ seen' = [seen EXCEPT ![p] = 0]
  /\ UNCHANGED <<held, dom>>

\* Mutant: a load and a store in place of the compare-exchange.
AcquireStored(p) ==
  /\ adm[p] = "check" /\ seen[p] < Ceiling[dom[p]]
  /\ held' = [held EXCEPT ![dom[p]] = seen[p] + 1]
  /\ adm' = [adm EXCEPT ![p] = "granted"]
  /\ seen' = [seen EXCEPT ![p] = 0]
  /\ UNCHANGED dom

\* compare_exchange_weak succeeds.
AcquireSwapped(p) ==
  /\ adm[p] = "check" /\ seen[p] < Ceiling[dom[p]]
  /\ held[dom[p]] = seen[p]
  /\ held' = [held EXCEPT ![dom[p]] = seen[p] + 1]
  /\ adm' = [adm EXCEPT ![p] = "granted"]
  /\ seen' = [seen EXCEPT ![p] = 0]
  /\ UNCHANGED dom

\* compare_exchange_weak fails, spuriously or not: look again.
AcquireRetry(p) ==
  /\ adm[p] = "check" /\ seen[p] < Ceiling[dom[p]]
  /\ seen' = [seen EXCEPT ![p] = held[dom[p]]]
  /\ UNCHANGED <<held, adm, dom>>

\* The caller has seen the `false`.
DenialReturned(p) ==
  /\ adm[p] = "denied"
  /\ adm' = [adm EXCEPT ![p] = "idle"]
  /\ dom' = [dom EXCEPT ![p] = None]
  /\ UNCHANGED <<held, seen>>

release(p) ==
  /\ adm[p] = "granted"
  /\ held' = [held EXCEPT ![dom[p]] = @ - 1]
  /\ adm' = [adm EXCEPT ![p] = "idle"]
  /\ dom' = [dom EXCEPT ![p] = None]
  /\ UNCHANGED seen

\* The steps of acquire once it has been called.
acquire(p) == AcquireLoad(p) \/ AcquireDenied(p) \/ AcquireSwapped(p) \/ AcquireRetry(p)

AdmNext == \E p \in Callers :
  \/ \E d \in Domains : AcquireCall(p, d)
  \/ acquire(p) \/ DenialReturned(p) \/ release(p)

AdmSpec == AdmInit /\ [][AdmNext]_admission

-----------------------------------------------------------------------------
\* The callers that own a slot of d.
Slots(d) == {p \in Callers : adm[p] = "granted" /\ dom[p] = d}

AdmTypeOK ==
  /\ held \in [Domains -> Nat]
  /\ adm \in [Callers -> AdmLabels]
  /\ seen \in [Callers -> Nat]
  /\ dom \in [Callers -> Domains \cup {None}]

\* The lock-free count is exact at every instant and never exceeds the
\* domain's ceiling, however acquires and releases interleave: no slot is
\* granted twice, none is lost in a failed exchange.
HeldExact == \A d \in Domains : held[d] = Cardinality(Slots(d)) /\ held[d] <= Ceiling[d]

\* A caller whose `current` has reached the ceiling is as good as denied: the
\* denial took effect when the load or the failed exchange read the counter.
AbstractStatus(p) ==
  CASE adm[p] = "load"  -> "asking"
    [] adm[p] = "check" -> IF seen[p] >= Ceiling[dom[p]] THEN "denied" ELSE "asking"
    [] OTHER            -> adm[p]

Atomic == INSTANCE AtomicAdmission WITH
  status <- [p \in Callers |-> AbstractStatus(p)], domain <- dom

\* The compare-exchange loop and the fetch_sub implement the atomic semaphore:
\* in particular a caller is turned away only if, at some instant between its
\* call and its return, every slot of the domain was taken.
AcquireIsAtomic == Atomic!Spec
=============================================================================
