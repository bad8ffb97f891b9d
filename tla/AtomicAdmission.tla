--------------------------- MODULE AtomicAdmission ---------------------------
(***************************************************************************)
(* What kernel::acquire and kernel::release promise their callers: a       *)
(* counting semaphore per domain that never waits. A request is granted    *)
(* at one instant, when the domain has a free slot, or denied at one       *)
(* instant, when it truly has none; a slot belongs to the caller it was    *)
(* granted to until that caller gives it back.                             *)
(***************************************************************************)
EXTENDS Naturals, FiniteSets

CONSTANTS Callers, Domains, Ceiling, None

VARIABLES
  status,   \* of each caller: "idle", "asking", "granted", "denied"
  domain    \* the domain of each caller's request or slot, if any

Slots(d) == {p \in Callers : status[p] = "granted" /\ domain[p] = d}

Init == /\ status = [p \in Callers |-> "idle"]
        /\ domain = [p \in Callers |-> None]

Ask(p, d) == /\ status[p] = "idle"
             /\ status' = [status EXCEPT ![p] = "asking"]
             /\ domain' = [domain EXCEPT ![p] = d]

Grant(p) == /\ status[p] = "asking" /\ Cardinality(Slots(domain[p])) < Ceiling[domain[p]]
            /\ status' = [status EXCEPT ![p] = "granted"]
            /\ UNCHANGED domain

Deny(p) == /\ status[p] = "asking" /\ Cardinality(Slots(domain[p])) >= Ceiling[domain[p]]
           /\ status' = [status EXCEPT ![p] = "denied"]
           /\ UNCHANGED domain

Finish(p) == /\ status[p] \in {"granted", "denied"}
             /\ status' = [status EXCEPT ![p] = "idle"]
             /\ domain' = [domain EXCEPT ![p] = None]

Next == \E p \in Callers : \/ \E d \in Domains : Ask(p, d)
                           \/ Grant(p) \/ Deny(p) \/ Finish(p)

Spec == Init /\ [][Next]_<<status, domain>>
=============================================================================
