------------------------------ MODULE Delivery ------------------------------
(***************************************************************************)
(* What a background worker (shared/worker/background_worker.go) promises  *)
(* about the items it is given: each is settled once, either stored or     *)
(* given up, and stopping waits for those it has accepted.                 *)
(***************************************************************************)
CONSTANT Items

VARIABLES fate,    \* what has become of each item
          closed   \* Stop has returned

vars == <<fate, closed>>

Init ==
    /\ fate = [i \in Items |-> "new"]
    /\ closed = FALSE

Accept(i) ==
    /\ ~closed
    /\ fate[i] = "new"
    /\ fate' = [fate EXCEPT ![i] = "accepted"]
    /\ UNCHANGED closed

\* A batch is settled as one; a refused item is settled by its own caller.
Settle(items, result) ==
    /\ \A i \in items : fate[i] \in {"new", "accepted"}
    /\ fate' = [i \in Items |-> IF i \in items THEN result ELSE fate[i]]
    /\ UNCHANGED closed

Close ==
    /\ \A i \in Items : fate[i] # "accepted"
    /\ closed' = TRUE
    /\ UNCHANGED fate

Next ==
    \/ \E i \in Items : Accept(i)
    \/ \E items \in SUBSET Items, result \in {"stored", "lost"} : Settle(items, result)
    \/ Close

Spec == Init /\ [][Next]_vars
=============================================================================
