---------------------------- MODULE SessionMutex ----------------------------
(***************************************************************************)
(* What Service.LockSession (sessions/application/service.go) promises its *)
(* callers: one mutex per session key.  Session keys are independent, and  *)
(* a caller holds at most one of them.                                     *)
(***************************************************************************)
CONSTANTS Keys,     \* (platform, session id) pairs
          Callers,  \* goroutines that call LockSession
          Unlocked  \* the value of a key nobody holds

VARIABLE holder    \* holder[k]: the caller inside LockSession(k), or Unlocked

Init == holder = [k \in Keys |-> Unlocked]

Acquire(a, k) ==
    /\ holder[k] = Unlocked
    /\ \A other \in Keys : holder[other] # a
    /\ holder' = [holder EXCEPT ![k] = a]

Release(a, k) ==
    /\ holder[k] = a
    /\ holder' = [holder EXCEPT ![k] = Unlocked]

Next == \E a \in Callers, k \in Keys : Acquire(a, k) \/ Release(a, k)

Spec == Init /\ [][Next]_holder
=============================================================================
