---------------------------- MODULE SessionLock -----------------------------
(***************************************************************************)
(* The reference-counted lock table behind Service.LockSession             *)
(* (sessions/application/service.go).  A table entry is created by the     *)
(* first caller, counts its users (waiters included), and is removed by    *)
(* the last one.  sessionLocksMu makes the two table updates atomic; the   *)
(* entry's own mutex is taken outside it.                                  *)
(***************************************************************************)
EXTENDS Integers, FiniteSets

CONSTANTS Keys,     \* session keys (platform, session id)
          Callers,  \* goroutines that call LockSession
          Locks,    \* heap addresses a *sessionLock can have
          Unlocked, \* owner of an unlocked mutex
          NoLock    \* a nil *sessionLock

ASSUME LockConstants ==
    /\ IsFiniteSet(Callers)
    /\ Unlocked \notin Callers
    /\ NoLock \notin Locks

VARIABLES table,    \* sessionLocks: the lock registered under each key, or NoLock
          refs,     \* refs field of each lock
          owner,    \* who holds each lock's mutex, or Unlocked
          at,       \* where each caller is
          key,      \* the key each caller asked for
          mine      \* the *sessionLock each caller found or created

lockVars == <<table, refs, owner, at, key, mine>>

LockInit ==
    /\ table = [k \in Keys |-> NoLock]
    /\ refs = [l \in Locks |-> 0]
    /\ owner = [l \in Locks |-> Unlocked]
    /\ at = [a \in Callers |-> "idle"]
    /\ key \in [Callers -> Keys]
    /\ mine = [a \in Callers |-> NoLock]

\* Callers that hold a pointer to lock l, from the table lookup to the release.
UsersOf(l) == {a \in Callers : at[a] # "idle" /\ mine[a] = l}

\* An address the allocator may return: neither the table nor a caller refers to it.
Unreferenced(l) == UsersOf(l) = {} /\ \A k \in Keys : table[k] # l

-----------------------------------------------------------------------------
\* A new entry is a fresh sessionLock with one reference.
CreateEntry(a, k) ==
    /\ at[a] = "idle"
    /\ table[k] = NoLock
    /\ \E l \in Locks :
        /\ Unreferenced(l)
        /\ table' = [table EXCEPT ![k] = l]
        /\ refs' = [refs EXCEPT ![l] = 1]
        /\ owner' = [owner EXCEPT ![l] = Unlocked]
        /\ mine' = [mine EXCEPT ![a] = l]
    /\ at' = [at EXCEPT ![a] = "waiting"]
    /\ key' = [key EXCEPT ![a] = k]

\* Mutant of JoinEntry: waiters are not counted.
JoinUncounted(a, k) ==
    /\ at[a] = "idle"
    /\ table[k] # NoLock
    /\ mine' = [mine EXCEPT ![a] = table[k]]
    /\ at' = [at EXCEPT ![a] = "waiting"]
    /\ key' = [key EXCEPT ![a] = k]
    /\ UNCHANGED <<table, refs, owner>>

\* The entry exists: take a reference and wait for its mutex.
JoinEntry(a, k) ==
    /\ at[a] = "idle"
    /\ table[k] # NoLock
    /\ refs' = [refs EXCEPT ![table[k]] = @ + 1]
    /\ mine' = [mine EXCEPT ![a] = table[k]]
    /\ at' = [at EXCEPT ![a] = "waiting"]
    /\ key' = [key EXCEPT ![a] = k]
    /\ UNCHANGED <<table, owner>>

\* lock.mu.Lock() returns.
Acquire(a) ==
    /\ at[a] = "waiting"
    /\ owner[mine[a]] = Unlocked
    /\ owner' = [owner EXCEPT ![mine[a]] = a]
    /\ at' = [at EXCEPT ![a] = "holding"]
    /\ UNCHANGED <<table, refs, key, mine>>

\* Mutant of Unlock: the mutex is not released.
LeaveLocked(a) ==
    /\ at[a] = "holding"
    /\ at' = [at EXCEPT ![a] = "unlocked"]
    /\ UNCHANGED <<table, refs, owner, key, mine>>

\* First half of the returned unlock function: the mutex is free, the
\* reference is still counted.
Unlock(a) ==
    /\ at[a] = "holding"
    /\ owner' = [owner EXCEPT ![mine[a]] = Unlocked]
    /\ at' = [at EXCEPT ![a] = "unlocked"]
    /\ UNCHANGED <<table, refs, key, mine>>

\* Mutant of DropReference: the entry is removed although others still use it.
DropEntry(a) ==
    /\ at[a] = "unlocked"
    /\ refs' = [refs EXCEPT ![mine[a]] = @ - 1]
    /\ table' = [table EXCEPT ![key[a]] = NoLock]
    /\ at' = [at EXCEPT ![a] = "idle"]
    /\ mine' = [mine EXCEPT ![a] = NoLock]
    /\ UNCHANGED <<owner, key>>

\* Second half: drop the reference; the last user removes the entry under the
\* key it was called with.
DropReference(a) ==
    /\ at[a] = "unlocked"
    /\ refs' = [refs EXCEPT ![mine[a]] = @ - 1]
    /\ table' = IF refs[mine[a]] = 1 THEN [table EXCEPT ![key[a]] = NoLock] ELSE table
    /\ at' = [at EXCEPT ![a] = "idle"]
    /\ mine' = [mine EXCEPT ![a] = NoLock]
    /\ UNCHANGED <<owner, key>>

Call(a) == \E k \in Keys : CreateEntry(a, k) \/ JoinEntry(a, k)

LockNext == \E a \in Callers : Call(a) \/ Acquire(a) \/ Unlock(a) \/ DropReference(a)

LockSpec == LockInit /\ [][LockNext]_lockVars

(***************************************************************************)
(* Fairness: every caller releases what it takes (defer unlock()), and     *)
(* Go's sync.Mutex hands the lock to a waiter of more than a millisecond,  *)
(* so a caller cannot be overtaken for ever: strong fairness of Acquire.   *)
(***************************************************************************)
FairLockSpec ==
    LockSpec /\ \A a \in Callers : /\ SF_lockVars(Acquire(a))
                                    /\ WF_lockVars(Unlock(a))
                                    /\ WF_lockVars(DropReference(a))

-----------------------------------------------------------------------------
LockTypeOK ==
    /\ table \in [Keys -> Locks \union {NoLock}]
    /\ refs \in [Locks -> Nat]
    /\ owner \in [Locks -> Callers \union {Unlocked}]
    /\ at \in [Callers -> {"idle", "waiting", "holding", "unlocked"}]
    /\ key \in [Callers -> Keys]
    /\ mine \in [Callers -> Locks \union {NoLock}]

\* Two callers are never inside the lock of one session at the same time,
\* although the lock object behind a key is deleted and recreated: the
\* serialisation of cache writes with Unbind rests on it.
MutualExclusion ==
    \A a, b \in Callers :
        at[a] = "holding" /\ at[b] = "holding" /\ key[a] = key[b] => a = b

\* The table holds exactly the entries somebody uses ("removed when the last
\* caller releases them"): an idle session costs no memory, and no caller is
\* left waiting on a lock that newcomers cannot find.
NoLeakedEntry ==
    \A k \in Keys :
        (table[k] # NoLock) <=> (\E a \in Callers : at[a] # "idle" /\ key[a] = k)

\* Each caller inside LockSession, by key: the abstract mutex.
Holder == [k \in Keys |->
              IF \E a \in Callers : at[a] = "holding" /\ key[a] = k
              THEN CHOOSE a \in Callers : at[a] = "holding" /\ key[a] = k
              ELSE Unlocked]

Mutex == INSTANCE SessionMutex WITH holder <- Holder

\* The lock table implements one mutex per session.
ImplementsMutex == Mutex!Spec

\* Every caller of LockSession gets in: no lost wake-up through a lock object
\* that was dropped from the table.
EveryCallerEnters == \A a \in Callers : at[a] = "waiting" ~> at[a] = "holding"
=============================================================================
