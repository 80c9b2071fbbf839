---------------------------- MODULE SessionProofs ----------------------------
(***************************************************************************)
(* The two halves of the session subsystem.  The lock table of             *)
(* sessions/application is a mutex per session, for any number of          *)
(* sessions, callers and lock addresses.  The session cache is type        *)
(* correct, an Unbind is final and a main session stays visible, for any   *)
(* number of requests, users and providers, any timeout, and any           *)
(* interleaving of requests, worker, unbinds, expiry, failures, crashes.   *)
(* The two specifications share no variable: the cache uses what the lock  *)
(* table is proved to be, one owner per session (Free: none).              *)
(***************************************************************************)
EXTENDS SessionCache, SessionLock, FiniteSetTheorems, TLAPS

(***************************************************************************)
(* The lock table.                                                         *)
(***************************************************************************)

\* A caller has a lock pointer exactly while it is inside LockSession.
PointerIffActive == \A a \in Callers : at[a] = "idle" <=> mine[a] = NoLock

\* The pointer a caller kept is still the one the table gives to newcomers.
PointerIsRegistered == \A a \in Callers : at[a] # "idle" => table[key[a]] = mine[a]

\* Two keys never share a lock.
TableInjective ==
    \A k, m \in Keys : table[k] = table[m] /\ table[k] # NoLock => k = m

\* refs counts the users, waiters included.
RefsCountUsers == \A l \in Locks : refs[l] = Cardinality(UsersOf(l))

\* An entry that nobody uses has been removed.
EntryHasUser == \A k \in Keys : table[k] # NoLock => UsersOf(table[k]) # {}

\* The caller past Lock() owns the mutex.
HolderOwns == \A a \in Callers : at[a] = "holding" => owner[mine[a]] = a

IInv ==
    /\ LockTypeOK
    /\ PointerIffActive
    /\ PointerIsRegistered
    /\ TableInjective
    /\ RefsCountUsers
    /\ EntryHasUser
    /\ HolderOwns

-----------------------------------------------------------------------------
\* The users of a lock are a finite set, so its reference count is a number.
LEMMA UsersFinite ==
    \A l : IsFiniteSet(UsersOf(l)) /\ Cardinality(UsersOf(l)) \in Nat
  BY LockConstants, FS_Subset, FS_CardinalityType DEF UsersOf

\* Being a user of a lock is having its address.
LEMMA UsersByPointer ==
    ASSUME IInv, NEW l \in Locks
    PROVE  UsersOf(l) = {a \in Callers : mine[a] = l}
  BY LockConstants DEF IInv, PointerIffActive, UsersOf

LEMMA InitIInv == LockInit => IInv
<1> SUFFICES ASSUME LockInit PROVE IInv
  OBVIOUS
<1>1. \A l \in Locks : UsersOf(l) = {}
  BY DEF LockInit, UsersOf
<1>2. RefsCountUsers
  BY <1>1, FS_EmptySet DEF LockInit, RefsCountUsers
<1>3. QED
  BY <1>1, <1>2 DEF LockInit, IInv, LockTypeOK, PointerIffActive, PointerIsRegistered,
                    TableInjective, EntryHasUser, HolderOwns

\* Creating an entry: the new lock has one user, every other lock keeps its users.
LEMMA CreateStep ==
    ASSUME IInv, NEW a \in Callers, NEW k \in Keys, CreateEntry(a, k)
    PROVE  IInv'
<1>1. PICK l \in Locks :
        /\ Unreferenced(l)
        /\ table' = [table EXCEPT ![k] = l]
        /\ refs' = [refs EXCEPT ![l] = 1]
        /\ owner' = [owner EXCEPT ![l] = Unlocked]
        /\ mine' = [mine EXCEPT ![a] = l]
  BY DEF CreateEntry
<1>2. LockTypeOK'
  BY <1>1 DEF IInv, LockTypeOK, CreateEntry
<1>3. UsersOf(l)' = {a}
  BY <1>1, LockConstants DEF IInv, LockTypeOK, CreateEntry, UsersOf, Unreferenced
<1>4. \A m \in Locks \ {l} : UsersOf(m)' = UsersOf(m)
  BY <1>1 DEF IInv, LockTypeOK, PointerIffActive, CreateEntry, UsersOf
<1>5. RefsCountUsers'
  BY <1>1, <1>3, <1>4, FS_Singleton DEF IInv, LockTypeOK, RefsCountUsers
<1>6. EntryHasUser'
  BY <1>1, <1>3, <1>4, LockConstants DEF IInv, LockTypeOK, EntryHasUser, Unreferenced
<1>7. PointerIffActive'
  BY <1>1, LockConstants DEF IInv, LockTypeOK, PointerIffActive, CreateEntry
<1>8. PointerIsRegistered'
  <2> SUFFICES ASSUME NEW b \in Callers, at'[b] # "idle" PROVE table'[key'[b]] = mine'[b]
    BY DEF PointerIsRegistered
  <2>1. CASE b = a
    BY <2>1, <1>1 DEF IInv, LockTypeOK, CreateEntry
  <2>2. CASE b # a
    <3>1. table[key[b]] = mine[b] /\ mine[b] # NoLock
      BY <2>2 DEF IInv, LockTypeOK, PointerIsRegistered, PointerIffActive, CreateEntry
    <3>2. key[b] # k
      BY <3>1 DEF CreateEntry
    <3>3. QED
      BY <2>2, <3>1, <3>2, <1>1 DEF IInv, LockTypeOK, CreateEntry
  <2>3. QED
    BY <2>1, <2>2
<1>9. TableInjective'
  BY <1>1 DEF IInv, LockTypeOK, TableInjective, Unreferenced
<1>10. HolderOwns'
  BY <1>1 DEF IInv, LockTypeOK, HolderOwns, CreateEntry, UsersOf, Unreferenced
<1>11. QED
  BY <1>2, <1>5, <1>6, <1>7, <1>8, <1>9, <1>10 DEF IInv

\* Joining an entry adds one user to its lock.
LEMMA JoinStep ==
    ASSUME IInv, NEW a \in Callers, NEW k \in Keys, JoinEntry(a, k)
    PROVE  IInv'
<1> DEFINE l == table[k]
<1>1. l \in Locks
  BY DEF IInv, LockTypeOK, JoinEntry
<1>2. LockTypeOK'
  BY <1>1 DEF IInv, LockTypeOK, JoinEntry
<1>3. a \notin UsersOf(l) /\ UsersOf(l)' = UsersOf(l) \union {a}
  BY <1>1 DEF IInv, LockTypeOK, JoinEntry, UsersOf
<1>4. \A m \in Locks \ {l} : UsersOf(m)' = UsersOf(m)
  BY <1>1, LockConstants DEF IInv, LockTypeOK, PointerIffActive, JoinEntry, UsersOf
<1>5. Cardinality(UsersOf(l)') = Cardinality(UsersOf(l)) + 1
  BY <1>3, UsersFinite, FS_AddElement
<1>6. RefsCountUsers'
  BY <1>1, <1>4, <1>5 DEF IInv, LockTypeOK, RefsCountUsers, JoinEntry
<1>7. EntryHasUser'
  BY <1>1, <1>3, <1>4 DEF IInv, LockTypeOK, EntryHasUser, JoinEntry
<1>8. PointerIffActive' /\ PointerIsRegistered' /\ TableInjective' /\ HolderOwns'
  BY <1>1, LockConstants DEF IInv, LockTypeOK, PointerIffActive, PointerIsRegistered, TableInjective,
                 HolderOwns, JoinEntry
<1>9. QED
  BY <1>2, <1>6, <1>7, <1>8 DEF IInv

\* Acquire and Unlock leave the table, the pointers and the users alone.
LEMMA MutexStep ==
    ASSUME IInv, NEW a \in Callers, Acquire(a) \/ Unlock(a)
    PROVE  IInv'
<1>1. mine[a] \in Locks
  BY DEF IInv, LockTypeOK, PointerIffActive, Acquire, Unlock
<1>2. LockTypeOK'
  BY <1>1 DEF IInv, LockTypeOK, Acquire, Unlock
<1>3. \A l : UsersOf(l)' = UsersOf(l)
  BY DEF IInv, LockTypeOK, Acquire, Unlock, UsersOf
<1>4. RefsCountUsers' /\ EntryHasUser'
  BY <1>3 DEF IInv, RefsCountUsers, EntryHasUser, Acquire, Unlock
<1>5. PointerIffActive' /\ PointerIsRegistered' /\ TableInjective'
  BY DEF IInv, LockTypeOK, PointerIffActive, PointerIsRegistered, TableInjective, Acquire, Unlock
<1>6. HolderOwns'
  <2> SUFFICES ASSUME NEW b \in Callers, at'[b] = "holding" PROVE owner'[mine'[b]] = b
    BY DEF HolderOwns
  <2>1. mine'[b] = mine[b]
    BY DEF Acquire, Unlock
  <2>2. CASE b = a
    BY <2>1, <2>2, <1>1 DEF IInv, LockTypeOK, Acquire, Unlock
  <2>3. CASE b # a
    <3>1. at[b] = "holding" /\ owner[mine[b]] = b
      BY <2>3 DEF IInv, LockTypeOK, HolderOwns, Acquire, Unlock
    <3>2. mine[b] # mine[a]
      BY <2>3, <3>1, LockConstants DEF IInv, HolderOwns, Acquire, Unlock
    <3>3. QED
      BY <2>1, <3>1, <3>2 DEF IInv, LockTypeOK, PointerIffActive, Acquire, Unlock
  <2>4. QED
    BY <2>2, <2>3
<1>7. QED
  BY <1>2, <1>4, <1>5, <1>6 DEF IInv

\* Dropping a reference: the entry goes with its last user and only with it.
LEMMA DropStep ==
    ASSUME IInv, NEW a \in Callers, DropReference(a)
    PROVE  IInv'
<1>1. PICK l \in Locks : l = mine[a] /\ table[key[a]] = l /\ a \in UsersOf(l) /\ key[a] \in Keys
  BY DEF IInv, LockTypeOK, PointerIffActive, PointerIsRegistered, DropReference, UsersOf
<1>2. UsersOf(l)' = UsersOf(l) \ {a}
  BY <1>1, LockConstants DEF IInv, LockTypeOK, DropReference, UsersOf
<1>3. \A m \in Locks \ {l} : UsersOf(m)' = UsersOf(m)
  BY <1>1, LockConstants DEF IInv, LockTypeOK, DropReference, UsersOf
<1>4. Cardinality(UsersOf(l)') = Cardinality(UsersOf(l)) - 1
  BY <1>1, <1>2, UsersFinite, FS_RemoveElement
<1>5. Cardinality(UsersOf(l)') \in Nat
  BY <1>2, UsersFinite, FS_Subset, FS_CardinalityType
<1>6. LockTypeOK'
  BY <1>1, <1>4, <1>5 DEF IInv, LockTypeOK, RefsCountUsers, DropReference
<1>7. RefsCountUsers'
  BY <1>1, <1>3, <1>4 DEF IInv, LockTypeOK, RefsCountUsers, DropReference
<1>8. refs[l] = 1 <=> UsersOf(l)' = {}
  <2>1. Cardinality(UsersOf(l)') = 0 <=> UsersOf(l)' = {}
    BY <1>2, UsersFinite, FS_Subset, FS_EmptySet
  <2>2. QED
    BY <2>1, <1>1, <1>4, <1>5 DEF IInv, LockTypeOK, RefsCountUsers
<1>9. EntryHasUser'
  BY <1>1, <1>3, <1>8, LockConstants DEF IInv, LockTypeOK, EntryHasUser, TableInjective, DropReference
<1>10. PointerIsRegistered'
  <2> SUFFICES ASSUME NEW b \in Callers, at'[b] # "idle" PROVE table'[key'[b]] = mine'[b]
    BY DEF PointerIsRegistered
  <2>1. b # a /\ at[b] # "idle" /\ mine'[b] = mine[b] /\ key'[b] = key[b]
    BY DEF IInv, LockTypeOK, DropReference
  <2>2. table[key[b]] = mine[b]
    BY <2>1 DEF IInv, PointerIsRegistered
  <2>3. CASE refs[l] = 1
    <3>1. b \notin UsersOf(l)
      BY <2>1, <2>3, <1>2, <1>8
    <3>2. mine[b] # l
      BY <3>1, <2>1 DEF UsersOf
    <3>3. key[b] # key[a]
      BY <3>2, <2>2, <1>1
    <3>4. QED
      BY <2>1, <2>2, <2>3, <3>3 DEF IInv, LockTypeOK, DropReference
  <2>4. CASE refs[l] # 1
    BY <1>1, <2>1, <2>2, <2>4 DEF DropReference
  <2>5. QED
    BY <2>3, <2>4
<1>11. PointerIffActive' /\ TableInjective' /\ HolderOwns'
  BY <1>1, LockConstants DEF IInv, LockTypeOK, PointerIffActive, TableInjective, HolderOwns, DropReference
<1>12. QED
  BY <1>6, <1>7, <1>9, <1>10, <1>11 DEF IInv

LEMMA StepIInv == IInv /\ [LockNext]_lockVars => IInv'
<1> SUFFICES ASSUME IInv, [LockNext]_lockVars PROVE IInv'
  OBVIOUS
<1>1. ASSUME NEW a \in Callers, Call(a) PROVE IInv'
  BY <1>1, CreateStep, JoinStep DEF Call
<1>2. ASSUME NEW a \in Callers, Acquire(a) \/ Unlock(a) PROVE IInv'
  BY <1>2, MutexStep
<1>3. ASSUME NEW a \in Callers, DropReference(a) PROVE IInv'
  BY <1>3, DropStep
<1>4. CASE UNCHANGED lockVars
  BY <1>4 DEF lockVars, IInv, LockTypeOK, PointerIffActive, PointerIsRegistered, TableInjective,
              RefsCountUsers, EntryHasUser, HolderOwns, UsersOf
<1>5. QED
  BY <1>1, <1>2, <1>3, <1>4 DEF LockNext

LEMMA Invariant == LockSpec => []IInv
  BY InitIInv, StepIInv, PTL DEF LockSpec

-----------------------------------------------------------------------------
LEMMA IInvMutualExclusion == IInv => MutualExclusion
<1> SUFFICES ASSUME IInv, NEW a \in Callers, NEW b \in Callers,
                    at[a] = "holding", at[b] = "holding", key[a] = key[b]
             PROVE  a = b
  BY DEF MutualExclusion
<1>1. mine[a] = mine[b]
  BY DEF IInv, PointerIsRegistered
<1>2. QED
  BY <1>1 DEF IInv, HolderOwns

\* The table, refs, owners and callers keep their types.
THEOREM LockTypeCorrect == LockSpec => []LockTypeOK
<1>1. IInv => LockTypeOK
  BY DEF IInv
<1>2. QED
  BY <1>1, Invariant, PTL

\* LockSession: two goroutines are never inside the lock of one session.
THEOREM SessionsExclusive == LockSpec => []MutualExclusion
  BY IInvMutualExclusion, Invariant, PTL

\* LockSession: the table holds the locks in use and no other.
THEOREM NoLeak == LockSpec => []NoLeakedEntry
<1>1. IInv => NoLeakedEntry
  <2> SUFFICES ASSUME IInv, NEW k \in Keys
               PROVE  (table[k] # NoLock) <=> (\E a \in Callers : at[a] # "idle" /\ key[a] = k)
    BY DEF NoLeakedEntry
  <2>1. ASSUME table[k] # NoLock PROVE \E a \in Callers : at[a] # "idle" /\ key[a] = k
    <3>1. PICK a \in Callers : at[a] # "idle" /\ mine[a] = table[k]
      BY <2>1 DEF IInv, EntryHasUser, UsersOf
    <3>2. key[a] = k
      BY <2>1, <3>1 DEF IInv, LockTypeOK, PointerIsRegistered, TableInjective
    <3>3. QED
      BY <3>1, <3>2
  <2>2. ASSUME NEW a \in Callers, at[a] # "idle", key[a] = k PROVE table[k] # NoLock
    BY <2>2 DEF IInv, PointerIsRegistered, PointerIffActive
  <2>3. QED
    BY <2>1, <2>2
<1>2. QED
  BY <1>1, Invariant, PTL

-----------------------------------------------------------------------------
\* The mapped mutex: the caller past Lock() is its holder, and a key without
\* such a caller is free.
LEMMA HolderOf ==
    ASSUME MutualExclusion, NEW k \in Keys
    PROVE  /\ \A a \in Callers : at[a] = "holding" /\ key[a] = k => Holder[k] = a
           /\ (\A a \in Callers : ~(at[a] = "holding" /\ key[a] = k)) => Holder[k] = Unlocked
<1> DEFINE Inside(a) == at[a] = "holding" /\ key[a] = k
<1>1. Holder[k] = IF \E a \in Callers : Inside(a)
                  THEN CHOOSE a \in Callers : Inside(a) ELSE Unlocked
  BY DEF Holder
<1>2. ASSUME NEW a \in Callers, Inside(a) PROVE Holder[k] = a
  <2>1. PICK b \in Callers : Inside(b) /\ Holder[k] = b
    BY <1>1, <1>2
  <2>2. QED
    BY <1>2, <2>1 DEF MutualExclusion
<1>3. QED
  BY <1>1, <1>2

\* Steps outside the mutex leave every holder as it is.
LEMMA HolderStutters ==
    ASSUME \A a \in Callers : /\ (at[a] = "holding") <=> (at'[a] = "holding")
                              /\ at[a] = "holding" => key'[a] = key[a]
    PROVE  Holder' = Holder
<1>1. ASSUME NEW a \in Callers, NEW k \in Keys
      PROVE  (at'[a] = "holding" /\ key'[a] = k) <=> (at[a] = "holding" /\ key[a] = k)
  OBVIOUS
<1>2. QED
  BY <1>1 DEF Holder

\* Acquire is the abstract Acquire of the caller's key.
LEMMA AcquireMaps ==
    ASSUME IInv, IInv', NEW a \in Callers, Acquire(a)
    PROVE  Mutex!Acquire(a, key[a])
<1>1. key[a] \in Keys /\ key' = key /\ mine' = mine /\ at'[a] = "holding"
  BY DEF IInv, LockTypeOK, Acquire
<1>2. \A b \in Callers : b # a => (at'[b] = at[b])
  BY DEF IInv, LockTypeOK, Acquire
<1>3. MutualExclusion /\ MutualExclusion'
  <2>1. MutualExclusion
    BY IInvMutualExclusion
  <2>2. MutualExclusion'
    BY IInvMutualExclusion, PTL
  <2>3. QED
    BY <2>1, <2>2
<1>4. \A b \in Callers : ~(at[b] = "holding" /\ key[b] = key[a])
  <2> SUFFICES ASSUME NEW b \in Callers, at[b] = "holding", key[b] = key[a] PROVE FALSE
    OBVIOUS
  <2>1. mine[b] = mine[a]
    BY DEF IInv, PointerIsRegistered, Acquire
  <2>2. QED
    BY <2>1, LockConstants DEF IInv, HolderOwns, Acquire
<1>5. Holder[key[a]] = Unlocked
  BY <1>1, <1>3, <1>4, HolderOf
<1>6. ASSUME NEW k \in Keys PROVE Holder[k] # a
  <2>1. CASE \E b \in Callers : at[b] = "holding" /\ key[b] = k
    <3>1. PICK b \in Callers : at[b] = "holding" /\ key[b] = k
      BY <2>1
    <3>2. Holder[k] = b /\ b # a
      BY <3>1, <1>3, HolderOf DEF Acquire
    <3>3. QED
      BY <3>2
  <2>2. CASE ~ \E b \in Callers : at[b] = "holding" /\ key[b] = k
    BY <2>2, <1>3, HolderOf, LockConstants
  <2>3. QED
    BY <2>1, <2>2
<1>7. ASSUME NEW k \in Keys PROVE Holder'[k] = IF k = key[a] THEN a ELSE Holder[k]
  <2>1. CASE k = key[a]
    <3>1. \E b \in Callers : at'[b] = "holding" /\ key'[b] = k
      BY <2>1, <1>1
    <3>2. \A b \in Callers : at'[b] = "holding" /\ key'[b] = k => b = a
      BY <2>1, <1>1, <1>2, <1>4
    <3>3. QED
      BY <2>1, <3>1, <3>2 DEF Holder
  <2>2. CASE k # key[a]
    <3>1. \A b \in Callers : (at'[b] = "holding" /\ key'[b] = k) <=> (at[b] = "holding" /\ key[b] = k)
      BY <2>2, <1>1, <1>2 DEF Acquire
    <3>2. QED
      BY <2>2, <3>1 DEF Holder
  <2>3. QED
    BY <2>1, <2>2
<1>8. Holder' = [Holder EXCEPT ![key[a]] = a]
  BY <1>7 DEF Holder
<1>9. QED
  BY <1>5, <1>6, <1>8 DEF Mutex!Acquire

\* Unlock is the abstract Release of the caller's key.
LEMMA UnlockMaps ==
    ASSUME IInv, IInv', NEW a \in Callers, Unlock(a)
    PROVE  Mutex!Release(a, key[a])
<1>1. key[a] \in Keys /\ key' = key /\ at[a] = "holding" /\ at'[a] # "holding"
  BY DEF IInv, LockTypeOK, Unlock
<1>2. \A b \in Callers : b # a => (at'[b] = at[b])
  BY DEF IInv, LockTypeOK, Unlock
<1>3. MutualExclusion
  BY IInvMutualExclusion
<1>4. Holder[key[a]] = a
  BY <1>1, <1>3, HolderOf
<1>5. ASSUME NEW k \in Keys PROVE Holder'[k] = IF k = key[a] THEN Unlocked ELSE Holder[k]
  <2>1. CASE k = key[a]
    <3>1. \A b \in Callers : ~(at'[b] = "holding" /\ key'[b] = k)
      BY <2>1, <1>1, <1>2, <1>3 DEF MutualExclusion
    <3>2. QED
      BY <2>1, <3>1 DEF Holder
  <2>2. CASE k # key[a]
    <3>1. \A b \in Callers : (at'[b] = "holding" /\ key'[b] = k) <=> (at[b] = "holding" /\ key[b] = k)
      BY <2>2, <1>1, <1>2
    <3>2. QED
      BY <2>2, <3>1 DEF Holder
  <2>3. QED
    BY <2>1, <2>2
<1>6. Holder' = [Holder EXCEPT ![key[a]] = Unlocked]
  BY <1>5 DEF Holder
<1>7. QED
  BY <1>4, <1>6 DEF Mutex!Release

\* The reference-counted table implements one mutex per session: every step
\* of LockSession is an abstract acquire or release, or invisible.
THEOREM LockTableIsMutex == LockSpec => ImplementsMutex
<1>1. LockInit => Mutex!Init
  BY DEF LockInit, Mutex!Init, Holder
<1>2. IInv /\ IInv' /\ [LockNext]_lockVars => [Mutex!Next]_Holder
  <2> SUFFICES ASSUME IInv, IInv', [LockNext]_lockVars PROVE [Mutex!Next]_Holder
    OBVIOUS
  <2>1. ASSUME NEW a \in Callers, Call(a) PROVE Holder' = Holder
    <3>1. \A b \in Callers : /\ (at[b] = "holding") <=> (at'[b] = "holding")
                             /\ at[b] = "holding" => key'[b] = key[b]
      BY <2>1 DEF IInv, LockTypeOK, Call, CreateEntry, JoinEntry
    <3>2. QED
      BY <3>1, HolderStutters
  <2>2. ASSUME NEW a \in Callers, Acquire(a) PROVE Mutex!Next
    <3>1. key[a] \in Keys
      BY DEF IInv, LockTypeOK
    <3>2. QED
      BY <2>2, <3>1, AcquireMaps DEF Mutex!Next
  <2>3. ASSUME NEW a \in Callers, Unlock(a) PROVE Mutex!Next
    <3>1. key[a] \in Keys
      BY DEF IInv, LockTypeOK
    <3>2. QED
      BY <2>3, <3>1, UnlockMaps DEF Mutex!Next
  <2>4. ASSUME NEW a \in Callers, DropReference(a) PROVE Holder' = Holder
    <3>1. \A b \in Callers : /\ (at[b] = "holding") <=> (at'[b] = "holding")
                             /\ at[b] = "holding" => key'[b] = key[b]
      BY <2>4 DEF IInv, LockTypeOK, DropReference
    <3>2. QED
      BY <3>1, HolderStutters
  <2>5. CASE UNCHANGED lockVars
    BY <2>5 DEF lockVars, Holder
  <2>6. QED
    BY <2>1, <2>2, <2>3, <2>4, <2>5 DEF LockNext
<1>3. QED
  BY <1>1, <1>2, Invariant, PTL DEF LockSpec, ImplementsMutex, Mutex!Spec

(***************************************************************************)
(* The session cache, the row and the goroutines that use them.            *)
(***************************************************************************)

\* The steps that touch the cache produce well-formed entries.
LEMMA EntryTypes ==
    ASSUME TypeOK
    PROVE  /\ Generation \in Nat
           /\ Looked \in Entry \union {NoEntry}
           /\ Invalidated \in Entry
           /\ \A a \in Age : Older(a) \in Age
           /\ Old \in Age /\ 0 \in Age
<1>1. Old \in Age /\ 0 \in Age /\ \A a \in Age : Older(a) \in Age
  BY CacheConstants DEF Age, Old, Older
<1>2. Generation \in Nat
  BY DEF TypeOK, Generation, Entry
<1>3. ASSUME cache # NoEntry PROVE Cleared(cache) \in Entry
  BY <1>1, <1>3 DEF TypeOK, Entry, Name, Cleared
<1>4. Looked \in Entry \union {NoEntry}
  BY <1>3 DEF TypeOK, Looked
<1>5. Invalidated \in Entry
  <2>1. CASE cache = NoEntry
    BY <2>1, <1>1 DEF Invalidated, Entry, Name
  <2>2. CASE cache # NoEntry
    BY <2>2, <1>1, <1>3 DEF Invalidated, Entry
  <2>3. QED
    BY <2>1, <2>2
<1>6. QED
  BY <1>1, <1>2, <1>4, <1>5

LEMMA IdleType == Idle \in Locals
  BY DEF Idle, Locals, Name

\* What a database lookup leaves in a request's locals.
LEMMA ReadLocals ==
    ASSUME NEW local \in Locals
    PROVE  /\ \A failed \in BOOLEAN, read \in Name, by \in Requests \union {None} :
                [local EXCEPT !.failed = failed, !.read = read, !.by = by] \in Locals
           /\ [local EXCEPT !.failed = FALSE, !.read = None, !.by = None, !.generation = 0] \in Locals
<1>1. ASSUME NEW failed \in BOOLEAN, NEW read \in Name, NEW by \in Requests \union {None}
      PROVE  [local EXCEPT !.failed = failed, !.read = read, !.by = by] \in Locals
  BY DEF Locals
<1>2. None \in Name /\ None \in Requests \union {None}
  BY DEF Name
<1>3. [local EXCEPT !.failed = FALSE, !.read = None, !.by = None, !.generation = 0] \in Locals
  BY <1>2 DEF Locals
<1>4. QED
  BY <1>1, <1>3

LEMMA InitTypeOK == Init => TypeOK
  BY IdleType DEF Init, TypeOK, Labels

\* Routing a request to a binding keeps its locals well-formed.
LEMMA FromEntryType ==
    ASSUME TypeOK, NEW r \in Requests, NEW local \in Locals, FromEntry(r, local)
    PROVE  pc' \in [Actors -> Labels] /\ req' \in [Actors -> Locals]
<1>1. cache # NoEntry => cache.provider \in Name
  BY DEF TypeOK, Entry
<1>2. ASSUME Live
      PROVE  [local EXCEPT !.provider = cache.provider, !.generation = Generation, !.bound = TRUE]
               \in Locals
  BY <1>1, <1>2, EntryTypes DEF Live, Locals
<1>3. QED
  BY <1>2 DEF TypeOK, FromEntry, Resolve, Goto, Actors, Labels

LEMMA StepTypeOK == TypeOK /\ [Next]_vars => TypeOK'
<1> SUFFICES ASSUME TypeOK, [Next]_vars PROVE TypeOK'
  OBVIOUS
<1> USE CacheConstants
<1>a. \A r \in Requests : r \in Actors
  BY DEF Actors
<1>b. Worker \in Actors /\ \A u \in Users : u \in Actors
  BY DEF Actors
<1>1. ASSUME NEW r \in Requests, Arrive(r) PROVE TypeOK'
  <2>1. PICK background \in BOOLEAN :
          LET local == [Idle EXCEPT !.background = background] IN
          IF Live THEN FromEntry(r, local)
          ELSE Goto(r, "lookup") /\ req' = [req EXCEPT ![r] = local]
    BY <1>1 DEF Arrive
  <2>2. PICK local \in Locals :
          IF Live THEN FromEntry(r, local)
          ELSE Goto(r, "lookup") /\ req' = [req EXCEPT ![r] = local]
    BY <2>1, IdleType DEF Locals
  <2>3. pc' \in [Actors -> Labels] /\ req' \in [Actors -> Locals]
    BY <1>a, <2>2, FromEntryType DEF TypeOK, Goto, Labels
  <2>4. QED
    BY <1>1, <2>3, EntryTypes DEF Arrive, TypeOK
<1>2. ASSUME NEW r \in Requests, LookAgain(r) PROVE TypeOK'
  <2>1. req[r] \in Locals /\ [req[r] EXCEPT !.generation = Generation] \in Locals
    BY <1>a, EntryTypes DEF TypeOK, Locals
  <2>2. pc' \in [Actors -> Labels] /\ req' \in [Actors -> Locals]
    BY <1>2, <1>a, <2>1, FromEntryType DEF LookAgain, TypeOK, Goto, Labels
  <2>3. QED
    BY <1>2, <1>a, <2>2, EntryTypes DEF LookAgain, TypeOK
<1>3. ASSUME NEW r \in Requests, ReadRow(r) PROVE TypeOK'
  <2>1. PICK failed \in BOOLEAN, read \in Name, by \in Requests \union {None} :
          req' = [req EXCEPT ![r].failed = failed, ![r].read = read, ![r].by = by]
    BY <1>3 DEF ReadRow, TypeOK, Fails, Row, Name
  <2>2. [req[r] EXCEPT !.failed = failed, !.read = read, !.by = by] \in Locals
    <3>1. req[r] \in Locals
      BY <1>a DEF TypeOK
    <3>2. QED
      BY <3>1, ReadLocals
  <2>3. req' \in [Actors -> Locals]
    BY <2>1, <2>2, <1>a DEF TypeOK
  <2>4. QED
    BY <1>3, <1>a, <2>3 DEF ReadRow, TypeOK, Goto, Labels
<1>4. ASSUME NEW r \in Requests, PublishRead(r) PROVE TypeOK'
  <2>1. PICK local \in Locals :
          local = [req[r] EXCEPT !.failed = FALSE, !.read = None, !.by = None, !.generation = 0]
    <3>1. req[r] \in Locals
      BY <1>a DEF TypeOK
    <3>2. QED
      BY <3>1, ReadLocals
  <2>2. \/ cache' = Looked /\ FromEntry(r, local)
        \/ cache' = Looked /\ Goto(r, "default") /\ req' = [req EXCEPT ![r] = local]
        \/ /\ cache' = Published(req[r].read, Old, req[r].generation, req[r].by)
           /\ Resolve(r, req[r].read, req[r].generation, local)
    BY <1>4, <2>1 DEF PublishRead
  <2>3. CASE cache' = Looked /\ FromEntry(r, local)
    BY <2>3, <1>4, EntryTypes, FromEntryType DEF PublishRead, TypeOK
  <2>4. CASE cache' = Looked /\ Goto(r, "default") /\ req' = [req EXCEPT ![r] = local]
    BY <2>4, <1>4, <1>a, EntryTypes DEF PublishRead, TypeOK, Goto, Labels
  <2>5. CASE /\ cache' = Published(req[r].read, Old, req[r].generation, req[r].by)
             /\ Resolve(r, req[r].read, req[r].generation, local)
    <3>1. cache' \in Entry
      BY <1>a, <2>5, EntryTypes DEF TypeOK, Published, Entry, Locals
    <3>2. [local EXCEPT !.provider = req[r].read, !.generation = req[r].generation, !.bound = TRUE]
            \in Locals
      BY <1>a DEF TypeOK, Locals
    <3>3. pc' \in [Actors -> Labels] /\ req' \in [Actors -> Locals]
      BY <1>a, <2>5, <3>2 DEF TypeOK, Resolve, Goto, Labels
    <3>4. QED
      BY <1>4, <1>a, <3>1, <3>3 DEF PublishRead, TypeOK
  <2>6. QED
    BY <2>2, <2>3, <2>4, <2>5
<1>5. ASSUME NEW r \in Requests, InvalidateDirectly(r) PROVE TypeOK'
  BY <1>5, <1>a, EntryTypes DEF InvalidateDirectly, TypeOK, Goto, Labels
<1>6. ASSUME NEW r \in Requests, RouteToDefault(r) PROVE TypeOK'
  <2>1. ASSUME NEW p \in Providers, Goto(r, "forward"),
               req' = [req EXCEPT ![r].provider = p, ![r].generation = Generation]
        PROVE  pc' \in [Actors -> Labels] /\ req' \in [Actors -> Locals]
    <3>1. req' = [req EXCEPT ![r] = [req[r] EXCEPT !.provider = p, !.generation = Generation]]
      BY <2>1, <1>a DEF TypeOK
    <3>2. req[r] \in Locals /\ p \in Name /\ Generation \in Nat
      BY <1>a, EntryTypes DEF TypeOK, Name
    <3>3. [req[r] EXCEPT !.provider = p, !.generation = Generation] \in Locals
      BY <3>2 DEF Locals
    <3>4. QED
      BY <2>1, <1>a, <3>1, <3>3 DEF TypeOK, Goto, Labels
  <2>2. ASSUME Finish(r) PROVE pc' \in [Actors -> Labels] /\ req' \in [Actors -> Locals]
    BY <2>2, <1>a, IdleType DEF TypeOK, Goto, Finish, Labels
  <2>3. QED
    BY <1>6, <2>1, <2>2 DEF RouteToDefault, TypeOK
<1>7. ASSUME NEW r \in Requests, ForwardFails(r) PROVE TypeOK'
  BY <1>7, <1>a, IdleType DEF ForwardFails, TypeOK, Goto, Finish, Labels
<1>8. ASSUME NEW r \in Requests, BindCheck(r) PROVE TypeOK'
  BY <1>8, <1>a DEF BindCheck, TypeOK, Goto, AfterSuccess, Labels
<1>9. ASSUME NEW r \in Requests, BindRow(r) PROVE TypeOK'
  <2>1. [provider |-> req[r].provider, success |-> 0,
         hidden |-> IF row # NoRow THEN row.hidden ELSE IF Codex THEN "unclassified" ELSE "main",
         by |-> r] \in Row
    BY <1>a, EntryTypes DEF TypeOK, Row, Visibility, Locals
  <2>2. row' \in Row \union {NoRow}
    BY <1>9, <2>1 DEF BindRow, TypeOK
  <2>3. QED
    BY <1>9, <1>a, <2>2, IdleType DEF BindRow, TypeOK, Goto, Finish, Labels
<1>10. ASSUME NEW r \in Requests, PublishBind(r) PROVE TypeOK'
  <2>1. Published(req[r].provider, 0, req[r].generation, r) \in Entry
    BY <1>a, EntryTypes DEF TypeOK, Published, Entry, Locals
  <2>2. QED
    BY <1>10, <1>a, <2>1 DEF PublishBind, TypeOK, Goto, AfterSuccess, Labels
<1>11. ASSUME NEW r \in Requests, RecordSuccess(r) PROVE TypeOK'
  <2>1. CASE Finish(r) /\ UNCHANGED cache
    BY <1>11, <1>a, <2>1, IdleType DEF RecordSuccess, TypeOK, Goto, Finish, Labels
  <2>2. CASE ~(Finish(r) /\ UNCHANGED cache)
    <3>1. PICK persisted \in Age, pending \in Age, due \in BOOLEAN :
            /\ cache' = [provider |-> req[r].provider, success |-> 0, persisted |-> persisted,
                         pending |-> pending, generation |-> Generation, by |-> r]
            /\ req' = [req EXCEPT ![r].persist = due]
      BY <1>11, <2>2, EntryTypes DEF RecordSuccess, TypeOK, Entry
    <3>2. [req[r] EXCEPT !.persist = due] \in Locals
      BY <1>a DEF TypeOK, Locals
    <3>3. cache' \in Entry
      BY <1>a, <3>1, EntryTypes DEF TypeOK, Entry, Locals
    <3>4. AfterSuccess(r)
      BY <1>11, <2>2 DEF RecordSuccess
    <3>5. QED
      BY <1>11, <1>a, <3>1, <3>2, <3>3, <3>4 DEF RecordSuccess, TypeOK, Goto, AfterSuccess, Labels
  <2>3. QED
    BY <2>1, <2>2
<1>12. ASSUME NEW r \in Requests, RecordVisibility(r) PROVE TypeOK'
  <2>1. row' \in Row \union {NoRow}
    BY <1>12 DEF RecordVisibility, TypeOK, Row, Visibility
  <2>2. QED
    BY <1>12, <1>a, <2>1 DEF RecordVisibility, TypeOK, Goto, Labels
<1>13. ASSUME NEW r \in Requests, Enqueue(r) PROVE TypeOK'
  <2>1. req[r].generation \in Nat
    BY <1>a DEF TypeOK, Locals
  <2>2. queue' \in Seq(Nat)
    BY <1>13, <2>1 DEF Enqueue, TypeOK
  <2>3. QED
    BY <1>13, <1>a, <2>2, IdleType DEF Enqueue, TypeOK, Goto, Finish, Labels
<1>14. CASE TakeUpdate
  <2>1. Head(queue) \in Nat /\ Tail(queue) \in Seq(Nat)
    BY <1>14 DEF TakeUpdate, TypeOK
  <2>2. [req[Worker] EXCEPT !.generation = Head(queue)] \in Locals
    BY <1>b, <2>1 DEF TypeOK, Locals
  <2>3. QED
    BY <1>14, <1>b, <2>1, <2>2 DEF TakeUpdate, TypeOK, Goto, Labels
<1>15. ASSUME NEW a \in Actors, UpdateCheck(a) PROVE TypeOK'
  BY <1>15, IdleType DEF UpdateCheck, TypeOK, Goto, Finish, Labels
<1>16. ASSUME NEW a \in Actors, UpdateRow(a) PROVE TypeOK'
  <2>1. PICK failed \in BOOLEAN :
          /\ row' = IF failed \/ row = NoRow THEN row ELSE [row EXCEPT !.success = 0]
          /\ req' = [req EXCEPT ![a].failed = failed]
    BY <1>16 DEF UpdateRow, Fails
  <2>2. row' \in Row \union {NoRow}
    BY <2>1, EntryTypes DEF TypeOK, Row
  <2>3. [req[a] EXCEPT !.failed = failed] \in Locals
    BY DEF TypeOK, Locals
  <2>4. QED
    BY <1>16, <2>1, <2>2, <2>3 DEF UpdateRow, TypeOK, Goto, Labels
<1>17. ASSUME NEW a \in Actors, PublishUpdate(a) PROVE TypeOK'
  <2>1. cache' \in Entry \union {NoEntry}
    BY <1>17, EntryTypes DEF PublishUpdate, TypeOK, Entry
  <2>2. QED
    BY <1>17, <2>1, IdleType DEF PublishUpdate, TypeOK, Goto, Finish, Labels
<1>18. ASSUME NEW a \in Actors, UnbindRow(a) PROVE TypeOK'
  BY <1>18 DEF UnbindRow, TypeOK, Goto, Labels, Routed
<1>19. ASSUME NEW a \in Actors, UnbindCache(a) PROVE TypeOK'
  BY <1>19, EntryTypes DEF UnbindCache, TypeOK, Goto, Labels
<1>20. CASE CleanExpired \/ Evict
  BY <1>20 DEF CleanExpired, Evict, TypeOK
<1>21. CASE Tick
  <2>1. cache' \in Entry \union {NoEntry}
    BY <1>21, EntryTypes DEF Tick, TypeOK, Entry
  <2>2. row' \in Row \union {NoRow}
    BY <1>21, EntryTypes DEF Tick, TypeOK, Row
  <2>3. QED
    BY <1>21, <2>1, <2>2 DEF Tick, TypeOK
<1>22. CASE Restart
  BY <1>22, IdleType DEF Restart, TypeOK, Labels
<1>23. CASE UNCHANGED vars
  BY <1>23 DEF vars, TypeOK
<1>24. QED
  BY <1>1, <1>2, <1>3, <1>4, <1>5, <1>6, <1>7, <1>8, <1>9, <1>10, <1>11, <1>12, <1>13, <1>14, <1>15,
     <1>16, <1>17, <1>18, <1>19, <1>20, <1>21, <1>22, <1>23, <1>a, <1>b
     DEF Next, Request, Update, Unbind, Environment

\* The cache entry, the row, the lock, the queue and every goroutine's locals
\* keep their types.
THEOREM TypeCorrect == Spec => []TypeOK
  BY InitTypeOK, StepTypeOK, PTL DEF Spec

-----------------------------------------------------------------------------
(* An unbind is final, as long as the LRU does not forget the generation.  *)

\* Steps taken while holding the session lock.
Critical == {"read", "publish_read", "bind", "publish_bind", "update_row", "publish_update",
             "clear_cache"}

\* An Unbind has deleted the row and not yet invalidated the cache.
Unbinding == \E a \in Actors : pc[a] = "clear_cache"

LockInv == \A a \in Actors : pc[a] \in Critical => lock = a

\* Generations only grow: a request never holds one from the future.
GenInv == \A r \in Requests : pc[r] = "forward" => req[r].generation <= Generation

\* A request routed before the latest unbind is out of date, or is about to
\* be when that unbind gets to the cache; it is not inside a write.
StaleInv ==
    \A r \in stale :
        /\ pc[r] \notin {"read", "publish_read", "bind", "publish_bind"}
        /\ pc[r] = "forward" => req[r].generation < Generation \/ Unbinding

EntryBy == cache # NoEntry /\ ~Unbinding => cache.by \notin stale
ReadBy == \A r \in Requests : pc[r] = "publish_read" => req[r].by \notin stale

UnbindInv == LockInv /\ GenInv /\ StaleInv /\ EntryBy /\ NoResurrectedRow /\ ReadBy

\* What the cache updates do to the generation and to the ghost.
LEMMA CacheUpdates ==
    ASSUME TypeOK
    PROVE  /\ cache' = Looked =>
                 /\ Generation' = Generation
                 /\ (cache' # NoEntry => cache # NoEntry /\ cache'.by \in {cache.by, None})
           /\ cache' = Invalidated =>
                 Generation' \in Nat /\ Generation' > Generation /\ cache'.by = None
<1>1. ASSUME cache' = Looked
      PROVE  /\ Generation' = Generation
             /\ (cache' # NoEntry => cache # NoEntry /\ cache'.by \in {cache.by, None})
  <2>1. CASE cache # NoEntry /\ ~Live
    <3>1. cache' = Cleared(cache) /\ cache \in Entry
      BY <1>1, <2>1 DEF Looked, TypeOK
    <3>2. cache'.generation = cache.generation /\ cache'.by = None
      BY <3>1 DEF Cleared, Entry
    <3>3. cache' \in Entry
      BY <1>1, <2>1, <3>1, EntryTypes, CacheConstants DEF Cleared, Entry, Name
    <3>4. QED
      BY <2>1, <3>2, <3>3, CacheConstants DEF Generation
  <2>2. CASE ~(cache # NoEntry /\ ~Live)
    BY <1>1, <2>2 DEF Looked, Generation
  <2>3. QED
    BY <2>1, <2>2
<1>2. ASSUME cache' = Invalidated
      PROVE  Generation' \in Nat /\ Generation' > Generation /\ cache'.by = None
  <2>1. cache' \in Entry /\ cache' # NoEntry
    BY <1>2, EntryTypes, CacheConstants
  <2>2. CASE cache = NoEntry
    BY <1>2, <2>1, <2>2 DEF Invalidated, Generation, Entry
  <2>3. CASE cache # NoEntry
    BY <1>2, <2>1, <2>3 DEF Invalidated, Generation, Entry, Cleared, TypeOK
  <2>4. QED
    BY <2>2, <2>3
<1>3. QED
  BY <1>1, <1>2

LEMMA InitUnbindInv == Init => UnbindInv
<1>1. ASSUME Init PROVE \A a \in Actors : pc[a] = "idle"
  BY <1>1 DEF Init
<1>2. \A r \in Requests : r \in Actors
  BY DEF Actors
<1>3. QED
  BY <1>1, <1>2 DEF Init, UnbindInv, LockInv, GenInv, StaleInv, EntryBy, NoResurrectedRow, ReadBy, Critical

\* The shape of a step of one goroutine that starts or ends no unbind: the
\* others keep their place, and the unbinds in progress stay the same.
LEMMA OneMoves ==
    ASSUME TypeOK, NEW a \in Actors, NEW label,
           pc' = [pc EXCEPT ![a] = label], pc[a] # "clear_cache", label # "clear_cache"
    PROVE  /\ Unbinding' <=> Unbinding
           /\ pc'[a] = label
           /\ \A b \in Actors : b # a => pc'[b] = pc[b]
<1>1. pc'[a] = label /\ \A b \in Actors : b # a => pc'[b] = pc[b]
  BY DEF TypeOK
<1>2. QED
  BY <1>1 DEF Unbinding

\* Taking a binding from the cache, or finding none there.
LEMMA FromEntryStep ==
    ASSUME TypeOK, NEW r \in Requests, NEW local \in Locals, FromEntry(r, local)
    PROVE  /\ \/ pc' = [pc EXCEPT ![r] = "forward"] /\ req'[r].generation = Generation
              \/ pc' = [pc EXCEPT ![r] = "invalidate"]
              \/ pc' = [pc EXCEPT ![r] = "default"]
           /\ \A b \in Actors : b # r => req'[b] = req[b]
<1>1. ASSUME NEW new, req' = [req EXCEPT ![r] = new]
      PROVE  req'[r] = new /\ \A b \in Actors : b # r => req'[b] = req[b]
  BY <1>1 DEF TypeOK, Actors
<1>2. [local EXCEPT !.provider = cache.provider, !.generation = Generation, !.bound = TRUE].generation
        = Generation
  BY DEF Locals
<1>3. QED
  BY <1>1, <1>2 DEF FromEntry, Resolve, Goto

\* A step of goroutine a to a label, that neither starts nor ends an unbind,
\* and what it must show of the goroutine that moves.
Moves(a, label) ==
    /\ pc' = [pc EXCEPT ![a] = label]
    /\ pc[a] # "clear_cache" /\ label # "clear_cache"
    /\ \A b \in Actors : b # a => req'[b] = req[b]
    /\ \/ lock' = lock /\ (label \in Critical => pc[a] \in Critical)
       \/ lock = Free /\ lock' = a
       \/ pc[a] \in Critical /\ lock' = Free /\ label \notin Critical

Justified(a, label) ==
    /\ stale' \in {stale, stale \ {a}}
    /\ Generation' \in Nat /\ Generation <= Generation'
    /\ a \in Requests /\ label = "forward" => req'[a].generation <= Generation'
    /\ a \in stale' =>
         /\ label \notin {"read", "publish_read", "bind", "publish_bind"}
         /\ label = "forward" => req'[a].generation < Generation' \/ Unbinding
    /\ label = "publish_read" => req'[a].by \notin stale'
    /\ row' # NoRow => row'.by \notin stale'
    /\ cache' # NoEntry /\ ~Unbinding => cache'.by \notin stale'

\* Such a step keeps the invariant.
LEMMA UnbindInvFrame ==
    ASSUME TypeOK, UnbindInv, NEW a \in Actors, NEW label, Moves(a, label), Justified(a, label)
    PROVE  UnbindInv'
<1> USE DEF Moves, Justified
<1>1. /\ Unbinding' <=> Unbinding
      /\ pc'[a] = label
      /\ \A b \in Actors : b # a => pc'[b] = pc[b]
  BY OneMoves
<1>2. \A r \in Requests : r \in Actors
  BY DEF Actors
<1>3. Free \notin Actors
  BY CacheConstants
<1>4. LockInv'
  <2> SUFFICES ASSUME NEW b \in Actors, pc'[b] \in Critical PROVE lock' = b
    BY DEF LockInv
  <2>1. CASE b = a
    BY <2>1, <1>1, <1>3 DEF UnbindInv, LockInv
  <2>2. CASE b # a
    <3>1. lock = b
      BY <2>2, <1>1 DEF UnbindInv, LockInv
    <3>2. QED
      BY <3>1, <2>2, <1>3 DEF UnbindInv, LockInv
  <2>3. QED
    BY <2>1, <2>2
<1>5. GenInv'
  <2> SUFFICES ASSUME NEW r \in Requests, pc'[r] = "forward"
               PROVE  req'[r].generation <= Generation'
    BY DEF GenInv
  <2>1. CASE r = a
    BY <2>1, <1>1
  <2>2. CASE r # a
    <3>1. req'[r] = req[r] /\ req[r].generation <= Generation
      BY <2>2, <1>1, <1>2 DEF UnbindInv, GenInv
    <3>2. req[r].generation \in Nat /\ Generation \in Nat
      BY <1>2, EntryTypes DEF TypeOK, Locals
    <3>3. QED
      BY <3>1, <3>2
  <2>3. QED
    BY <2>1, <2>2
<1>6. StaleInv'
  <2> SUFFICES ASSUME NEW r \in stale'
               PROVE  /\ pc'[r] \notin {"read", "publish_read", "bind", "publish_bind"}
                      /\ pc'[r] = "forward" => req'[r].generation < Generation' \/ Unbinding'
    BY DEF StaleInv
  <2>0. r \in Requests /\ r \in Actors /\ r \in stale
    BY <1>2 DEF TypeOK
  <2>1. CASE r = a
    BY <2>1, <1>1
  <2>2. CASE r # a
    <3>1. req'[r] = req[r] /\ pc'[r] = pc[r]
      BY <2>0, <2>2, <1>1
    <3>2. req[r].generation \in Nat /\ Generation \in Nat
      BY <2>0, EntryTypes DEF TypeOK, Locals
    <3>3. QED
      BY <3>1, <3>2, <2>0, <1>1 DEF UnbindInv, StaleInv
  <2>3. QED
    BY <2>1, <2>2
<1>7. ReadBy'
  <2> SUFFICES ASSUME NEW r \in Requests, pc'[r] = "publish_read" PROVE req'[r].by \notin stale'
    BY DEF ReadBy
  <2>1. CASE r = a
    BY <2>1, <1>1
  <2>2. CASE r # a
    BY <2>2, <1>1, <1>2 DEF UnbindInv, ReadBy
  <2>3. QED
    BY <2>1, <2>2
<1>8. EntryBy' /\ NoResurrectedRow'
  BY <1>1 DEF EntryBy, NoResurrectedRow
<1>9. QED
  BY <1>4, <1>5, <1>6, <1>7, <1>8 DEF UnbindInv

\* Looking a binding up: Arrive, LookAgain, ReadRow and PublishRead.
LEMMA LookupSteps ==
    ASSUME TypeOK, UnbindInv, NEW r \in Requests,
           Arrive(r) \/ LookAgain(r) \/ ReadRow(r) \/ PublishRead(r)
    PROVE  UnbindInv'
<1>a. r \in Actors /\ Generation \in Nat /\ req[r] \in Locals /\ stale \subseteq Requests
  BY EntryTypes DEF Actors, TypeOK
<1>b. None \notin stale /\ (row # NoRow => row.by \notin stale)
      /\ (cache # NoEntry /\ ~Unbinding => cache.by \notin stale)
  BY <1>a, CacheConstants DEF UnbindInv, EntryBy, NoResurrectedRow
<1>c. cache' = Looked => /\ Generation' = Generation
                         /\ (cache' # NoEntry /\ ~Unbinding => cache'.by \notin stale)
  BY CacheUpdates, <1>b
<1>1. CASE Arrive(r)
  <2>1. PICK local \in Locals :
          IF Live THEN FromEntry(r, local)
          ELSE Goto(r, "lookup") /\ req' = [req EXCEPT ![r] = local]
    <3>1. PICK background \in BOOLEAN :
            LET l == [Idle EXCEPT !.background = background] IN
            IF Live THEN FromEntry(r, l)
            ELSE Goto(r, "lookup") /\ req' = [req EXCEPT ![r] = l]
      BY <1>1 DEF Arrive
    <3>2. [Idle EXCEPT !.background = background] \in Locals
      BY IdleType DEF Locals
    <3>3. QED
      BY <3>1, <3>2
  <2>2. \A b \in Actors : b # r => req'[b] = req[b]
    BY <2>1, <1>a, FromEntryStep DEF TypeOK
  <2>3. PICK label \in {"forward", "invalidate", "default", "lookup"} :
          /\ pc' = [pc EXCEPT ![r] = label]
          /\ label = "forward" => req'[r].generation = Generation
    BY <2>1, FromEntryStep DEF Goto
  <2>4. Moves(r, label)
    BY <1>1, <2>2, <2>3 DEF Moves, Arrive, Critical
  <2>5. Justified(r, label)
    BY <1>1, <1>a, <1>b, <1>c, <2>3 DEF Justified, Arrive
  <2>6. QED
    BY <1>a, <2>4, <2>5, UnbindInvFrame
<1>2. CASE LookAgain(r)
  <2>1. PICK label \in {"forward", "invalidate", "default", "read"} :
          /\ pc' = [pc EXCEPT ![r] = label]
          /\ label = "forward" => req'[r].generation = Generation
          /\ lock' = IF label = "read" THEN r ELSE lock
    BY <1>2, <1>a, FromEntryStep DEF LookAgain, Goto
  <2>2. \A b \in Actors : b # r => req'[b] = req[b]
    BY <1>2, <1>a, FromEntryStep DEF LookAgain, TypeOK
  <2>3. Moves(r, label)
    BY <1>2, <2>1, <2>2 DEF Moves, LookAgain, Critical
  <2>4. Justified(r, label)
    BY <1>2, <1>a, <1>b, <1>c, <2>1 DEF Justified, LookAgain
  <2>5. QED
    BY <1>a, <2>3, <2>4, UnbindInvFrame
<1>3. CASE ReadRow(r)
  <2>1. PICK failed \in BOOLEAN, read \in Name, author \in Requests \union {None} :
          /\ req' = [req EXCEPT ![r].failed = failed, ![r].read = read, ![r].by = author]
          /\ author = None \/ (row # NoRow /\ author = row.by)
    BY <1>3 DEF ReadRow, TypeOK, Fails, Row, Name
  <2>2. req'[r].by = author /\ \A b \in Actors : b # r => req'[b] = req[b]
    <3>1. req' = [req EXCEPT ![r] =
                    [req[r] EXCEPT !.failed = failed, !.read = read, !.by = author]]
      BY <2>1, <1>a DEF TypeOK
    <3>2. QED
      BY <3>1, <1>a DEF TypeOK, Locals
  <2>3. pc' = [pc EXCEPT ![r] = "publish_read"] /\ row' \in {row, NoRow}
    BY <1>3 DEF ReadRow, Goto
  <2>4. r \notin stale /\ Generation' = Generation
    BY <1>3 DEF UnbindInv, StaleInv, ReadRow, Generation
  <2>5. Moves(r, "publish_read")
    BY <1>3, <2>2, <2>3 DEF Moves, ReadRow, Critical
  <2>6. Justified(r, "publish_read")
    <3>1. UNCHANGED stale /\ UNCHANGED cache
      BY <1>3 DEF ReadRow
    <3>2. author \notin stale /\ (row' # NoRow => row'.by \notin stale)
      BY <1>b, <2>1, <2>3
    <3>3. QED
      BY <1>a, <1>b, <2>2, <2>4, <3>1, <3>2 DEF Justified
  <2>7. QED
    BY <1>a, <2>5, <2>6, UnbindInvFrame
<1>4. CASE PublishRead(r)
  <2>1. PICK local \in Locals :
          local = [req[r] EXCEPT !.failed = FALSE, !.read = None, !.by = None, !.generation = 0]
    BY <1>a, CacheConstants DEF Locals, Name
  <2>2. r \notin stale /\ req[r].by \notin stale
    BY <1>4, <1>a DEF UnbindInv, StaleInv, ReadBy, PublishRead
  <2>3. CASE /\ cache' = Looked
             /\ \/ FromEntry(r, local)
                \/ Goto(r, "default") /\ req' = [req EXCEPT ![r] = local]
    <3>1. PICK label \in {"forward", "invalidate", "default"} :
            /\ pc' = [pc EXCEPT ![r] = label]
            /\ label = "forward" => req'[r].generation = Generation
      BY <2>3, FromEntryStep DEF Goto
    <3>2. \A b \in Actors : b # r => req'[b] = req[b]
      BY <2>3, <1>a, FromEntryStep DEF TypeOK
    <3>3. Moves(r, label)
      BY <1>4, <3>1, <3>2 DEF Moves, PublishRead, Critical
    <3>4. Justified(r, label)
      BY <1>4, <1>a, <1>b, <1>c, <2>2, <2>3, <3>1 DEF Justified, PublishRead
    <3>5. QED
      BY <1>a, <3>3, <3>4, UnbindInvFrame
  <2>4. CASE /\ Generation = req[r].generation
             /\ cache' = Published(req[r].read, Old, req[r].generation, req[r].by)
             /\ Resolve(r, req[r].read, req[r].generation, local)
    <3>1. cache'.by = req[r].by /\ cache'.generation = req[r].generation
      BY <2>4 DEF Published
    <3>2. cache' \in Entry
      BY <1>a, <2>4, EntryTypes DEF Published, Entry, Locals
    <3>3. Generation' = Generation
      BY <2>4, <3>1, <3>2, CacheConstants DEF Generation
    <3>4. [local EXCEPT !.provider = req[r].read, !.generation = req[r].generation,
                        !.bound = TRUE].generation = req[r].generation
      BY DEF Locals
    <3>5. PICK label \in {"forward", "invalidate"} :
            /\ pc' = [pc EXCEPT ![r] = label]
            /\ label = "forward" => req'[r].generation = req[r].generation
      BY <2>4, <1>a, <3>4 DEF Resolve, Goto, TypeOK
    <3>6. \A b \in Actors : b # r => req'[b] = req[b]
      BY <2>4, <1>a DEF Resolve, TypeOK
    <3>7. Moves(r, label)
      BY <1>4, <3>5, <3>6 DEF Moves, PublishRead, Critical
    <3>8. Justified(r, label)
      BY <1>4, <1>a, <1>b, <2>2, <2>4, <3>1, <3>3, <3>5 DEF Justified, PublishRead
    <3>9. QED
      BY <1>a, <3>7, <3>8, UnbindInvFrame
  <2>5. QED
    BY <1>4, <2>1, <2>3, <2>4 DEF PublishRead
<1>5. QED
  BY <1>1, <1>2, <1>3, <1>4

\* Facts every step below starts from.
LEMMA Background ==
    ASSUME TypeOK, UnbindInv
    PROVE  /\ Generation \in Nat /\ stale \subseteq Requests /\ None \notin stale
           /\ \A r \in Requests : r \in Actors
           /\ \A a \in Actors : req[a] \in Locals
           /\ (row # NoRow => row.by \notin stale)
           /\ (cache # NoEntry /\ ~Unbinding => cache.by \notin stale)
  BY EntryTypes, CacheConstants DEF TypeOK, Actors, UnbindInv, EntryBy, NoResurrectedRow

\* Finishing changes the goroutine's own locals only.
LEMMA FinishStep ==
    ASSUME TypeOK, NEW a \in Actors, Finish(a)
    PROVE  pc' = [pc EXCEPT ![a] = "idle"] /\ \A b \in Actors : b # a => req'[b] = req[b]
  BY DEF TypeOK, Finish, Goto

\* Clearing and default routing: InvalidateDirectly, RouteToDefault, ForwardFails.
LEMMA RoutingSteps ==
    ASSUME TypeOK, UnbindInv, NEW r \in Requests,
           InvalidateDirectly(r) \/ RouteToDefault(r) \/ ForwardFails(r)
    PROVE  UnbindInv'
<1>1. CASE InvalidateDirectly(r)
  <2>1. Moves(r, "clear")
    BY <1>1 DEF Moves, InvalidateDirectly, Goto, Critical
  <2>2. Generation' \in Nat /\ Generation' > Generation /\ cache'.by = None
    BY <1>1, CacheUpdates DEF InvalidateDirectly
  <2>3. Justified(r, "clear")
    BY <1>1, <2>2, Background DEF Justified, InvalidateDirectly
  <2>4. QED
    BY <2>1, <2>3, Background, UnbindInvFrame
<1>2. CASE RouteToDefault(r)
  <2>1. CASE Finish(r) /\ UNCHANGED stale
    <3>1. Moves(r, "idle")
      BY <1>2, <2>1, Background, FinishStep DEF Moves, RouteToDefault, Critical
    <3>2. Justified(r, "idle")
      BY <1>2, <2>1, Background DEF Justified, RouteToDefault, Generation
    <3>3. QED
      BY <3>1, <3>2, Background, UnbindInvFrame
  <2>2. ASSUME NEW p \in Providers, Goto(r, "forward"), stale' = stale \ {r},
               req' = [req EXCEPT ![r].provider = p, ![r].generation = Generation]
        PROVE  UnbindInv'
    <3>1. req' = [req EXCEPT ![r] = [req[r] EXCEPT !.provider = p, !.generation = Generation]]
      BY <2>2, Background DEF TypeOK
    <3>2. req'[r].generation = Generation /\ \A b \in Actors : b # r => req'[b] = req[b]
      BY <3>1, Background DEF TypeOK, Locals
    <3>3. Moves(r, "forward")
      BY <1>2, <2>2, <3>2 DEF Moves, RouteToDefault, Goto, Critical
    <3>4. Justified(r, "forward")
      BY <1>2, <2>2, <3>2, Background DEF Justified, RouteToDefault, Generation
    <3>5. QED
      BY <3>3, <3>4, Background, UnbindInvFrame
  <2>3. QED
    BY <1>2, <2>1, <2>2 DEF RouteToDefault
<1>3. CASE ForwardFails(r)
  <2>1. Moves(r, "idle")
    BY <1>3, Background, FinishStep DEF Moves, ForwardFails, Critical
  <2>2. Justified(r, "idle")
    BY <1>3, Background DEF Justified, ForwardFails, Generation
  <2>3. QED
    BY <2>1, <2>2, Background, UnbindInvFrame
<1>4. QED
  BY <1>1, <1>2, <1>3

\* Binding: a request that is out of date does not get past the generation check.
LEMMA BindSteps ==
    ASSUME TypeOK, UnbindInv, NEW r \in Requests, BindCheck(r) \/ BindRow(r) \/ PublishBind(r)
    PROVE  UnbindInv'
<1>1. CASE BindCheck(r)
  <2>1. CASE IsCurrent(r)
    <3>1. ~Unbinding
      BY <1>1, CacheConstants DEF BindCheck, Unbinding, UnbindInv, LockInv, Critical
    <3>2. r \notin stale
      BY <1>1, <2>1, <3>1, Background DEF BindCheck, IsCurrent, UnbindInv, StaleInv
    <3>3. Moves(r, "bind")
      BY <1>1, <2>1 DEF Moves, BindCheck, Goto, Critical
    <3>4. Justified(r, "bind")
      BY <1>1, <2>1, <3>2, Background DEF Justified, BindCheck, Generation
    <3>5. QED
      BY <3>3, <3>4, Background, UnbindInvFrame
  <2>2. CASE ~IsCurrent(r)
    <3>1. PICK label \in {"visibility", "enqueue"} : pc' = [pc EXCEPT ![r] = label]
      BY <1>1, <2>2 DEF BindCheck, AfterSuccess, Goto
    <3>2. Moves(r, label)
      BY <1>1, <2>2, <3>1 DEF Moves, BindCheck, Critical
    <3>3. Justified(r, label)
      BY <1>1, <2>2, <3>1, Background DEF Justified, BindCheck, Generation
    <3>4. QED
      BY <3>2, <3>3, Background, UnbindInvFrame
  <2>3. QED
    BY <2>1, <2>2
<1>2. CASE BindRow(r)
  <2>1. r \notin stale
    BY <1>2 DEF BindRow, UnbindInv, StaleInv
  <2>2. CASE Goto(r, "publish_bind") /\ row'.by = r /\ UNCHANGED <<lock, req>>
    <3>1. Moves(r, "publish_bind")
      BY <1>2, <2>2 DEF Moves, BindRow, Goto, Critical
    <3>2. Justified(r, "publish_bind")
      BY <1>2, <2>1, <2>2, Background DEF Justified, BindRow, Generation
    <3>3. QED
      BY <3>1, <3>2, Background, UnbindInvFrame
  <2>3. CASE Finish(r) /\ lock' = Free /\ UNCHANGED row
    <3>1. Moves(r, "idle")
      BY <1>2, <2>3, Background, FinishStep DEF Moves, BindRow, Critical
    <3>2. Justified(r, "idle")
      BY <1>2, <2>3, Background DEF Justified, BindRow, Generation
    <3>3. QED
      BY <3>1, <3>2, Background, UnbindInvFrame
  <2>4. QED
    BY <1>2, <2>2, <2>3 DEF BindRow
<1>3. CASE PublishBind(r)
  <2>1. r \notin stale
    BY <1>3 DEF PublishBind, UnbindInv, StaleInv
  <2>2. PICK label \in {"visibility", "enqueue"} : pc' = [pc EXCEPT ![r] = label]
    BY <1>3 DEF PublishBind, AfterSuccess, Goto
  <2>3. Generation' = Generation /\ (cache' # NoEntry => cache'.by = r \/ cache' = cache)
    <3>1. CASE IsCurrent(r)
      <4>1. /\ cache' = Published(req[r].provider, 0, req[r].generation, r)
            /\ req[r].generation = Generation
        BY <1>3, <3>1 DEF PublishBind, IsCurrent
      <4>2. cache' \in Entry
        BY <4>1, Background, EntryTypes DEF Published, Entry, Locals
      <4>3. QED
        BY <4>1, <4>2, CacheConstants DEF Published, Generation
    <3>2. CASE ~IsCurrent(r)
      BY <1>3, <3>2 DEF PublishBind, Generation
    <3>3. QED
      BY <3>1, <3>2
  <2>4. Moves(r, label)
    BY <1>3, <2>2 DEF Moves, PublishBind, Critical
  <2>5. Justified(r, label)
    BY <1>3, <2>1, <2>2, <2>3, Background DEF Justified, PublishBind
  <2>6. QED
    BY <2>4, <2>5, Background, UnbindInvFrame
<1>4. QED
  BY <1>1, <1>2, <1>3

\* Renewing: a request that is out of date renews nothing.
LEMMA SuccessSteps ==
    ASSUME TypeOK, UnbindInv, NEW r \in Requests,
           RecordSuccess(r) \/ RecordVisibility(r) \/ Enqueue(r)
    PROVE  UnbindInv'
<1>1. CASE RecordSuccess(r)
  <2>1. CASE ~IsCurrent(r) /\ Finish(r) /\ UNCHANGED cache
    <3>1. Moves(r, "idle")
      BY <1>1, <2>1, Background, FinishStep DEF Moves, RecordSuccess, Critical
    <3>2. Justified(r, "idle")
      BY <1>1, <2>1, Background DEF Justified, RecordSuccess, Generation
    <3>3. QED
      BY <3>1, <3>2, Background, UnbindInvFrame
  <2>2. CASE IsCurrent(r) /\ AfterSuccess(r)
    <3>1. PICK persisted \in Age, pending \in Age, due \in BOOLEAN :
            /\ cache' = [provider |-> req[r].provider, success |-> 0, persisted |-> persisted,
                         pending |-> pending, generation |-> Generation, by |-> r]
            /\ req' = [req EXCEPT ![r].persist = due]
      BY <1>1, <2>2, EntryTypes, CacheConstants DEF RecordSuccess, TypeOK, Entry, Finish, AfterSuccess
    <3>2. cache' \in Entry
      BY <3>1, Background, EntryTypes DEF Entry, Locals
    <3>3. Generation' = Generation /\ cache'.by = r
      BY <3>1, <3>2, CacheConstants DEF Generation
    <3>4. r \in stale => Unbinding
      BY <1>1, <2>2, Background DEF RecordSuccess, IsCurrent, UnbindInv, StaleInv
    <3>5. PICK label \in {"visibility", "enqueue"} : pc' = [pc EXCEPT ![r] = label]
      BY <2>2 DEF AfterSuccess, Goto
    <3>6. \A b \in Actors : b # r => req'[b] = req[b]
      BY <3>1, Background DEF TypeOK
    <3>7. Moves(r, label)
      BY <1>1, <3>5, <3>6 DEF Moves, RecordSuccess, Critical
    <3>8. UNCHANGED stale /\ UNCHANGED row
      BY <1>1 DEF RecordSuccess
    <3>9. Justified(r, label)
      BY <3>3, <3>4, <3>5, <3>8, Background DEF Justified
    <3>10. QED
      BY <3>7, <3>9, Background, UnbindInvFrame
  <2>3. QED
    BY <1>1, <2>1, <2>2 DEF RecordSuccess
<1>2. CASE RecordVisibility(r)
  <2>1. Moves(r, "enqueue")
    BY <1>2 DEF Moves, RecordVisibility, Goto, Critical
  <2>2. row' # NoRow => row # NoRow /\ row'.by = row.by
    BY <1>2 DEF RecordVisibility, TypeOK, Row
  <2>3. Justified(r, "enqueue")
    BY <1>2, <2>2, Background DEF Justified, RecordVisibility, Generation
  <2>4. QED
    BY <2>1, <2>3, Background, UnbindInvFrame
<1>3. CASE Enqueue(r)
  <2>1. PICK label \in {"idle", "update"} :
          pc' = [pc EXCEPT ![r] = label] /\ \A b \in Actors : b # r => req'[b] = req[b]
    BY <1>3, Background, FinishStep DEF Enqueue, Goto
  <2>2. Moves(r, label)
    BY <1>3, <2>1 DEF Moves, Enqueue, Critical
  <2>3. Justified(r, label)
    BY <1>3, <2>1, Background DEF Justified, Enqueue, Generation
  <2>4. QED
    BY <2>2, <2>3, Background, UnbindInvFrame
<1>4. QED
  BY <1>1, <1>2, <1>3

\* Persisting a success changes ages only.
LEMMA UpdateSteps ==
    ASSUME TypeOK, UnbindInv, NEW a \in Actors,
           UpdateCheck(a) \/ UpdateRow(a) \/ PublishUpdate(a) \/ (a = Worker /\ TakeUpdate)
    PROVE  UnbindInv'
<1>1. CASE UpdateCheck(a)
  <2>1. PICK label \in {"idle", "update_row"} :
          /\ pc' = [pc EXCEPT ![a] = label] /\ \A b \in Actors : b # a => req'[b] = req[b]
          /\ lock' = IF label = "idle" THEN lock ELSE a
    BY <1>1, FinishStep DEF UpdateCheck, Goto
  <2>2. Moves(a, label)
    BY <1>1, <2>1 DEF Moves, UpdateCheck, Critical
  <2>3. Justified(a, label)
    BY <1>1, <2>1, Background DEF Justified, UpdateCheck, Generation
  <2>4. QED
    BY <2>2, <2>3, UnbindInvFrame
<1>2. CASE UpdateRow(a)
  <2>1. \A b \in Actors : b # a => req'[b] = req[b]
    BY <1>2 DEF UpdateRow, TypeOK
  <2>2. Moves(a, "publish_update")
    BY <1>2, <2>1 DEF Moves, UpdateRow, Goto, Critical
  <2>3. row' # NoRow => row # NoRow /\ row'.by = row.by
    BY <1>2 DEF UpdateRow, TypeOK, Row
  <2>4. Justified(a, "publish_update")
    BY <1>2, <2>3, Background DEF Justified, UpdateRow, Generation
  <2>5. QED
    BY <2>2, <2>4, UnbindInvFrame
<1>3. CASE PublishUpdate(a)
  <2>1. Moves(a, "idle")
    BY <1>3, FinishStep DEF Moves, PublishUpdate, Critical
  <2>2. /\ Generation' = Generation
        /\ cache' # NoEntry => cache # NoEntry /\ cache'.by = cache.by
    <3>1. CASE cache' = cache
      BY <3>1 DEF Generation
    <3>2. CASE /\ cache # NoEntry
               /\ cache' \in {[cache EXCEPT !.pending = Old],
                             [cache EXCEPT !.success = 0, !.persisted = 0, !.pending = Old]}
      <4>1. cache' \in Entry /\ cache'.by = cache.by /\ cache'.generation = cache.generation
        BY <3>2, EntryTypes DEF TypeOK, Entry
      <4>2. QED
        BY <3>2, <4>1, CacheConstants DEF Generation
    <3>3. QED
      BY <1>3, <3>1, <3>2 DEF PublishUpdate
  <2>3. Justified(a, "idle")
    BY <1>3, <2>2, Background DEF Justified, PublishUpdate
  <2>4. QED
    BY <2>1, <2>3, UnbindInvFrame
<1>4. CASE a = Worker /\ TakeUpdate
  <2>1. \A b \in Actors : b # a => req'[b] = req[b]
    BY <1>4 DEF TakeUpdate, TypeOK
  <2>2. Moves(a, "update")
    BY <1>4, <2>1 DEF Moves, TakeUpdate, Goto, Critical
  <2>3. Justified(a, "update")
    BY <1>4, Background DEF Justified, TakeUpdate, Generation
  <2>4. QED
    BY <2>2, <2>3, UnbindInvFrame
<1>5. QED
  BY <1>1, <1>2, <1>3, <1>4

\* Unbinding itself: with the lock free nobody is inside a write, and every
\* request that was routed becomes out of date.
LEMMA UnbindSteps ==
    ASSUME TypeOK, UnbindInv, NEW a \in Actors, UnbindRow(a) \/ UnbindCache(a)
    PROVE  UnbindInv'
<1>a. Free \notin Actors /\ Requests \subseteq Actors
  BY CacheConstants DEF Actors
<1>1. CASE UnbindRow(a)
  <2>1. CASE UNCHANGED <<row, stale, lock>>
    <3>1. PICK label \in {"default", "idle"} : pc' = [pc EXCEPT ![a] = label]
      BY <1>1, <2>1, <1>a, CacheConstants DEF UnbindRow, Goto
    <3>2. Moves(a, label)
      BY <1>1, <2>1, <3>1 DEF Moves, UnbindRow, Critical
    <3>3. Justified(a, label)
      BY <1>1, <2>1, <3>1, Background DEF Justified, UnbindRow, Generation
    <3>4. QED
      BY <3>2, <3>3, UnbindInvFrame
  <2>2. CASE row' = NoRow /\ stale' = stale \union Routed /\ lock' = a /\ Goto(a, "clear_cache")
    <3>1. pc'[a] = "clear_cache" /\ \A b \in Actors : b # a => pc'[b] = pc[b]
      BY <2>2 DEF Goto, TypeOK
    <3>2. Unbinding' /\ UNCHANGED <<cache, req>>
      BY <1>1, <3>1 DEF Unbinding, UnbindRow
    <3>3. \A b \in Actors : pc[b] \notin Critical
      BY <1>1, <1>a DEF UnbindRow, UnbindInv, LockInv
    <3>4. LockInv'
      BY <2>2, <3>1, <3>3 DEF LockInv
    <3>5. GenInv'
      BY <1>a, <3>1, <3>2 DEF GenInv, UnbindInv, Generation
    <3>6. StaleInv'
      <4> SUFFICES ASSUME NEW r \in stale'
                   PROVE  pc'[r] \notin {"read", "publish_read", "bind", "publish_bind"}
        BY <3>2 DEF StaleInv
      <4>1. r \in Actors
        BY <2>2, <1>a, Background DEF Routed
      <4>2. QED
        BY <4>1, <3>1, <3>3 DEF Critical
    <3>7. ReadBy'
      BY <1>a, <3>1, <3>3 DEF ReadBy, Critical
    <3>8. EntryBy' /\ NoResurrectedRow'
      BY <2>2, <3>2 DEF EntryBy, NoResurrectedRow
    <3>9. QED
      BY <3>4, <3>5, <3>6, <3>7, <3>8 DEF UnbindInv
  <2>3. QED
    BY <1>1, <2>1, <2>2 DEF UnbindRow
<1>2. CASE UnbindCache(a)
  <2>1. PICK label \in {"default", "idle"} : pc' = [pc EXCEPT ![a] = label]
    BY <1>2 DEF UnbindCache, Goto
  <2>2. pc'[a] = label /\ \A b \in Actors : b # a => pc'[b] = pc[b]
    BY <2>1 DEF TypeOK
  <2>3. \A b \in Actors : pc[b] \in Critical => b = a
    BY <1>2 DEF UnbindCache, UnbindInv, LockInv, Critical
  <2>4. /\ Generation' \in Nat /\ Generation' > Generation /\ cache'.by = None
        /\ UNCHANGED <<row, req, stale>>
    BY <1>2, CacheUpdates DEF UnbindCache
  <2>5. LockInv'
    BY <2>2, <2>3 DEF LockInv, Critical
  <2>6. \A r \in Requests : pc'[r] = "forward" =>
            pc[r] = "forward" /\ req'[r].generation < Generation'
    <3> SUFFICES ASSUME NEW r \in Requests, pc'[r] = "forward"
                 PROVE  pc[r] = "forward" /\ req'[r].generation < Generation'
      OBVIOUS
    <3>1. pc[r] = "forward" /\ req'[r] = req[r]
      BY <1>a, <2>2, <2>4
    <3>2. req[r].generation <= Generation /\ req[r].generation \in Nat /\ Generation \in Nat
      BY <1>a, <3>1, Background DEF UnbindInv, GenInv, Locals
    <3>3. QED
      BY <2>4, <3>1, <3>2
  <2>7. GenInv'
    <3> SUFFICES ASSUME NEW r \in Requests, pc'[r] = "forward"
                 PROVE  req'[r].generation <= Generation'
      BY DEF GenInv
    <3>1. req'[r].generation \in Nat
      BY <1>a, <2>4, Background DEF Locals
    <3>2. QED
      BY <2>4, <2>6, <3>1
  <2>8. StaleInv'
    <3> SUFFICES ASSUME NEW r \in stale
                 PROVE  /\ pc'[r] \notin {"read", "publish_read", "bind", "publish_bind"}
                        /\ pc'[r] = "forward" => req'[r].generation < Generation'
      BY <2>4 DEF StaleInv
    <3>1. r \in Requests /\ r \in Actors
      BY <1>a, Background
    <3>2. QED
      BY <2>2, <2>6, <3>1 DEF UnbindInv, StaleInv
  <2>9. ReadBy'
    BY <1>a, <2>2, <2>3, <2>4 DEF ReadBy, UnbindInv, Critical
  <2>10. EntryBy' /\ NoResurrectedRow'
    BY <2>4, Background DEF EntryBy, NoResurrectedRow, UnbindInv
  <2>11. QED
    BY <2>5, <2>7, <2>8, <2>9, <2>10 DEF UnbindInv
<1>3. QED
  BY <1>1, <1>2

\* Expiry, time, a restart and stuttering.
LEMMA EnvironmentSteps ==
    ASSUME TypeOK, UnbindInv, CleanExpired \/ Tick \/ Restart \/ UNCHANGED vars
    PROVE  UnbindInv'
<1>a. Requests \subseteq Actors
  BY DEF Actors
<1>1. CASE Restart
  <2>1. \A a \in Actors : pc'[a] = "idle"
    BY <1>1 DEF Restart
  <2>2. QED
    BY <1>1, <1>a, <2>1
       DEF Restart, UnbindInv, LockInv, GenInv, StaleInv, EntryBy, NoResurrectedRow, ReadBy, Critical
<1>2. CASE CleanExpired \/ Tick \/ UNCHANGED vars
  <2>1. UNCHANGED <<pc, req, lock, stale>>
    BY <1>2 DEF CleanExpired, Tick, vars
  <2>2. /\ Generation' = Generation
        /\ cache' # NoEntry => cache # NoEntry /\ cache'.by = cache.by
    <3>1. CASE cache' = cache
      BY <3>1 DEF Generation
    <3>2. CASE Tick /\ cache # NoEntry
      <4>1. /\ cache' = [cache EXCEPT !.success = Older(@), !.persisted = Older(@), !.pending = Older(@)]
            /\ cache \in Entry
        BY <3>2 DEF Tick, TypeOK
      <4>2. cache' \in Entry /\ cache'.by = cache.by /\ cache'.generation = cache.generation
        BY <4>1, EntryTypes DEF Entry
      <4>3. QED
        BY <3>2, <4>2, CacheConstants DEF Generation
    <3>3. QED
      BY <1>2, <3>1, <3>2 DEF CleanExpired, Tick, vars
  <2>3. row' # NoRow => row # NoRow /\ row'.by = row.by
    BY <1>2 DEF CleanExpired, Tick, vars, TypeOK, Row
  <2>4. LockInv' /\ ReadBy' /\ NoResurrectedRow' /\ (Unbinding' <=> Unbinding)
    BY <2>1, <2>3 DEF UnbindInv, LockInv, ReadBy, NoResurrectedRow, Unbinding
  <2>5. GenInv' /\ StaleInv' /\ EntryBy'
    BY <2>1, <2>2, <2>4 DEF UnbindInv, GenInv, StaleInv, EntryBy
  <2>6. QED
    BY <2>4, <2>5 DEF UnbindInv
<1>3. QED
  BY <1>1, <1>2

LEMMA StepUnbindInv == ~EvictionPossible /\ TypeOK /\ UnbindInv /\ [Next]_vars => UnbindInv'
<1> SUFFICES ASSUME ~EvictionPossible, TypeOK, UnbindInv, [Next]_vars PROVE UnbindInv'
  OBVIOUS
<1>1. Requests \subseteq Actors /\ Users \subseteq Actors /\ Worker \in Actors
  BY DEF Actors
<1>2. ASSUME NEW r \in Requests, Arrive(r) \/ Request(r) PROVE UnbindInv'
  BY <1>2, LookupSteps, RoutingSteps, BindSteps, SuccessSteps DEF Request
<1>3. ASSUME NEW a \in Actors, Update(a) \/ Unbind(a) PROVE UnbindInv'
  BY <1>3, UpdateSteps, UnbindSteps DEF Update, Unbind
<1>4. ~Evict
  BY DEF Evict
<1>5. CASE TakeUpdate
  BY <1>1, <1>5, UpdateSteps
<1>6. QED
  BY <1>1, <1>2, <1>3, <1>4, <1>5, EnvironmentSteps DEF Next, Environment

\* As long as at most sessionCacheSize sessions are in use, a response from
\* before an Unbind never recreates the binding in the database.
THEOREM UnbindIsFinal == ASSUME ~EvictionPossible PROVE Spec => []NoResurrectedRow
<1>1. TypeOK /\ UnbindInv /\ [Next]_vars => UnbindInv'
  BY StepUnbindInv
<1>2. UnbindInv => NoResurrectedRow
  BY DEF UnbindInv
<1>3. QED
  BY <1>1, <1>2, InitUnbindInv, TypeCorrect, PTL DEF Spec

\* Nor in memory, from the moment the Unbind has invalidated the cache.
THEOREM UnbindIsFinalInMemory == ASSUME ~EvictionPossible PROVE Spec => []NoResurrectedEntry
<1>1. TypeOK /\ UnbindInv /\ [Next]_vars => UnbindInv'
  BY StepUnbindInv
<1>2. UnbindInv => NoResurrectedEntry
  BY DEF UnbindInv, EntryBy, Unbinding, NoResurrectedEntry, Live
<1>3. QED
  BY <1>1, <1>2, InitUnbindInv, TypeCorrect, PTL DEF Spec

-----------------------------------------------------------------------------
(* A visible session stays visible.                                        *)

\* Who writes the row keeps the mark of a main session.
KeepsMain == row # NoRow /\ row' # NoRow /\ row.hidden = "main" => row'.hidden = "main"

LEMMA RowWriters ==
    ASSUME TypeOK, NEW a \in Actors,
           BindRow(a) \/ RecordVisibility(a) \/ UpdateRow(a)
    PROVE  KeepsMain
<1>1. row # NoRow => DOMAIN row = {"provider", "success", "hidden", "by"}
  BY DEF TypeOK, Row
<1>2. CASE BindRow(a)
  BY <1>2 DEF BindRow, KeepsMain
<1>3. CASE RecordVisibility(a)
  <2>1. CASE UNCHANGED row
    BY <2>1 DEF KeepsMain
  <2>2. CASE row # NoRow /\ row' # row
    <3>1. row' = [row EXCEPT !.hidden =
                    IF ~req[a].background \/ @ = "main" THEN "main" ELSE "background"]
      BY <1>3, <2>2 DEF RecordVisibility
    <3>2. row'.hidden = IF ~req[a].background \/ row.hidden = "main" THEN "main" ELSE "background"
      BY <1>1, <2>2, <3>1
    <3>3. QED
      BY <3>2 DEF KeepsMain
  <2>3. CASE row = NoRow
    BY <2>3 DEF KeepsMain
  <2>4. QED
    BY <2>1, <2>2, <2>3
<1>4. CASE UpdateRow(a)
  <2>1. row' = row \/ (row # NoRow /\ row' = [row EXCEPT !.success = 0])
    BY <1>4 DEF UpdateRow
  <2>2. row # NoRow /\ row' = [row EXCEPT !.success = 0] => row'.hidden = row.hidden
    BY <1>1
  <2>3. QED
    BY <2>1, <2>2 DEF KeepsMain
<1>5. QED
  BY <1>2, <1>3, <1>4

\* The others leave the row alone, delete it or let it age.
LEMMA OtherSteps ==
    ASSUME TypeOK, [Next]_vars,
           ~\E a \in Actors : BindRow(a) \/ RecordVisibility(a) \/ UpdateRow(a)
    PROVE  KeepsMain
<1>1. Requests \subseteq Actors /\ Users \subseteq Actors /\ Worker \in Actors
  BY DEF Actors
<1>2. CASE Tick
  <2>1. row # NoRow => DOMAIN row = {"provider", "success", "hidden", "by"}
    BY DEF TypeOK, Row
  <2>2. row # NoRow => row' = [row EXCEPT !.success = Older(@)]
    BY <1>2 DEF Tick
  <2>3. row # NoRow => row'.hidden = row.hidden
    BY <2>1, <2>2
  <2>4. QED
    BY <2>3 DEF KeepsMain
<1>3. CASE row' = row \/ row' = NoRow
  BY <1>3 DEF KeepsMain
<1>4. ASSUME NEW r \in Requests, Arrive(r) \/ Request(r) PROVE row' = row \/ row' = NoRow
  BY <1>1, <1>4 DEF Arrive, Request, LookAgain, ReadRow, PublishRead, InvalidateDirectly, RouteToDefault,
     ForwardFails, BindCheck, PublishBind, RecordSuccess, Enqueue
<1>5. ASSUME NEW a \in Actors, Update(a) \/ Unbind(a) PROVE row' = row \/ row' = NoRow
  BY <1>5 DEF Update, Unbind, UpdateCheck, PublishUpdate, UnbindRow, UnbindCache
<1>6. CASE TakeUpdate \/ CleanExpired \/ Evict \/ Restart \/ UNCHANGED vars
  BY <1>3, <1>6 DEF TakeUpdate, CleanExpired, Evict, Restart, vars
<1>7. QED
  BY <1>1, <1>2, <1>3, <1>4, <1>5, <1>6 DEF Next, Environment

\* Requests, the worker, unbinds, expiry, failures and restarts interleaved in
\* any way, eviction included: a session that a main request has made visible is
\* not hidden again as long as its row is there (RecordSessionBackground).
THEOREM VisibleForGood == Spec => MainStaysVisible
<1>1. TypeOK /\ [Next]_vars => [KeepsMain]_vars
  BY RowWriters, OtherSteps
<1>2. Spec => [][KeepsMain]_vars
  BY <1>1, TypeCorrect, PTL DEF Spec
<1>3. QED
  BY <1>2 DEF MainStaysVisible, KeepsMain
=============================================================================
