---------------------------- MODULE SessionCache ----------------------------
(***************************************************************************)
(* Sticky session routing for ONE session of one platform: the in-memory   *)
(* entry (sessions/infrastructure/cache.go), the persisted row             *)
(* (sqlite_repository.go), the session lock (application/service.go), and  *)
(* the goroutines that use them: relay requests (relay/routing.go), the    *)
(* session_update worker, the user's Unbind, and the expiry clean-up.      *)
(*                                                                         *)
(* Other sessions appear only through Evict: the LRU holds 1000 entries.   *)
(* Timestamps are ages: how long ago, saturating at Old, which also stands *)
(* for the zero time (an age past every limit behaves like "never").       *)
(* Acquiring the session lock is merged with the first step under it, and  *)
(* releasing it with the last.  Cache.mu makes each in-memory step atomic. *)
(***************************************************************************)
EXTENDS Integers, Sequences

CONSTANTS
    Requests,         \* relay request goroutines of this session
    Users,            \* Wails goroutines calling Unbind
    Worker,           \* the session_update background goroutine
    Providers,
    None,             \* "", no provider
    NoEntry,          \* no LRU entry for the session
    NoRow,            \* no database row for the session
    Free,             \* the session lock is not held
    Timeout,          \* Platform.SessionTimeout, in ticks
    PersistInterval,  \* sessionPersistInterval, in ticks
    QueueCapacity,    \* sessionUpdateBufferSize
    Codex,            \* whether the platform classifies sessions as main or background
    EvictionPossible, \* whether more than sessionCacheSize sessions may be in use
    RepoMayFail,      \* whether a repository call may return an error
    CrashPossible,    \* whether the process may die and restart
    MaxGeneration     \* bound: no new unbind starts at this generation

Actors == Requests \union Users \union {Worker}

Old == Timeout + 1
Age == 0 .. Old
Name == Providers \union {None}

VARIABLES
    cache,   \* the session's sessionCacheEntry, or NoEntry
    row,     \* the session's row of session_provider_binding, or NoRow
    lock,    \* who holds the session lock
    queue,   \* generations of the update requests the worker has accepted
    pc,      \* where each actor is
    req,     \* each actor's locals
    stale    \* ghost: requests that read their generation before the latest unbind

vars == <<cache, row, lock, queue, pc, req, stale>>

Visibility == {"main", "background", "unclassified"}   \* hidden = 0, 1, 2

\* by is a ghost: the request whose answer made the binding, None if there is none.
Entry == [provider : Name, success : Age, persisted : Age, pending : Age,
          generation : Nat, by : Requests \union {None}]
Row == [provider : Name, success : Age, hidden : Visibility, by : Requests]

\* provider, generation, alreadyBound and backgroundTask of a request; persist is
\* RecordSessionSuccessGeneration's answer; failed and read are what the
\* repository returned, by the writer of the row it read.
Locals == [provider : Name, generation : Nat, bound : BOOLEAN, background : BOOLEAN,
           persist : BOOLEAN, failed : BOOLEAN, read : Name, by : Requests \union {None}]

ASSUME CacheConstants ==
    /\ Requests \intersect Users = {}
    /\ Worker \notin Requests \union Users
    /\ Free \notin Actors
    /\ None \notin Providers \union Requests
    /\ NoEntry \notin Entry
    /\ NoRow \notin Row
    /\ Timeout \in Nat
    /\ PersistInterval \in Nat /\ PersistInterval <= Timeout
    /\ QueueCapacity \in Nat
    /\ Codex \in BOOLEAN /\ EvictionPossible \in BOOLEAN 
    /\ RepoMayFail \in BOOLEAN /\ CrashPossible \in BOOLEAN
    /\ MaxGeneration \in Nat

Labels == {"idle", "lookup", "read", "publish_read", "invalidate", "clear", "clear_cache",
           "default", "forward", "bind", "publish_bind", "visibility", "enqueue",
           "update", "update_row", "publish_update"}

Idle == [provider |-> None, generation |-> 0, bound |-> FALSE, background |-> FALSE,
         persist |-> FALSE, failed |-> FALSE, read |-> None, by |-> None]

Init ==
    /\ cache = NoEntry
    /\ row = NoRow
    /\ lock = Free
    /\ queue = <<>>
    /\ pc = [a \in Actors |-> "idle"]
    /\ req = [a \in Actors |-> Idle]
    /\ stale = {}

-----------------------------------------------------------------------------
(* The cache's critical sections (under Cache.mu). *)

\* sessionGenerationLocked.
Generation == IF cache = NoEntry THEN 0 ELSE cache.generation

\* Mutant of IsCurrent: the generation is not compared.
AlwaysCurrent(a) == TRUE

\* isCurrentGenerationLocked.
IsCurrent(a) == Generation = req[a].generation

Live == cache # NoEntry /\ cache.success <= Timeout

\* What cachedProviderLocked leaves behind: an expired entry is emptied in
\* place and keeps its generation.
Cleared(entry) == [entry EXCEPT !.provider = None, !.success = Old,
                                !.persisted = Old, !.pending = Old, !.by = None]
Looked == IF cache # NoEntry /\ ~Live THEN Cleared(cache) ELSE cache

\* Mutant of Invalidated: the binding is cleared and keeps its generation.
ClearedOnly == IF cache = NoEntry THEN NoEntry ELSE Cleared(cache)

\* InvalidateSession.
Invalidated ==
    IF cache = NoEntry
    THEN [provider |-> None, success |-> Old, persisted |-> Old, pending |-> Old,
          generation |-> 1, by |-> None]
    ELSE [Cleared(cache) EXCEPT !.generation = @ + 1]

\* A binding published with lastSuccessAt = now.
Published(provider, persisted, generation, by) ==
    [provider |-> provider, success |-> 0, persisted |-> persisted, pending |-> Old,
     generation |-> generation, by |-> by]

Goto(a, label) == pc' = [pc EXCEPT ![a] = label]
Finish(a) == Goto(a, "idle") /\ req' = [req EXCEPT ![a] = Idle]

\* Requests that hold a generation they will act on.
Routed == {r \in Requests : pc[r] \notin {"idle", "lookup", "invalidate", "clear",
                                          "clear_cache", "default"}}

\* Whether a repository call returns an error.
Fails == IF RepoMayFail THEN BOOLEAN ELSE {FALSE}

-----------------------------------------------------------------------------
(* Routing a request: resolveBoundProvider and routeToManualProvider.      *)

\* The profile the request loaded accepts the bound provider, or it does not
\* (archived, removed, model not supported) and the binding is cleared.
Resolve(r, provider, generation, local) ==
    \/ /\ Goto(r, "forward")
       /\ req' = [req EXCEPT ![r] = [local EXCEPT !.provider = provider,
                                        !.generation = generation, !.bound = TRUE]]
    \/ /\ Generation < MaxGeneration
       /\ Goto(r, "invalidate")
       /\ req' = [req EXCEPT ![r] = local]

\* What the lookup answers under Cache.mu.  A live entry without a provider
\* (renewed after it was emptied) counts as a hit, and as no binding.
FromEntry(r, local) ==
    IF Live /\ cache.provider # None
    THEN Resolve(r, cache.provider, Generation, local)
    ELSE Goto(r, "default") /\ req' = [req EXCEPT ![r] = local]

\* GetSessionProviderSnapshot, first look: a hit never waits for the lock.
Arrive(r) ==
    /\ pc[r] = "idle"
    /\ cache' = Looked
    /\ stale' = stale \ {r}
    /\ \E background \in IF Codex THEN BOOLEAN ELSE {FALSE} :
        LET local == [Idle EXCEPT !.background = background] IN
        IF Live THEN FromEntry(r, local)
        ELSE Goto(r, "lookup") /\ req' = [req EXCEPT ![r] = local]
    /\ UNCHANGED <<row, lock, queue>>

\* A miss takes the session lock and looks again.
LookAgain(r) ==
    /\ pc[r] = "lookup"
    /\ lock = Free
    /\ cache' = Looked
    /\ stale' = stale \ {r}
    /\ IF Live THEN FromEntry(r, req[r]) /\ UNCHANGED lock
       ELSE /\ lock' = r
            /\ Goto(r, "read")
            /\ req' = [req EXCEPT ![r].generation = Generation]
    /\ UNCHANGED <<row, queue>>

\* Repository.GetSessionProvider; it deletes an expired row (and only logs if
\* that fails).
ReadRow(r) ==
    /\ pc[r] = "read"
    /\ Goto(r, "publish_read")
    /\ \E failed \in Fails, kept \in Fails :
        LET hit == ~failed /\ row # NoRow /\ row.success <= Timeout
            expired == ~failed /\ row # NoRow /\ row.success > Timeout IN
        /\ row' = IF expired /\ ~kept THEN NoRow ELSE row
        /\ req' = [req EXCEPT ![r].failed = failed,
                              ![r].read = IF hit THEN row.provider ELSE None,
                              ![r].by = IF hit THEN row.by ELSE None]
    /\ UNCHANGED <<cache, lock, queue, stale>>

\* Publish what was read, unless an invalidation or a success came in between.
PublishRead(r) ==
    /\ pc[r] = "publish_read"
    /\ lock' = Free
    /\ LET overtaken == Generation # req[r].generation \/ Live
           local == [req[r] EXCEPT !.failed = FALSE, !.read = None, !.by = None, !.generation = 0]
       IN \/ /\ overtaken
             /\ cache' = Looked
             /\ FromEntry(r, local)
          \/ /\ ~overtaken /\ (req[r].failed \/ req[r].read = None)
             /\ cache' = Looked
             /\ Goto(r, "default") /\ req' = [req EXCEPT ![r] = local]
          \/ /\ ~overtaken /\ ~req[r].failed /\ req[r].read # None
             /\ cache' = Published(req[r].read, Old, req[r].generation, req[r].by)
             /\ Resolve(r, req[r].read, req[r].generation, local)
    /\ UNCHANGED <<row, queue, stale>>

\* clearInvalidSessionBinding, first half: InvalidateSession without the session lock.
InvalidateDirectly(r) ==
    /\ pc[r] = "invalidate"
    /\ cache' = Invalidated
    /\ Goto(r, "clear")
    /\ UNCHANGED <<row, lock, queue, req, stale>>

\* No binding (or no usable one): the profile's default provider, if it has
\* one, with the generation read now.
RouteToDefault(r) ==
    /\ pc[r] = "default"
    /\ \/ \E p \in Providers :
            /\ Goto(r, "forward")
            /\ req' = [req EXCEPT ![r].provider = p, ![r].generation = Generation]
            /\ stale' = stale \ {r}
       \/ Finish(r) /\ UNCHANGED stale
    /\ UNCHANGED <<cache, row, lock, queue>>

\* The upstream call, or preparing it, fails: the session is left alone.
ForwardFails(r) ==
    /\ pc[r] = "forward"
    /\ Finish(r)
    /\ UNCHANGED <<cache, row, lock, queue, stale>>

-----------------------------------------------------------------------------
(* A successful answer: handleSuccessfulSession.                           *)

\* What follows the binding or the success record: Codex visibility, and then
\* the persistence request if one is due.
AfterSuccess(r) == Goto(r, IF Codex THEN "visibility" ELSE "enqueue")

\* BindSessionToProviderGeneration: a stale generation writes nothing.
BindCheck(r) ==
    /\ pc[r] = "forward" /\ ~req[r].bound
    /\ lock = Free
    /\ IF IsCurrent(r) THEN lock' = r /\ Goto(r, "bind") ELSE AfterSuccess(r) /\ UNCHANGED lock
    /\ UNCHANGED <<cache, row, queue, req, stale>>

\* Mutant of BindRow: a new row gets no visibility.
BindNoFlag(r) ==
    /\ pc[r] = "bind"
    /\ row' = [provider |-> req[r].provider, success |-> 0, hidden |-> None, by |-> r]
    /\ Goto(r, "publish_bind")
    /\ UNCHANGED <<cache, lock, queue, req, stale>>

\* Repository.BindSessionToProvider: an upsert that keeps hidden.
BindRow(r) ==
    /\ pc[r] = "bind"
    /\ \/ /\ row' = [provider |-> req[r].provider, success |-> 0,
                     hidden |-> IF row # NoRow THEN row.hidden
                                ELSE IF Codex THEN "unclassified" ELSE "main",
                     by |-> r]
          /\ Goto(r, "publish_bind")
          /\ UNCHANGED <<lock, req>>
       \/ /\ RepoMayFail
          /\ Finish(r)
          /\ lock' = Free
          /\ UNCHANGED row
    /\ UNCHANGED <<cache, queue, stale>>

\* Mutant of PublishBind: returns without releasing the session lock.
PublishBindLocked(r) ==
    /\ pc[r] = "publish_bind"
    /\ cache' = IF IsCurrent(r) THEN Published(req[r].provider, 0, req[r].generation, r) ELSE cache
    /\ AfterSuccess(r)
    /\ UNCHANGED <<row, lock, queue, req, stale>>

PublishBind(r) ==
    /\ pc[r] = "publish_bind"
    /\ cache' = IF IsCurrent(r) THEN Published(req[r].provider, 0, req[r].generation, r) ELSE cache
    /\ lock' = Free
    /\ AfterSuccess(r)
    /\ UNCHANGED <<row, queue, req, stale>>

\* RecordSessionSuccessGeneration: renew in memory; ask for a write at most
\* once per PersistInterval.
RecordSuccess(r) ==
    /\ pc[r] = "forward" /\ req[r].bound
    /\ \/ /\ ~IsCurrent(r)
          /\ Finish(r)
          /\ UNCHANGED cache
       \/ /\ IsCurrent(r)
          /\ LET persisted == IF cache = NoEntry THEN Old ELSE cache.persisted
                 pending == IF cache = NoEntry THEN Old ELSE cache.pending
                 due == persisted >= PersistInterval /\ pending >= PersistInterval
             IN /\ cache' = [provider |-> req[r].provider, success |-> 0, persisted |-> persisted,
                             pending |-> IF due THEN 0 ELSE pending,
                             generation |-> Generation, by |-> r]
                /\ req' = [req EXCEPT ![r].persist = due]
          /\ AfterSuccess(r)
    /\ UNCHANGED <<row, lock, queue, stale>>

\* Mutant of RecordVisibility: the latest request decides.
RecordLatest(r) ==
    /\ pc[r] = "visibility"
    /\ lock = Free
    /\ row' = IF row = NoRow THEN NoRow
              ELSE [row EXCEPT !.hidden = IF req[r].background THEN "background" ELSE "main"]
    /\ Goto(r, "enqueue")
    /\ UNCHANGED <<cache, lock, queue, req, stale>>

\* RecordSessionBackground: a main request makes the session visible for good,
\* a background request hides it unless it is visible.
RecordVisibility(r) ==
    /\ pc[r] = "visibility"
    /\ lock = Free
    /\ \/ row' = IF row = NoRow THEN NoRow
                 ELSE [row EXCEPT !.hidden =
                        IF ~req[r].background \/ @ = "main" THEN "main" ELSE "background"]
       \/ RepoMayFail /\ UNCHANGED row
    /\ Goto(r, "enqueue")
    /\ UNCHANGED <<cache, lock, queue, req, stale>>

\* sessionUpdateWorker.Enqueue; a full buffer makes the request do the update itself.
Enqueue(r) ==
    /\ pc[r] = "enqueue"
    /\ \/ /\ ~req[r].persist
          /\ Finish(r) /\ UNCHANGED queue
       \/ /\ req[r].persist /\ Len(queue) < QueueCapacity
          /\ queue' = Append(queue, req[r].generation)
          /\ Finish(r)
       \/ /\ req[r].persist /\ Len(queue) >= QueueCapacity
          /\ Goto(r, "update") /\ UNCHANGED <<queue, req>>
    /\ UNCHANGED <<cache, row, lock, stale>>

-----------------------------------------------------------------------------
(* UpdateSessionSuccessGeneration, by the worker or by a request.          *)

TakeUpdate ==
    /\ pc[Worker] = "idle" /\ queue # <<>>
    /\ queue' = Tail(queue)
    /\ Goto(Worker, "update")
    /\ req' = [req EXCEPT ![Worker].generation = Head(queue)]
    /\ UNCHANGED <<cache, row, lock, stale>>

UpdateCheck(a) ==
    /\ pc[a] = "update"
    /\ lock = Free
    /\ IF IsCurrent(a) THEN lock' = a /\ Goto(a, "update_row") /\ UNCHANGED req
       ELSE Finish(a) /\ UNCHANGED lock
    /\ UNCHANGED <<cache, row, queue, stale>>

\* Repository.UpdateSessionSuccess: an UPDATE, so a missing row stays missing.
UpdateRow(a) ==
    /\ pc[a] = "update_row"
    /\ Goto(a, "publish_update")
    /\ \E failed \in Fails :
        /\ row' = IF failed \/ row = NoRow THEN row ELSE [row EXCEPT !.success = 0]
        /\ req' = [req EXCEPT ![a].failed = failed]
    /\ UNCHANGED <<cache, lock, queue, stale>>

PublishUpdate(a) ==
    /\ pc[a] = "publish_update"
    /\ cache' = IF ~IsCurrent(a) \/ cache = NoEntry THEN cache
                ELSE IF req[a].failed THEN [cache EXCEPT !.pending = Old]
                ELSE [cache EXCEPT !.success = 0, !.persisted = 0, !.pending = Old]
    /\ lock' = Free
    /\ Finish(a)
    /\ UNCHANGED <<row, queue, stale>>

-----------------------------------------------------------------------------
(* Unbinding, expiry, eviction, time and crashes.                          *)

\* Service.Unbind deletes the row first; on error it leaves the cache alone.
\* A request that clears an invalid binding then routes to the default.
UnbindRow(a) ==
    /\ \/ a \in Users /\ pc[a] = "idle" /\ Generation < MaxGeneration
       \/ a \in Requests /\ pc[a] = "clear"
    /\ lock = Free
    /\ \/ /\ row' = NoRow
          /\ stale' = stale \union Routed
          /\ lock' = a
          /\ Goto(a, "clear_cache")
       \/ /\ RepoMayFail
          /\ Goto(a, IF a \in Requests THEN "default" ELSE "idle")
          /\ UNCHANGED <<row, stale, lock>>
    /\ UNCHANGED <<cache, queue, req>>

UnbindCache(a) ==
    /\ pc[a] = "clear_cache"
    /\ cache' = Invalidated
    /\ lock' = Free
    /\ Goto(a, IF a \in Requests THEN "default" ELSE "idle")
    /\ UNCHANGED <<row, queue, req, stale>>

\* CleanupRunner: expired rows go, whoever holds the session lock.
CleanExpired ==
    /\ row # NoRow
    /\ row.success > Timeout
    /\ row' = NoRow
    /\ UNCHANGED <<cache, lock, queue, pc, req, stale>>

\* Another session's Add pushes this one out of the LRU.
Evict ==
    /\ EvictionPossible
    /\ cache # NoEntry
    /\ cache' = NoEntry
    /\ UNCHANGED <<row, lock, queue, pc, req, stale>>

Older(age) == IF age = Old THEN Old ELSE age + 1

Tick ==
    /\ cache' = IF cache = NoEntry THEN NoEntry
                ELSE [cache EXCEPT !.success = Older(@), !.persisted = Older(@), !.pending = Older(@)]
    /\ row' = IF row = NoRow THEN NoRow ELSE [row EXCEPT !.success = Older(@)]
    /\ UNCHANGED <<lock, queue, pc, req, stale>>

\* The process dies and restarts: only the database survives.
Restart ==
    /\ CrashPossible
    /\ cache' = NoEntry
    /\ lock' = Free
    /\ queue' = <<>>
    /\ pc' = [a \in Actors |-> "idle"]
    /\ req' = [a \in Actors |-> Idle]
    /\ stale' = {}
    /\ UNCHANGED row

-----------------------------------------------------------------------------
Request(r) ==
    \/ LookAgain(r) \/ ReadRow(r) \/ PublishRead(r) \/ InvalidateDirectly(r)
    \/ RouteToDefault(r) \/ ForwardFails(r) \/ BindCheck(r) \/ BindRow(r) \/ PublishBind(r)
    \/ RecordSuccess(r) \/ RecordVisibility(r) \/ Enqueue(r)

Update(a) == UpdateCheck(a) \/ UpdateRow(a) \/ PublishUpdate(a)
Unbind(a) == UnbindRow(a) \/ UnbindCache(a)
Environment == CleanExpired \/ Evict \/ Tick \/ Restart

Next ==
    \/ \E r \in Requests : Arrive(r) \/ Request(r) \/ Update(r) \/ Unbind(r)
    \/ \E u \in Users : Unbind(u)
    \/ TakeUpdate \/ Update(Worker)
    \/ Environment

Spec == Init /\ [][Next]_vars

(***************************************************************************)
(* Fairness: goroutines keep running, an upstream call ends (it fails at   *)
(* the latest when the client goes away), and a waiter gets the session    *)
(* lock (FairLockSpec of SessionLock, EveryCallerEnters): strong fairness  *)
(* of the steps that take it.  Time passes and the clean-up ticker fires.  *)
(***************************************************************************)
TakesLock(a) ==
    \/ LookAgain(a) \/ BindCheck(a) \/ RecordVisibility(a) \/ UpdateCheck(a)
    \/ pc[a] = "clear" /\ UnbindRow(a)

FairSpec ==
    /\ Spec
    /\ \A r \in Requests : /\ WF_vars(Request(r) \/ Update(r) \/ (pc[r] # "idle" /\ Unbind(r)))
                           /\ SF_vars(TakesLock(r))
    /\ \A u \in Users : WF_vars(UnbindCache(u))
    /\ WF_vars(TakeUpdate \/ Update(Worker))
    /\ SF_vars(UpdateCheck(Worker))
    /\ WF_vars(Tick)
    /\ WF_vars(CleanExpired)

-----------------------------------------------------------------------------
TypeOK ==
    /\ cache \in Entry \union {NoEntry}
    /\ row \in Row \union {NoRow}
    /\ lock \in Actors \union {Free}
    /\ queue \in Seq(Nat)
    /\ pc \in [Actors -> Labels]
    /\ req \in [Actors -> Locals]
    /\ stale \in SUBSET Requests

\* A delayed response from before an Unbind does not recreate the database
\* binding: the row, if any, comes from a request that read its generation
\* after the latest unbind.
NoResurrectedRow == row # NoRow => row.by \notin stale

\* Nor does it recreate the binding in memory, once the Unbind that deleted
\* the row has gone on to invalidate the cache.
NoResurrectedEntry ==
    Live /\ (\A a \in Actors : pc[a] # "clear_cache") => cache.by \notin stale

\* A session confirmed as a main one is never hidden again by a background
\* request with the same id (RecordSessionBackground).
MainStaysVisible ==
    [][row # NoRow /\ row' # NoRow /\ row.hidden = "main" => row'.hidden = "main"]_vars

\* Every request ends: nobody waits for the session lock for ever.
RequestsEnd == \A r \in Requests : pc[r] # "idle" ~> pc[r] = "idle"
=============================================================================
