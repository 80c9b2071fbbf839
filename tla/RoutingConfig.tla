--------------------------- MODULE RoutingConfig ---------------------------
(***************************************************************************)
(* The routing configuration: one row of preferences and one profile of    *)
(* providers per platform in the core database (routing/infrastructure),   *)
(* the profile cache in front of it and the proxy setting that the relay   *)
(* keeps (routing/application, relay/config.go), the import of legacy      *)
(* files and the order of a start (app/bootstrap), and the snapshots of    *)
(* configsync.                                                             *)
(*                                                                         *)
(* Facade calls and relay requests run on goroutines of their own and no   *)
(* lock spans a call.  The core database has one connection, so each query *)
(* and each transaction is atomic and a crash loses nothing committed.     *)
(* GetProfile is two queries and SaveProfile reads back after its commit.  *)
(*                                                                         *)
(* Of a provider the identity is kept: id and name (without the archive    *)
(* time, of which the database keeps its own and the cache, after a        *)
(* restore, the snapshot's).  Encryption is a pull that may fail.          *)
(***************************************************************************)
EXTENDS Naturals, Sequences, SequencesExt

CONSTANTS
    Callers,          \* goroutines
    PlatformOrder,    \* kernel.AllPlatforms
    Submissions,      \* profiles a user submits, as typed
    Uploads,          \* snapshots that another device uploads
    Preferences,      \* proxy settings
    Off,              \* the one of a new database: no proxy
    LegacyFiles,      \* what the legacy provider files, one per platform, may be
    Missing, Broken,  \* no such file, or one that cannot be read
    None,
    MaxJobs,          \* bound: calls in a behaviour
    MaxRestarts       \* bound: restarts in a behaviour

Platforms == Range(PlatformOrder)

-----------------------------------------------------------------------------
(* Profiles.  A submitted provider has an id, a name, a position (0: none)  *)
(* and may be archived; a stored one has the position of its place.         *)

Positions(raw) ==
    [i \in DOMAIN raw |-> IF raw[i].position = 0 THEN i ELSE raw[i].position]

\* Sort by position and number the places.
Normalize(raw) ==
    LET at == Positions(raw.providers)
        Earlier(i, j) == at[i] < at[j] \/ (at[i] = at[j] /\ i < j)
        order == SetToSortSeq(DOMAIN raw.providers, Earlier)
    IN  [default |-> raw.default,
         providers |-> [i \in DOMAIN order |->
                          [id |-> raw.providers[order[i]].id,
                           name |-> raw.providers[order[i]].name,
                           archived |-> raw.providers[order[i]].archived]]]

Validate(profile) ==
    LET ps == profile.providers IN
    /\ \A i, j \in DOMAIN ps : i # j => ps[i].id # ps[j].id /\ ps[i].name # ps[j].name
    /\ profile.default # None =>
         \E i \in DOMAIN ps : ps[i].id = profile.default /\ ~ps[i].archived

Empty == [default |-> None, providers |-> <<>>]
Submitted == {Normalize(raw) : raw \in Submissions}
Valid == {profile \in Submitted : Validate(profile)}
Stored == Submitted \union {Empty}
\* What two queries may read of two profiles.
Mixed(a, b) == [default |-> a.default, providers |-> b.providers]
Profiles == Stored \union {Mixed(a, b) : a, b \in Stored}
Snapshots == [prefs : Preferences, profiles : [Platforms -> Profiles]]

\* The upserts run in order under UNIQUE(platform, name): a name fails while
\* another row, new or still to be updated, has it.
Conflict(old, new) ==
    \E i, j \in DOMAIN new.providers :
        /\ i < j
        /\ \/ new.providers[i].name = new.providers[j].name
           \/ \E k \in DOMAIN old.providers :
                /\ old.providers[k].id = new.providers[j].id
                /\ old.providers[k].name = new.providers[i].name

\* No provider of both has two names.
KeepsNames(old, new) ==
    \A i \in DOMAIN old.providers, j \in DOMAIN new.providers :
        old.providers[i].id = new.providers[j].id =>
            old.providers[i].name = new.providers[j].name

ASSUME RoutingConstants ==
    /\ PlatformOrder \in Seq(Platforms) /\ PlatformOrder # <<>>
    /\ Off \in Preferences /\ None \notin Preferences
    /\ None \notin Profiles /\ None \notin Snapshots
    /\ Missing # Broken /\ Missing \notin Submissions /\ Broken \notin Submissions
    /\ Uploads \subseteq [prefs : Preferences, profiles : [Platforms -> Valid]]
    /\ LegacyFiles \subseteq [Platforms -> Submissions \union {Missing, Broken}]
    /\ "prefs" \notin Platforms
    /\ MaxJobs \in Nat /\ MaxRestarts \in Nat

-----------------------------------------------------------------------------
VARIABLES
    db,        \* the core database: preferences, profiles, the import mark
    cache,     \* profileCache
    relay,     \* the relay's proxy setting
    remote,    \* the snapshot on the WebDAV server, or None
    rollback,  \* the newest local rollback file, or None
    legacy,    \* the legacy provider files
    boot,      \* how far the start is, and the platforms to do
    job,       \* what each goroutine does
    jobs, restarts,   \* bounded counters
    slipped,   \* history: values that may differ from the database, see Slips
    loaded     \* history: platforms whose legacy file was imported

vars == <<db, cache, relay, remote, rollback, legacy, boot, job, jobs,
          restarts, slipped, loaded>>
outside == <<remote, rollback, legacy, boot, restarts, loaded>>

Idle == [goal |-> "none", at |-> "idle", todo |-> <<>>, prefs |-> None,
         half |-> None, got |-> [p \in Platforms |-> None],
         new |-> [p \in Platforms |-> None], clean |-> TRUE]
NoCache == [p \in Platforms |-> None]

Init ==
    /\ db = [prefs |-> Off, profiles |-> [p \in Platforms |-> Empty], imported |-> FALSE]
    /\ cache = NoCache /\ relay = Off
    /\ remote = None /\ rollback = None
    /\ legacy \in LegacyFiles
    /\ boot = [at |-> "check", todo |-> PlatformOrder]
    /\ job = [c \in Callers |-> Idle]
    /\ jobs = 0 /\ restarts = 0
    /\ slipped = {} /\ loaded = {}

-----------------------------------------------------------------------------
(* History.                                                                 *)

\* c has read a part of p's profile, or committed one, and has still to put
\* it into the cache.
Holds(c, p) ==
    \/ job[c].at \in {"providers", "keep"} /\ Head(job[c].todo) = p
    \/ job[c].at = "publish" /\ p \in Range(job[c].todo)
HoldsPrefs(c) == job[c].at \in {"publish", "notify"}

\* c has committed a value and not yet told the cache, or the relay.
Owes(c, p) ==
    \/ job[c].goal = "saved" /\ Head(job[c].todo) = p
    \/ job[c].at = "publish" /\ p \in Range(job[c].todo)
OwesPrefs(c) == job[c].at \in {"reread", "publish", "notify"}
Debts(c) == {p \in Platforms : Owes(c, p)} \union {x \in {"prefs"} : OwesPrefs(c)}

\* A commit of these values by c overlaps what another goroutine holds, which
\* will be put over it: no lock orders the two.
Slips(c, values) ==
    slipped' = slipped \union
        {p \in values \cap Platforms : \E d \in Callers \ {c} : Holds(d, p)}
        \union {x \in values \cap {"prefs"} : \E d \in Callers \ {c} : HoldsPrefs(d)}

\* c moves on to new; a commit is seen by the calls that run meanwhile.
Step(c, new) == job' = [job EXCEPT ![c] = new]
CommitStep(c, new) ==
    job' = [d \in Callers |-> IF d = c THEN new ELSE [job[d] EXCEPT !.clean = FALSE]]

-----------------------------------------------------------------------------
(* Starts.                                                                  *)

Up == boot.at = "up"
BootTo(at) == boot' = [at |-> at, todo |-> PlatformOrder]
NextPlatform(then) ==
    IF Tail(boot.todo) # <<>> THEN boot' = [boot EXCEPT !.todo = Tail(@)] ELSE BootTo(then)
inMemory == <<remote, rollback, legacy, job, jobs, restarts>>

\* Mutant of BootCheck: the mark is not looked at.
BootAlways ==
    /\ boot.at = "check"
    /\ BootTo("prefs")
    /\ UNCHANGED <<db, cache, relay, slipped, loaded, inMemory>>

\* Initialize: the import is skipped when it was marked; its error is a warning.
BootCheck ==
    /\ boot.at = "check"
    /\ BootTo(IF db.imported THEN "proxy" ELSE "prefs")
    /\ UNCHANGED <<db, cache, relay, slipped, loaded, inMemory>>

ImportPrefs ==
    /\ boot.at = "prefs"
    /\ db' = [db EXCEPT !.prefs = Off]
    /\ BootTo("profiles")
    /\ UNCHANGED <<cache, relay, slipped, loaded, inMemory>>

ImportProfile ==
    LET p == Head(boot.todo) IN
    /\ boot.at = "profiles"
    /\ legacy[p] # Broken
    /\ IF legacy[p] = Missing THEN UNCHANGED <<db, loaded>>
       ELSE /\ ~Conflict(db.profiles[p], Normalize(legacy[p]))
            /\ db' = [db EXCEPT !.profiles[p] = Normalize(legacy[p])]
            /\ loaded' = loaded \union {p}
    /\ NextPlatform("mark")
    /\ UNCHANGED <<cache, relay, slipped, inMemory>>

MarkImported ==
    /\ boot.at = "mark"
    /\ db' = [db EXCEPT !.imported = TRUE]
    /\ BootTo("proxy")
    /\ UNCHANGED <<cache, relay, slipped, loaded, inMemory>>

\* Any step of the import may fail: a warning, and the start goes on.
ImportFails ==
    /\ boot.at \in {"check", "prefs", "profiles", "mark"}
    /\ BootTo("proxy")
    /\ UNCHANGED <<db, cache, relay, slipped, loaded, inMemory>>

\* NewServer: initProxyConfig; an error leaves the setting off.
InitProxy ==
    /\ boot.at = "proxy"
    /\ \/ relay' = db.prefs /\ UNCHANGED slipped
       \/ relay' = Off /\ slipped' = slipped \union {"prefs"}
    /\ BootTo("warm")
    /\ UNCHANGED <<db, cache, loaded, inMemory>>

\* Start: validateConfig reads every profile; an error is a warning.
Warm ==
    LET p == Head(boot.todo) IN
    /\ boot.at = "warm"
    /\ \/ cache' = [cache EXCEPT ![p] = db.profiles[p]]
       \/ UNCHANGED cache
    /\ NextPlatform("up")
    /\ UNCHANGED <<db, relay, slipped, loaded, inMemory>>

\* The process stops or crashes at any point and is started again.
Restart ==
    /\ restarts < MaxRestarts
    /\ restarts' = restarts + 1
    /\ BootTo("check")
    /\ cache' = NoCache /\ relay' = Off
    /\ job' = [c \in Callers |-> Idle]
    /\ slipped' = {}
    /\ UNCHANGED <<db, remote, rollback, legacy, jobs, loaded>>

-----------------------------------------------------------------------------
(* Calls.                                                                   *)

Begin(c, goal, at, todo, prefs, new) ==
    /\ Up
    /\ job[c].at = "idle"
    /\ jobs < MaxJobs
    /\ jobs' = jobs + 1
    /\ Step(c, [Idle EXCEPT !.goal = goal, !.at = at, !.todo = todo,
                            !.prefs = prefs, !.new = new,
                            !.clean = slipped = {} /\ \A d \in Callers : Debts(d) = {}])
    /\ UNCHANGED <<db, cache, relay, slipped, outside>>

\* GetProfile, of the relay for a request or of the facade.
BeginGet(c) == \E p \in Platforms : Begin(c, "get", "look", <<p>>, None, Idle.new)

\* SaveProfile, of a profile that is valid once normalized.
BeginSave(c) ==
    \E p \in Platforms, profile \in Valid :
        Begin(c, "save", "look", <<p>>, None, [Idle.new EXCEPT ![p] = profile])

BeginSavePrefs(c) ==
    \E prefs \in Preferences : Begin(c, "prefs", "savePrefs", <<>>, prefs, Idle.new)

\* PushSnapshot, and what the settings page does to restore one, once at a
\* time: CreateLocalRollback, PullSnapshot, ApplySnapshot.
BeginPush(c) == Begin(c, "push", "readPrefs", PlatformOrder, None, Idle.new)
BeginRestore(c) ==
    /\ \A d \in Callers : job[d].goal # "restore"
    /\ Begin(c, "restore", "readPrefs", PlatformOrder, None, Idle.new)

-----------------------------------------------------------------------------
(* Steps of a call.                                                         *)

at(c) == job[c].at
Platform(c) == Head(job[c].todo)

\* Mutant of AfterRead: one platform too many.
AfterReadTooFar(j) ==
    IF j.todo # <<>> THEN [j EXCEPT !.todo = Tail(@), !.at = "look", !.half = None]
    ELSE Idle

\* What follows the reading of one profile.
AfterRead(j) ==
    IF Tail(j.todo) # <<>> THEN [j EXCEPT !.todo = Tail(@), !.at = "look", !.half = None]
    ELSE CASE j.goal \in {"get", "saved"} -> Idle
           [] j.goal = "save"    -> [j EXCEPT !.at = "commit", !.half = None]
           [] j.goal = "push"    -> [j EXCEPT !.at = "upload", !.half = None]
           [] j.goal = "restore" -> [j EXCEPT !.at = "rollback", !.half = None]

\* loadProfileCache.
Look(c) ==
    LET p == Platform(c) IN
    /\ at(c) = "look"
    /\ Step(c, IF cache[p] = None THEN [job[c] EXCEPT !.at = "default"]
               ELSE AfterRead([job[c] EXCEPT !.got[p] = cache[p]]))
    /\ UNCHANGED <<db, cache, relay, slipped, jobs, outside>>

\* The store's GetProfile: the default, then the providers.
ReadDefault(c) ==
    /\ at(c) = "default"
    /\ Step(c, [job[c] EXCEPT !.at = "providers",
                              !.half = db.profiles[Platform(c)].default])
    /\ UNCHANGED <<db, cache, relay, slipped, jobs, outside>>

ReadProviders(c) ==
    LET p == Platform(c) IN
    /\ at(c) = "providers"
    /\ Step(c, [job[c] EXCEPT !.at = "keep",
                  !.got[p] = [default |-> job[c].half,
                              providers |-> db.profiles[p].providers]])
    /\ UNCHANGED <<db, cache, relay, slipped, jobs, outside>>

\* storeProfileCache.
Keep(c) ==
    LET p == Platform(c) IN
    /\ at(c) = "keep"
    /\ cache' = [cache EXCEPT ![p] = job[c].got[p]]
    /\ Step(c, AfterRead(job[c]))
    /\ UNCHANGED <<db, relay, slipped, jobs, outside>>

\* Mutant of CommitProfile: names are not compared.
CommitAnyName(c) ==
    LET p == Platform(c) IN
    /\ at(c) = "commit"
    /\ IF ~Conflict(db.profiles[p], job[c].new[p])
       THEN /\ db' = [db EXCEPT !.profiles[p] = job[c].new[p]]
            /\ CommitStep(c, [Idle EXCEPT !.goal = "saved", !.at = "default",
                                          !.todo = <<p>>, !.clean = job[c].clean])
            /\ Slips(c, {p})
       ELSE Step(c, Idle) /\ UNCHANGED <<db, slipped>>
    /\ UNCHANGED <<cache, relay, jobs, outside>>

\* A renamed provider is refused; otherwise the transaction, which may fail on
\* a name; then the profile is read back.
CommitProfile(c) ==
    LET p == Platform(c) IN
    /\ at(c) = "commit"
    /\ IF /\ KeepsNames(job[c].got[p], job[c].new[p])
          /\ ~Conflict(db.profiles[p], job[c].new[p])
       THEN /\ db' = [db EXCEPT !.profiles[p] = job[c].new[p]]
            /\ CommitStep(c, [Idle EXCEPT !.goal = "saved", !.at = "default",
                                          !.todo = <<p>>, !.clean = job[c].clean])
            /\ Slips(c, {p})
       ELSE Step(c, Idle) /\ UNCHANGED <<db, slipped>>
    /\ UNCHANGED <<cache, relay, jobs, outside>>

\* SaveAppPreferences: write, read back, tell the relay.
SavePrefs(c) ==
    /\ at(c) = "savePrefs"
    /\ db' = [db EXCEPT !.prefs = job[c].prefs]
    /\ CommitStep(c, [job[c] EXCEPT !.at = "reread"])
    /\ Slips(c, {"prefs"})
    /\ UNCHANGED <<cache, relay, jobs, outside>>

RereadPrefs(c) ==
    /\ at(c) = "reread"
    /\ Step(c, [job[c] EXCEPT !.at = "notify", !.prefs = db.prefs])
    /\ UNCHANGED <<db, cache, relay, slipped, jobs, outside>>

\* notifyProxyConfig.
Notify(c) ==
    /\ at(c) = "notify"
    /\ relay' = job[c].prefs
    /\ Step(c, Idle)
    /\ UNCHANGED <<db, cache, slipped, jobs, outside>>

\* buildSnapshot: the preferences, then every profile.
ReadPrefs(c) ==
    /\ at(c) = "readPrefs"
    /\ Step(c, [job[c] EXCEPT !.at = "look", !.prefs = db.prefs])
    /\ UNCHANGED <<db, cache, relay, slipped, jobs, outside>>

Snapshot(c) == [prefs |-> job[c].prefs, profiles |-> job[c].got]

\* The PUT may be lost, or done and its answer lost: the call ends either way.
Upload(c) ==
    /\ at(c) = "upload"
    /\ remote' \in {Snapshot(c), remote}
    /\ Step(c, Idle)
    /\ UNCHANGED <<db, cache, relay, slipped, jobs, rollback, legacy, boot, restarts, loaded>>

WriteRollback(c) ==
    /\ at(c) = "rollback"
    /\ rollback' = Snapshot(c)
    /\ Step(c, [job[c] EXCEPT !.at = "pull"])
    /\ UNCHANGED <<db, cache, relay, slipped, jobs, remote, legacy, boot, restarts, loaded>>

Pull(c) ==
    /\ at(c) = "pull"
    /\ remote # None
    /\ Step(c, [job[c] EXCEPT !.at = "replace", !.prefs = remote.prefs,
                              !.new = remote.profiles])
    /\ UNCHANGED <<db, cache, relay, slipped, jobs, outside>>

\* ApplySnapshot: one transaction, then the cache is filled platform by
\* platform, then the relay is told.
ApplySnapshot(c) ==
    LET new == job[c].new IN
    /\ at(c) = "replace"
    /\ IF \A p \in Platforms : Validate(new[p]) /\ ~Conflict(db.profiles[p], new[p])
       THEN /\ db' = [db EXCEPT !.prefs = job[c].prefs, !.profiles = new]
            /\ CommitStep(c, [job[c] EXCEPT !.at = "publish", !.todo = PlatformOrder])
            /\ Slips(c, Platforms \union {"prefs"})
       ELSE Step(c, Idle) /\ UNCHANGED <<db, slipped>>
    /\ UNCHANGED <<cache, relay, jobs, outside>>

\* Mutant of Publish: the relay is not told.
PublishQuietly(c) ==
    LET p == Platform(c) IN
    /\ at(c) = "publish"
    /\ cache' = [cache EXCEPT ![p] = job[c].new[p]]
    /\ Step(c, IF Tail(job[c].todo) # <<>> THEN [job[c] EXCEPT !.todo = Tail(@)] ELSE Idle)
    /\ UNCHANGED <<db, relay, slipped, jobs, outside>>

Publish(c) ==
    LET p == Platform(c) IN
    /\ at(c) = "publish"
    /\ cache' = [cache EXCEPT ![p] = job[c].new[p]]
    /\ Step(c, IF Tail(job[c].todo) # <<>> THEN [job[c] EXCEPT !.todo = Tail(@)]
               ELSE [job[c] EXCEPT !.todo = <<>>, !.at = "notify"])
    /\ UNCHANGED <<db, relay, slipped, jobs, outside>>

\* A query, a transaction or a request fails and the call returns its error.
\* What it committed before, and has not told, stays untold.
Fails(c) ==
    /\ at(c) \in {"default", "providers", "commit", "savePrefs", "reread",
                  "readPrefs", "rollback", "pull", "replace"}
    /\ slipped' = slipped \union Debts(c)
    /\ Step(c, Idle)
    /\ UNCHANGED <<db, cache, relay, jobs, outside>>

\* Another device pushes its configuration (bound: once, as the first).
OtherDevice ==
    /\ Up /\ remote = None
    /\ remote' \in Uploads
    /\ UNCHANGED <<db, cache, relay, rollback, legacy, boot, job, jobs, restarts, slipped, loaded>>

-----------------------------------------------------------------------------
Start == BootCheck \/ ImportPrefs \/ ImportProfile \/ MarkImported \/ ImportFails
            \/ InitProxy \/ Warm
Call(c) ==
    \/ BeginGet(c) \/ BeginSave(c) \/ BeginSavePrefs(c) \/ BeginPush(c) \/ BeginRestore(c)
    \/ Look(c) \/ ReadDefault(c) \/ ReadProviders(c) \/ Keep(c) \/ CommitProfile(c)
    \/ SavePrefs(c) \/ RereadPrefs(c) \/ Notify(c)
    \/ ReadPrefs(c) \/ Upload(c) \/ WriteRollback(c) \/ Pull(c) \/ ApplySnapshot(c)
    \/ Publish(c) \/ Fails(c)

Next == Start \/ Restart \/ OtherDevice \/ \E c \in Callers : Call(c)

Spec == Init /\ [][Next]_vars

-----------------------------------------------------------------------------
(* Properties.                                                              *)

BootSteps == {"check", "prefs", "profiles", "mark", "proxy", "warm", "up"}
Steps == {"idle", "look", "default", "providers", "keep", "commit", "savePrefs",
          "reread", "notify", "readPrefs", "upload", "rollback", "pull",
          "replace", "publish"}
Goals == {"none", "get", "save", "saved", "prefs", "push", "restore"}
Reading == {"look", "default", "providers", "keep", "commit", "publish"}
Defaults == {profile.default : profile \in Profiles}
MaybeProfile == Profiles \union {None}

Jobs == [goal : Goals, at : Steps, todo : Seq(Platforms),
         prefs : Preferences \union {None}, half : Defaults \union {None},
         got : [Platforms -> MaybeProfile], new : [Platforms -> MaybeProfile],
         clean : BOOLEAN]

\* Type invariant: every value has its type, and a call that reads or writes
\* profiles has one to go on with.
TypeOK ==
    /\ db \in [prefs : Preferences, profiles : [Platforms -> Profiles], imported : BOOLEAN]
    /\ cache \in [Platforms -> MaybeProfile]
    /\ relay \in Preferences
    /\ remote \in Snapshots \union {None} /\ rollback \in Snapshots \union {None}
    /\ legacy \in LegacyFiles
    /\ boot \in [at : BootSteps, todo : Seq(Platforms)]
    /\ job \in [Callers -> Jobs]
    /\ \A c \in Callers : at(c) \in Reading => job[c].todo # <<>>
    /\ jobs \in 0..MaxJobs /\ restarts \in 0..MaxRestarts
    /\ slipped \subseteq Platforms \union {"prefs"}
    /\ loaded \subseteq Platforms

\* The cache never serves a profile, nor the relay a proxy setting, other than
\* the stored one ("saved preferences take effect in the relay at once",
\* service.go:22-25), except while the call that saved it is still to tell
\* them, and except where two calls overlapped or one failed after its commit.
Agreement ==
    Up =>
    /\ \A p \in Platforms :
          \/ cache[p] \in {None, db.profiles[p]}
          \/ p \in slipped
          \/ \E c \in Callers : Owes(c, p)
    /\ \/ relay = db.prefs
       \/ "prefs" \in slipped
       \/ \E c \in Callers : OwesPrefs(c)

\* A call that no other overlapped works on the stored configuration: a saved
\* profile renames no provider (names tie requests, statistics and sessions
\* to it), a pushed snapshot is what is stored, and a restore replaces
\* nothing that its rollback file does not hold.
CleanCalls ==
    [][\A c \in Callers : job[c].clean =>
         /\ at(c) = "commit" /\ job'[c].goal = "saved" =>
              KeepsNames(db.profiles[Platform(c)], db'.profiles[Platform(c)])
         /\ at(c) = "upload" /\ job'[c] = Idle /\ remote' # remote =>
              remote' = [prefs |-> db.prefs, profiles |-> db.profiles]
         /\ at(c) = "replace" /\ job'[c].at = "publish" =>
              rollback = [prefs |-> db.prefs, profiles |-> db.profiles]]_vars

\* The import is marked only after every legacy file went in, and once it is
\* marked no start changes what the user has saved since.
ImportedOnce ==
    [][/\ db'.imported => \A p \in Platforms : legacy[p] # Missing => p \in loaded'
       /\ db.imported /\ db' # db => Up]_vars

=============================================================================
