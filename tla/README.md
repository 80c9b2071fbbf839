# Portico: a TLA+ verification project

Portico is a desktop application (Go, Wails) that stands between AI command line tools (Claude Code,
Codex, Gemini CLI) and their providers. A local HTTP relay forwards each request to a provider and keeps a
session on the provider it started with; an MCP gateway merges several MCP servers into one; the CLI's own
configuration files are taken over and restored; requests and application logs are written in the background.

This directory holds TLA+ modules translated from the Go source, the TLC configurations that check them on
small instances, and TLAPS proofs of the properties that matter most.

- [1. The system](#1-the-system)
- [2. Modules](#2-modules)
- [3. Runs, bounds and fairness](#3-runs-bounds-and-fairness)
- [4. Proofs](#4-proofs)
- [5. Where the code and its documents disagree](#5-where-the-code-and-its-documents-disagree)
- [6. Not modelled, and the plan](#6-not-modelled-and-the-plan)

## 1. The system

Paths are under `src/internal/`. The composition root is `app/bootstrap/container.go`: it opens the databases
(`app.db`, `request_log.db`), builds the services, starts the relay, the clean-up runner and the MCP
aggregator, and stops them in `Shutdown`.

| Component | State it keeps | Operations | What is hard | What makes it correct |
|---|---|---|---|---|
| Session lock table, `sessions/application/service.go` | a map from session to a reference-counted mutex | `LockSession` and the unlock it returns | entries are deleted and recreated while callers hold pointers to them | one mutex per session; the table holds exactly the entries in use; every caller gets in |
| Session cache and repository, `sessions/infrastructure/` | an LRU of entries (provider, times, generation); the table `session_provider_binding` | look up, bind, record a success, update, invalidate, clean up, record visibility | database calls run outside the cache's mutex; throttled persistence; expiry; eviction | an Unbind is final; a main session stays visible; every request ends |
| Relay routing, `interfaces/http/relay/routing.go`, `session_update_processor.go` | locals of a request: provider, generation, whether it was bound | resolve the binding, clear an invalid one, fall back to the default provider, handle success and failure | seconds or minutes pass between reading the generation and using it | a bound request goes to its provider; every request ends |
| Background worker, `shared/worker/background_worker.go`; used for `request_log` and session updates | a bounded channel, a batch, `stopped` | `Enqueue`, the loop with its ticker, `Stop` | sends race `Stop`; the buffer fills; a failed batch is retried one by one | every item is settled once; `Stop` waits for what was accepted and returns |
| Request-log writer, `observability/infrastructure/request_log_writer.go` | the table `request_log` | insert a batch in one transaction, three attempts on a busy database | a partial batch; giving up | nothing is stored twice |
| Application log, `shared/logging/` | a bounded channel, a `bufio.Writer`, its first error | `Write`, the loop, `Close` | writers block on a full queue holding a read lock that `Close` wants; write errors | the file is a prefix of what was accepted; `Close` without an error wrote it all; nobody waits for ever |
| MCP gateway, `mcpgateway/` | upstream records with state, session, generation; the tool registry; a wake-up token and retry timer | edit the configuration, reconcile, connect, register tools, refresh, forward a call, mark failed, close | connects and refreshes end late and out of order; names clash; shutdown with everything in flight | the pool becomes the configuration; a session serves the configuration it was opened for; no session leaks; one owner per name |
| Platform proxy, `platformproxy/` | CLI configuration files and a snapshot of their original values | enable, disable, inject MCP | crash between two files or two steps; user edits in between | the user's original values are restored |
| TOML, JSON and `.env` editing, `platformproxy/infrastructure/*_edit.go` | none: text in, text out | find, set, delete and restore a field; capture originals; create and prune tables | one field can be spelled in many ways (header, dotted key, inline table, repeated assignment), and the spelling changes in mid-cycle | nothing but the managed fields changes; an undisturbed cycle leaves no trace |
| Routing, `routing/` | profiles, preferences and an import mark in `app.db`, a profile cache, the relay's proxy setting | load and save a profile, save preferences, replace all, import legacy files, resolve a provider and a model | the cache is filled across a save; notifications out of order; an import that is cut short; maps without an order | the cache and the relay agree with the database; the import happens once; one request has one target |
| Relay HTTP, `interfaces/http/relay/` | locals of a request; the response writer | route, rewrite the model, forward, copy the answer | the upstream breaks off or the client leaves at any byte; a Codex stream reports its own outcome | the client gets what the upstream sent or one answer of the relay, never both; exactly the served requests are credited |
| Configuration sync, `configsync/` | one encrypted file on a WebDAV server, local rollback files | push, create a rollback, pull, apply | another device, a lost upload, other calls meanwhile | a push stores what is configured; a restore can be undone |
| Observability, `observability/` | read-only queries, TTL caches | list, aggregate | stale cached answers | an answer is at most its TTL old |
| Bootstrap | the handles of all of these | start, `Shutdown` | requests in flight when the database closes | what was accepted is written |

How they interact. A relay request calls the session cache (which calls the repository under the session lock
of the session service), forwards, then binds or records the success, and enqueues a session update and a
request log; both queues are background workers. The user's Unbind comes from the Wails facade through the
session service, which deletes the row under the session lock and then invalidates every registered cache.
The MCP configuration service writes a row and drops a token into the aggregator's one-place channel.
`Shutdown` stops the relay (HTTP, then the MCP gateway, then the workers), the clean-up runner, the databases
and the log, in this order.

`PROJECT.json` lists under "hazards" each place where this code can go wrong in a way a test would hardly
reach, and the properties that cover it.

## 2. Modules

| Module | Models | Abstract specification |
|---|---|---|
| `SessionMutex` | one mutex per session | - |
| `SessionLock` | the reference-counted lock table | implements `SessionMutex` |
| `SessionCache` | cache entry, row, lock, requests, update worker, Unbind, clean-up for one session | - |
| `Delivery` | what a background worker promises | - |
| `BackgroundWorker` | `Enqueue`, the loop, `Stop`, with the `request_log` writer | implements `Delivery` |
| `LogStream` | what the log writer promises about its file | - |
| `AsyncWriter` | `Write`, the loop, bufio, `Close` | implements `LogStream` |
| `SessionPool` | the life of upstream MCP sessions | - |
| `McpAggregator` | reconcile loop, connects, refreshes, calls, edits, `Close` | implements `SessionPool` |
| `PlatformProxy` | enable, disable, MCP injection, failures, crashes and user edits of the CLI's configuration files | - |
| `TomlEdit`, `JsonEdit`, `EnvEdit` | the three editors, as operators on the lines or members of a file | - |
| `ConfigEditing` | a takeover cycle of one file, field by field, with a user who edits it in between | - |
| `RoutingConfig` | database, profile cache, relay setting, import, start, push and restore | - |
| `ModelRouting` | patterns, mappings and the choice of a provider, as operators | - |
| `RelayRequest` | one request through the relay to the end of its answer | - |
| `MC...` | constants and symmetry for TLC | |
| `...Proofs` | theorems | |

**SessionLock.** The lock objects are modelled separately from the table, because the code deletes a table
entry when its count reaches zero and a later caller creates a new object for the same session: a caller that
still held the old one would be alone in a mutex of its own. One action per critical section of `locksMu`
(`CreateEntry`/`JoinEntry`, `DropReference`) and one each for `Lock` and `Unlock` of the session's mutex.

**SessionCache.** One session of one platform. Other sessions matter in one way only: they may push this one
out of the LRU, which is the action `Evict`. Time stamps are ages, in ticks, saturating one past the timeout;
the zero time is the oldest age. Every step under `Cache.mu` is atomic and every repository call is a step of
its own, so the interleavings are those of the code. Taking the session lock is merged with the first step
under it and releasing it with the last: both commute with what other goroutines can do in between, since the
lock excludes exactly the steps that look at the same data under it. The request's path follows the code:
`Arrive` (first look), `LookAgain` (second look, under the lock), `ReadRow`, `PublishRead`; `Resolve` decides
between the bound provider, an invalid binding (`InvalidateDirectly`, `UnbindRow`, `UnbindCache`) and
the default (`RouteToDefault`, which reads the generation); `ForwardFails` or `AfterSuccess`; then `BindCheck`,
`BindRow`, `PublishBind`, `RecordVisibility`, or `RecordSuccess`, `RecordVisibility`, `Enqueue`. The update
worker, or the request itself when the queue is full, runs `UpdateCheck`, `UpdateRow`, `PublishUpdate`.
`by` (whose answer made the binding) and `stale` (requests that read their generation before the latest
Unbind) are history variables. `Restart` loses everything but the row.

**BackgroundWorker.** An item is one `Enqueue` call on a goroutine of its own. `stateMu` is read-locked from
`CheckStopped` to the end of `Send`; `SetStopped` needs it. A panic of the processor counts as an error of it.
The processor is the `request_log` writer: a transaction either commits or not, a busy database is retried up
to `Attempts` times, and a database that stays busy ends the write *without* an error, so the batch is not
retried one by one. `dropWhenFull` is a setting chosen at the start: the `request_log` worker drops when the buffer
is full, the session-update worker is the same code that processes the item on the caller.

**AsyncWriter.** A record is a number of bytes, a byte is a pair of its record and its index, so the file
shows gaps, swaps and torn records. bufio is modelled by what it does: data that fits is copied, data that
does not fits the buffer first and flushes it, a long record with an empty buffer is written through, and the
first error stays. A write of the file may fail after any number of bytes.

**McpAggregator.** Every section under `mu` is one action. Generations are counted per server, although the
code has one counter: generations of different servers are never compared. A session is named by the
generation of the connect that opened it. The public tool names a version of an upstream's list gives are a
constant, so that two upstreams can offer the same name. `owner` is both the code's `tools` map and the
handlers of the MCP server, which every section changes together. A database id is never used again
(`AUTOINCREMENT`), so a deleted row does not come back. The retry timer fires when some failed upstream's
backoff is over; a database error arms it unconditionally. `opened` is a history variable.

**PlatformProxy.** One platform: Codex with `config.toml` and `auth.json`, or (`codex = FALSE`) Claude with
`settings.json` or Gemini with `.env`, which are the one file `config`. A file is three things: the value of
the fields Portico manages (the user's, absent, or `Ours`), whether there is anything else in it, and Portico's
MCP entry. Reading the file, saving the snapshot and writing each file are steps of their own, all under the
manager's mutex; `read` is the copy an operation works on. The user's editor, which knows no mutex, may replace a
file between any two steps; every read and write may fail; `Crash` ends the process between two steps (files
are replaced by rename, so a write is done or not). The copy is written back whole, so an edit made in between
is lost: the properties exempt the files the user edited during the operation (`edited`), and `FilesTogether`
also what a crash or a failed rollback left (`torn`). Files that an old version of the application took over
without a snapshot are not in `Init`; the code leaves those alone by design. A user who writes the relay's own
address into the fields by hand, or edits the MCP entry, is left out.

**TomlEdit, JsonEdit, EnvEdit.** A TOML file is the sequence of its expressions (headers, headers of arrays of
tables, key/values), a JSON object the sequence of its members, a `.env` file the sequence of its lines. What is
kept is what an editor can get wrong: which table a key belongs to, in which of the possible spellings a table
exists, where a line is inserted, whether a header or a container may go, how often a key is assigned, whether
the last line has its newline. A value has a meaning and a spelling, because the code leaves a value alone that
already means the right thing. White space, comments at the end of a line, quotes around keys and the scanning of
strings are left out. What the code does by recursion is a recursive function here: `Indexed` reads nested inline tables
level by level. The three are pure, as is the code: `TomlEdited`, `JsonEdited` and `SetEnv` give the new
document or refuse. sjson and gjson are external and modelled by what they do.

**ConfigEditing** puts the editors to work: `Enable` captures the originals and applies every field in order,
`Disable` restores them and prunes containers that were not there, `UserEdit` inserts or removes any line in
mid-cycle, `InjectMcp` decodes and rewrites a whole `config.toml` in the library's own layout. It is the other half
of `PlatformProxy`: there the files are whole and the interleavings many, here one caller works and the text counts.

**RoutingConfig.** Facade calls and relay requests run on goroutines without a common lock; each query and each
transaction is one step, because the core database has one connection. A call is a record `[goal, at, todo, ...]`:
what it is for, where it is, which platforms are left. `Look`, `ReadDefault`, `ReadProviders`, `Keep` are
`GetProfile` with the cache around it (two queries, so a torn read is possible); `CommitProfile` is the check of
names, the transaction and the read back; `SavePrefs`, `RereadPrefs`, `Notify` are `SaveAppPreferences`; `ReadPrefs`,
`Upload`, `WriteRollback`, `Pull`, `ApplySnapshot`, `Publish` are push and restore. `Fails` ends a call at any query.
`boot` walks through a start: import with its mark, proxy setting, warm-up. `slipped` is a history variable that
says where the code's lack of a lock has let two calls overlap; the properties exempt exactly these, and
section 5 says what happens there. Archive times, encryption, the name of the remote file and of the rollback
files are left out.

**ModelRouting** translates `MatchWildcard`, `ApplyWildcardMapping`, `GetEffectiveModel`, `IsModelSupported` and the
resolver. A name is a sequence of characters. Go goes through a map in any order, so `GetEffectiveModel` takes that
order as an argument; a slice out of range gives `Panic`.

**RelayRequest** is one request: `Route`, `Prepare` (the body replacements of Claude's providers, as far as they
change the model, then the effective model of what is in the body), `SendFails` or `Answered`, then `Buffered`
or the stream (`FirstFails`, `Pseudo`, `ReadLine`, `StreamEnds`) and `Finish`. The response writer is the point: a
status that was set is sent with the first byte, with a flush or at the end, and only a request that has sent
nothing may be answered with the relay's own JSON. The client may leave at any time, which cancels reading and
may fail a write. The platform is the profile's; `field` says whether the body has a model at all, for only then
the code reads it again after the replacements (`Requested`). A replacement is the value it puts in and the value
it is for, or none when it is for all (`Replaced` takes them in turn); that a literal of one is no JSON is the other
outcome of `Prepare`. Session binding and the log worker are the models above; here they are what the request asks
of them (`credited`, `logged`).

## 3. Runs, bounds and fairness

| Run | Question | Bounds, and why they are enough |
|---|---|---|
| `session_lock` | is the lock table one mutex per session? | two sessions, three goroutines: one holds, one waits on the object, one arrives after its deletion |
| `session_safety` | is an Unbind final, is a main session kept visible, whatever fails? | two requests, one Unbind-er, timeout 0 (every lookup may be live or expired), one generation bump by the user, every repository call may fail, the process may end at any step; two requests are needed for one to be stale and one current, and a queue of one so that the second updates synchronously |
| `session_live` | does every request end? | one request that may come again and again, Unbind, eviction; a repository that works (one that fails ends the request earlier) |
| `worker` | is everything settled once, does Stop wait, does it return? | three items, buffer 1, batch 2, three attempts: a full buffer, a full and a partial batch; both reactions to a full buffer |
| `log_writer` | order, loss, blocking | three records of 1, 2 and 3 bytes and a buffer of 2: fits, fills, exceeds; queue 1 so that two writers wait |
| `mcp_pool` | is every session closed once and in the end, does a late connect serve a changed configuration, does a call that fails late hurt the session that replaced its own, does the pool become the configuration, does Close drain? | one upstream with two fingerprints, one edit, one failure anywhere (database, dial, list or call), one call, Close: enough for a connect, or a call on the session that was replaced, to end after an edit, a failure or Close |
| `mcp_names` | who owns a name? | two upstreams that both offer `p`, from the start or after a change of their list; one refresh, one edit, one call, Close, no failures |
| `editing_newline` | see section 5 | as `editing`, with files whose last line has no newline |
| `editing` | does a takeover change anything but its fields, does it come back as it was, whatever the spelling? | every file of up to three lines from an alphabet of fifteen TOML expressions, six JSON members or six `.env` lines that has each spelling the code distinguishes; one edit by the user (any line in any place), or one `InjectMcp`; three lines are needed for a header, a key under it and a neighbour. Files end with a newline; for those that do not see section 5 |
| `routing` | does the cache or the relay setting ever differ from the database, is a push or a restore what it claims, is the import done once? | two goroutines, two platforms, two profiles that conflict in a name, three calls, one restart at any point, one upload by another device; two calls are needed to overlap and the third to see the result. One restore at a time, as in the settings page |
| `relay` | can the relay's JSON end up in an upstream's answer, who is credited, is the target unique? | eight profiles of three platforms, with two providers each: overlapping, tied and ambiguous patterns, replacements that follow one another, that apply to Claude only, or that put in a model the provider does not list; five models, answers of up to three lines of every kind: before, at and after the terminal event of a Codex stream |
| `takeover` | are the user's values ever lost, is a cycle closed too early, do the two files agree, is the MCP entry as asked? | two callers (one in an operation, one waiting), one user value besides "absent"; every combination of existing files at the start, any number of edits, failures and crashes |

Every bound is a named constant. `MaxEdits`, `MaxFailures`, `MaxVersion` and `MaxGeneration` limit only the
environment (users, networks, upstreams), never a step of the code, so no code path is cut short; `MaxJobs` and
`MaxRestarts` do the same for `RoutingConfig`, where a call once begun always ends. Deadlock is checked where the
system runs for ever; the worker, the log writer, the aggregator and a request stop, and `routing` and `editing` end
when their bounds are used up.

Each property of a passing run has a mutant: a plausible bug (a generation that is not compared, a batch that
is not emptied, a missing wake-up), written next to the action it breaks, under which TLC finds the property
violated.

*Fairness.* A goroutine that can run does (weak fairness). A Go mutex hands itself to a waiter that has waited
longer than a millisecond, so taking a lock is strongly fair. A `select` among ready cases picks one at random,
so the closed shutdown channel is not passed over for ever (strong fairness of `BeginDrain`, `LoopExits`). A
pending `Lock` of an `RWMutex` keeps new readers out (`SetStopped`; `AsyncWriter` models the announcement
itself). Tickers fire, calls with a timeout end. Nothing obliges a user to act, an upstream to fail or to
answer well, or a session to be evicted.

## 4. Proofs

TLAPS checks, for all values of the constants (any number of sessions, goroutines, requests, items, any
capacities and timeouts):

| Module | Theorem | States |
|---|---|---|
| `SessionProofs` | `LockTypeCorrect` | type correctness of the lock table |
| | `SessionsExclusive` | mutual exclusion per session |
| | `NoLeak` | the table holds exactly the entries in use |
| | `LockTableIsMutex` | the refinement of `SessionMutex` |
| | `TypeCorrect` | type correctness of the session cache |
| | `UnbindIsFinal` | without eviction, no response from before an Unbind recreates the row |
| | `UnbindIsFinalInMemory` | nor the entry in memory |
| | `VisibleForGood` | a main session's row is never hidden again, eviction and restarts included |
| `BackgroundWorkerProofs` | `TypeCorrect` | capacities are never exceeded |
| | `EachItemOnce` | nothing is settled twice |
| | `NothingLeftBehind` | whatever was queued is settled when Stop returns |
| | `WorkerDelivers` | the refinement of `Delivery` |
| `AsyncWriterProofs` | `TypeCorrect` | types; queue and buffer stay within their capacities |
| | `NothingLostOrTorn` | every accepted byte is in the file, the buffer, the worker's hands or the queue, once and in order |
| | `WriterImplementsStream` | the refinement of `LogStream` |
| `McpAggregatorProofs` | `TypeCorrect` | type correctness |
| | `NamesAgree` | a published name belongs to the one upstream that lists it |
| | `ServedByItsConfig` | a connected upstream is served by a session opened for its configuration |
| | `SessionsLeaveForCause` | a session leaves service only for its configuration, Close, or a failing call of its own |
| | `SessionsImplementPool` | the refinement of `SessionPool` |
| `PlatformProxyProofs` | `TypeCorrect` | types, mutex, no originals outlive their cycle |
| | `OriginalsNeverLost` | a file points at the relay only while a snapshot holds the user's values |
| | `BothOrNone` | Codex's two files are taken over together or not at all |
| | `DisableRestores` | a cycle closes only on restored files |
| | `EntryIsAsAsked` | taking over and restoring leave the MCP entry alone |
| `ConfigEditingProofs` | `EnvTypeOKHolds` | a `.env` stays a sequence of lines of which only the last may lack its newline |
| | `EnvSetAndPutBackHolds` | Enable points every assignment at the relay, Disable gives the old values back, whatever the user did to the file in between |
| | `EnvRoundTripHolds` | a cycle in which nobody else writes leaves the `.env` as it was, line for line |
| | `EnvKeepsTheRestHolds` | Enable and Disable leave the other lines as they are, in their order |
| | `SetEnvSets` | what `setEnvField` does to any file: the key means the new value, all other keys' lines say what they said |
| | `RestoreEnvRestores` | what `restoreEnvField` does to any file: the key means what the originals say, all other keys' lines say what they said |
| | `CycleLeavesNoTrace` | restoring both keys undoes setting both, for any file |
| `RoutingConfigProofs` | `TypeCorrect` | types; a call that reads profiles has one to go on with |
| | `CacheAndRelayAgree` | cache and relay agree with the database, but for what a call has still to tell |
| | `ImportsOnce` | the import is marked when all files are in, and never repeated |
| | `CleanCallsWork` | a call that no other overlapped works on the stored configuration |
| `RelayRequestProofs` | `TypeCorrect` | types; at most one provider, at most one log record |
| | `NothingMixedIn` | the client gets the upstream's answer or the relay's error, never both |
| | `OnlyServedIsCredited` | exactly the answers that were served are credited |
| | `OneModelWhateverOrder` | one model is sent, in whatever order the patterns are gone through, for the model the replaced body asks for |

`SessionProofs` has the theorems of two specifications that share no variable, the lock table and the cache that
uses it; its module extends both, so the constants and assumptions of both are in scope. `LockSpec` and `Spec` are
never conjoined.

*The arguments.* Mutual exclusion of `SessionLock` is not inductive: it holds because the caller inside holds
the object the table points to, and the table points to an object as long as its count, which is the number of
callers with a pointer to it, is not zero. The invariant `IInv` says this of the counts.

`UnbindIsFinal` needs `UnbindInv`: a stale request's generation is smaller than the entry's, or the Unbind is
between its two halves and still holds the session lock; whoever is between `BindCheck` and `PublishBind` holds
the lock and is not stale; an entry exists as soon as a generation above zero was handed out. The last part is
what eviction breaks, hence the assumption `~EvictionPossible`. It needs no assumption on failures or crashes.

`StopDrains` of the worker needs that no call is between `CheckStopped` and `Send` once `stopped` is set (the
read lock), that the worker leaves only after it saw the shutdown channel closed and the queue empty, and that
each item is in at most one place: queue, batch, or settled. `SettledOnce` follows from the last.

`VisibleForGood` needs no invariant but the types: the three steps that rewrite a row (`BindRow`, `RecordVisibility`,
`UpdateRow`) keep the mark of a main session, and all others leave the row, let it age or delete it.

For `AsyncWriter`, LogStream speaks of the file only, so `InOrder` has to say where everything else is. It does so by
offsets into the bytes accepted (`sent`): the file is its first `Len(file)` bytes, buffer and `held` follow, and a function
`at` gives each queued record its stretch. Comparing one byte at an offset is something the provers can do; a
statement about the concatenation of all records in the queue would be an induction. After a write error
only the part on the file is claimed, as in the code. `Stages` has what the steps of `Close` rely on: nobody is sending
once `closed` is set, and the worker leaves only with an empty queue and an empty or refused buffer.

`McpAggregator`'s invariant has five layers: the types; what connects, refreshes and calls under way have in hand
(`InProgress`); what `Close` leaves behind (`AfterClose`); the book-keeping of sessions: a generation on record was given
out, a session in service was opened for its record's configuration and is not being closed, each server has at
most one connect that is awaited, and each open session has somebody who will close it (`Bookkeeping`); and the registry.
Neither the registry nor the sessions can be proved alone: a refresh may publish because its session is still the one on
record, and that session is unique because generations are. `SessionsLeaveForCause` follows from the same invariant:
where a connect puts its session nothing is in service, for the record still waits for it. `TypeOK` says beyond the types
(`PoolTypes`) that whoever goes on outside the lock has a session in hand; `InProgress` contains it.

`PlatformProxy`'s invariant has four parts, each needing those before it: the shape (only the holder of the mutex
has read anything), the originals (a copy is current or the user has replaced the file; while no cycle is open
neither a file nor a copy points at the relay; what has been restored stays restored), the MCP entry (every copy
has it as asked), and the two files (what a half-done Enable, Disable or rollback has reached).

`RoutingConfig` has four layers. The types say what a call has read at each step (`GoalFits`, `ValuesRead`): one of
all platforms has read those that are not left. `AgreeInv`: what a call holds and will put into the cache is what is
stored unless it has slipped, and what the cache or the relay lack is owed by somebody. `ImportInv`: the platforms
the import has done are in, and calls, which run only once the process is up, leave the mark alone. `CleanInv`: while
a clean call works, nothing has slipped and nobody owes anything; hence the cache is as the database, hence what the
call has read is what is stored; at most one restore runs (the settings page waits for it), so its rollback file is its own.

`RelayRequest`'s invariant: before the handler returns, what was written is the beginning of what was read, all of it
if the client is there; a status is sent as soon as a line is; the outcome is the first event that ends a Codex response,
and that event stays the first when lines are added. `CreditedServed` speaks in both directions: `Succeeded`, which
the code computes from its running outcome, is the same as `Served`, which looks at the lines that were read. Of the two
halves of the comment at `codex_stream.go:17` it states the first, that a 200 alone is no success; of the second, that
the events decide, it exempts the answer that ends in order with neither event, which the code counts as served
(section 5).

`OneModelWhateverOrder` is about `wildcardMoreSpecific`. The order of Go's strings is restated by the place where two of
them part (`PrecedesParts`), from which it is asymmetric, transitive and total (the place is the least element of a set of numbers,
which the library's theorem on well-founded relations provides); hence so is the order of patterns. By a minimal
counterexample over the loop's index, the search over a map holds after `i` patterns the best of the first `i` that
match (`Leads`). Any order of the map goes through all its keys (`OrderCovers`), so all orders end at the same pattern. The
invariant `TargetFits` then carries the model from `Prepare` to the end of the request. The proof also shows why the model may
leave out the code's `found`: an empty pattern matches only the empty name, which is then a key of the map and is not
searched for. An attempt to prove `OneTarget` showed that a model is compared with patterns for equality too, which matters for
a name with two stars; the property now says so.

The `.env` proofs are about files of any length and any lines, and any number of edits and cycles. The editor's
loops are recursive functions of the line number (`Joining`, `Keeping`), so what they compute is proved going up
from line to line: the numbers for which a claim holds contain 0 and with each number the next (`CountUp`, from the
least element of a set of numbers). That works where the claim is a set known in advance; it is not an induction
rule with an operator as parameter. A file is then seen through `Of` (the lines of some keys, in order) and `View`
(what these lines say: key, value and what surrounds it, but not the quotes, nor the newline that an appended line
supplies). `SetEnvSets` and `RestoreEnvRestores` say what the two editors do to the view of each key, the second by
its three cases (append, replace in place, move behind the first remaining assignment). `CycleLeavesNoTrace` needs
more than views: it cuts the file after Enable into the user's lines with the values exchanged and a line for each
key he had none for (`Parts`), and follows both restores through it. `EnvInv` puts them together: the types; only
while the relay is in the file may its last line lack a newline, and then it is a managed one, which Enable
appended; the snapshot is that of the file when the cycle began; and a file nobody else has touched is what Enable
made of that one. `SetAndPutBack` alone is not inductive, since it speaks only of the moment after an operation.
These three theorems assume `LastLineEnded \subseteq {TRUE}`: without it they are false, which is the bug
`editing_newline` shows. The types need no such assumption (`EnvShape`: whatever happens, lines run together into
one line, of the kind `Garbled`).

Assumptions are those the modules name (`WorkerConstants`, `CacheConstants`, `PoolConstants`, ...): positive capacities and
distinct identities. `RelayConstants` says that the providers of a profile have distinct names, which
`UNIQUE(platform, name)` enforces (`sqlite_store_base.go:56`), and that a map of patterns is finite and its keys are
strings. `EditingConstants` says of the
user's `.env` lines only that they are lines as `EnvLine` makes them. `UnbindIsFinal` and `UnbindIsFinalInMemory` assume more
(`~EvictionPossible`), and so do three of the `.env` theorems (`LastLineEnded \subseteq {TRUE}`); the theorems about the
specification of `ConfigEditing` are about its behaviours with `tool = "gemini"`. The actions' `\E` over failures means the
theorems hold for every pattern of failures.

*Only model-checked:* all liveness (`EveryCallerEnters`, `RequestsEnd`, `CallsSettle`,
`CallsReturn`, `RecordsReachFile`, `Settles`), which is outside the prover's reach; and, for the files of Codex and Claude,
`KeepsTheRest`, `SetAndPutBack`, `RoundTrip` and the type invariant of `ConfigEditing`. A TOML or JSON document is a tree: a
value may hold further key/values to any depth, the editor finds a place by its path in it, and what that computes for
every document is an induction over the depth with a claim about all trees of that depth. The run goes through every
file up to its bound instead.

## 5. Where the code and its documents disagree

`editing_newline` is a run that TLC finds violated; `PROJECT.json` quotes the sentence under "findings". A `.env`
whose last line sets a managed key and has no newline (one line `GEMINI_API_KEY=key` is enough) gets the relay's
address as a further line. Disable puts the original line back as it was, without a newline, and joins the lines
(`env_edit.go:95`): the file ends as `GEMINI_API_KEY=keyGOOGLE_GEMINI_BASE_URL=...`, and the key is lost. A line that the
user has added in mid-cycle is swallowed in the same way. The run `editing` has only files that end with a newline.

Seen while modelling, without a run of its own:

*Sessions*

- An evicted session starts again at generation 0, so a response from before an Unbind counts as current and
  writes the binding again (`session_safety` with `EvictionPossible = TRUE` violates `NoResurrectedRow`;
  `cache_concurrency_test.go:142` asks for the opposite). It takes more than 1000 sessions in use within the time of
  one request.
- After a bind that an Unbind has made void the request still classifies whatever binding is there
  (`routing.go:201`), so a background session that was bound meanwhile is listed.
- A session lookup empties an expired entry in place (`cache.go:109`); an update that arrives after it renews the
  emptied entry (`cache.go:196`), which then hits with no provider although the row is alive. The update has to
  be delayed past the session timeout, minutes to hours.

*Log*

- After one failed write of the log file (a disk that is full for a moment) bufio refuses everything for ever
  (`async_writer.go:100`); `Write` goes on reporting success, and the one report, from `Close`, is ignored.

*MCP gateway*

- A `list_changed` between the fetch of the first list and its registration is dropped (`aggregator.go:486`), and of
  two refreshes of one session that finish in the opposite order the older list stays published (`:514`), against
  the comment at `:477`. The next change of the list repairs both.
- `Statuses` says it lists disabled upstreams as well, but an upstream that is disabled when the loop first sees
  it (at the start, or created disabled) gets no record (`aggregator.go:319`), so it is missing there.

*Takeover*

- An `EnableProxy` that fails after its snapshot was saved leaves the cycle open. What the user changes in the
  managed fields before enabling again is not in the snapshot, and a later Disable brings the older values back.

*Routing and configuration sync*

- Two `SaveAppPreferences` at once, or one whose read back fails after its commit, leave the relay on another
  proxy setting than the database; the next save or start repairs it. This is what `slipped` exempts.
- `GetProfile` reads the default and the providers in two queries: across a save it can return, and cache, a
  profile that was never stored.
- Rows are upserted one by one under a unique name, so a restore that exchanges the names of two providers fails.
- An import with a broken file is tried again at each start, and resets the preferences each time.
- After a restore the cache has the snapshot's archive times and the database its own; rollback files are named
  to the second, so two in one second are one.

*Relay*

- An upstream error with an empty body is replaced by the relay's 502 (`http.go:227`, `:76`): the client never sees
  the status of the upstream.
- A Codex stream that ends without a terminal event, or with a `response.completed` that carries an error, counts as
  a success when the connection ends cleanly, against the words of `codex_stream.go:17` and the test
  `codex_stream_test.go:47`, which asks it of the observer only. `CreditedServed` exempts these answers.
- A replacement may put another model into the body of a Claude request (`routing.go:112`) after `ResolveProvider` has
  asked the provider for the one before; nothing asks again, so a provider can be sent a model it does not list.
  `OneTarget` exempts such requests from the check of the list, not from the mapping.
- A pattern such as `a*a` matches `a`, and slicing what the star stood for is then out of range
  (`models.go:380`): gin answers 500.

## 6. Not modelled, and the plan

The order of the plan was by importance: sessions, background worker, application log, MCP gateway, takeover; then
the editors, routing and its storage, and the relay's answers. These are modelled, with the limits section 2 names.
What could follow:

1. The proofs for `.env` files carried over to `config.toml` and `settings.json`. A first step is a file without inline
   tables, where a binding is a line and the argument of `Of` and `View` applies to the lines of a table.
2. `Shutdown` as a composition: it stops HTTP (five seconds), the gateway, the workers, clean-up, the database and the
   log in this order. A stream that outlives the five seconds ends after its worker: its log record is refused
   (`Enqueue` returns false), by design. Each stop is modelled in its component; their composition is not.
3. Several sessions in one LRU, and row ages beyond one timeout.

Not modelled, and why:

- *Tool naming, validation, connector* (`mcpgateway`): rules on strings and calls of the SDK. A server name that ends
  with an underscore can make two public names equal; the registry, which is modelled, then gives the name to one.
- *Observability queries and their TTL caches*: read-only SQL; a stale answer lasts a few seconds.
- *Storage connections*: a map of handles behind a mutex; after `CloseConnections` every call fails, which the
  models have as an error outcome.
- *Pricing*: arithmetic on a table that is shipped with the program, without state.
- *Authentication, list of models, token parsing, probe*: one pass over a request, no state.
- *Hotkeys, Wails facades, desktop shell, frontend*: the operating system and the window; the facades only forward.
- *Encryption, WebDAV settings, preview of a restore*: a pull may fail, which is all the model needs of them.
- *Claude's MCP entry* is in a file of its own (`.claude.json`), written whole by one caller. *Files of old versions*
  that were taken over without a snapshot are left alone by the code.
- *Migration of old data directories*: it runs before anything else starts.

What the Go runtime, SQLite, bufio, sjson and the MCP SDK do is modelled only where the code relies on it, and
marked external in `PROJECT.json`.
