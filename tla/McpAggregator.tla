--------------------------- MODULE McpAggregator ---------------------------
(***************************************************************************)
(* The MCP aggregator of mcpgateway/application/aggregator.go with the     *)
(* configuration service in front of it (service.go): the reconcile loop,  *)
(* the connect, refresh and close goroutines it starts, the calls that are *)
(* forwarded, and Close.  mu is held from each Lock to its Unlock, so a    *)
(* locked section is one step.                                             *)
(*                                                                         *)
(* A server is its database id, which is never used again.  Generations    *)
(* are counted per server: the code has one counter for all, but compares  *)
(* only generations of one server.  A session is named by the generation   *)
(* of the connect that opened it.  What an upstream offers is a numbered   *)
(* version of its tool list.                                               *)
(***************************************************************************)
EXTENDS Integers, FiniteSets

CONSTANTS
    Servers,
    Prints,          \* configuration fingerprints
    Names,           \* public tool names
    Offers(_, _),    \* Offers(s, v): the names in version v of the list of s
    Callers,         \* tools/call requests in flight
    Refreshers,      \* list refreshes in flight
    MaxEdits,        \* bounds: configuration edits,
    MaxFailures,     \*   failures of upstreams and database,
    MaxVersion,      \*   versions of a tool list,
    Closes,          \* the application shuts down
    Generations      \* the generations Pool speaks about

None == "none"

ASSUME PoolConstants ==
    /\ None \notin Servers
    /\ MaxVersion \in Nat \ {0}
    /\ \A s \in Servers, v \in 1 .. MaxVersion : Offers(s, v) \subseteq Names
    /\ Generations \subseteq Nat \ {0}

Row == [status : {"enabled", "disabled"}, print : Prints]
NoRow == [status : {"uncreated", "deleted"}, print : {None}]
Uncreated == [status |-> "uncreated", print |-> None]
Deleted == [status |-> "deleted", print |-> None]

VARIABLES
    repo,        \* mcp_servers: the row of each id, or why there is none
    ups,         \* the upstream record of each server
    owner,       \* tools, and the handlers of mcpServer: the server behind a name
    genSeq,      \* generations given out
    wakeup,      \* the token in syncCh
    timer,       \* why retryC is armed: "off", "retry", "repo"
    loop,        \* where reconcileLoop is
    listed,      \* what its repo.List returned
    connects,    \* connectAndRegister goroutines
    refresh,     \* refreshTools goroutines
    open,        \* upstream sessions not closed yet
    closing,     \* sessions handed to a goroutine that closes them
    calls,       \* where each tools/call is
    notices,     \* list_changed notifications under way
    version,     \* the version of its tool list an upstream offers
    pending,     \* edits written whose NotifyChanged has not run
    closer,      \* where Close is
    opened,      \* history: every session opened, and the configuration it was for
    edits, failures

loopVars == <<wakeup, timer, loop, listed>>
poolVars == <<ups, owner, genSeq, open, closing>>
jobVars == <<connects, refresh, calls>>
worldVars == <<repo, notices, version, pending, edits, failures>>
vars == <<loopVars, poolVars, jobVars, worldVars, closer, opened>>

NoUpstream == [state |-> "absent", print |-> None, session |-> 0, gen |-> 0,
               tools |-> {}, listVersion |-> 0, due |-> FALSE]

NoRefresh == [step |-> "idle", server |-> None, session |-> 0, gen |-> 0, listVersion |-> 0]
NoCall == [step |-> "idle", server |-> None, session |-> 0]

Init ==
    /\ repo \in [Servers -> Row \union {Uncreated}]
    /\ ups = [s \in Servers |-> NoUpstream]
    /\ owner = [p \in Names |-> None]
    /\ genSeq = [s \in Servers |-> 0]
    /\ wakeup = TRUE /\ timer = "off" /\ loop = "select"
    /\ listed = [s \in Servers |-> Uncreated]
    /\ connects = {}
    /\ refresh = [r \in Refreshers |-> NoRefresh]
    /\ open = {} /\ closing = {} /\ opened = {}
    /\ calls = [c \in Callers |-> NoCall]
    /\ notices = [s \in Servers |-> 0]
    /\ version = [s \in Servers |-> 1]
    /\ pending = 0 /\ edits = 0 /\ failures = 0
    /\ closer = "open"

closed == closer \in {"waiting", "returned", "gaveUp"}

-----------------------------------------------------------------------------
(* The configuration service: write the row, then NotifyChanged.           *)

Edit(s, row) ==
    /\ edits < MaxEdits
    /\ repo[s].status # "deleted" /\ repo[s] # row
    /\ row = Deleted => repo[s].status # "uncreated"
    /\ repo' = [repo EXCEPT ![s] = row]
    /\ edits' = edits + 1
    /\ pending' = pending + 1
    /\ UNCHANGED <<loopVars, poolVars, jobVars, notices, version, failures, closer, opened>>

Notify ==
    /\ pending > 0
    /\ pending' = pending - 1
    /\ wakeup' = TRUE
    /\ UNCHANGED <<timer, loop, listed, poolVars, jobVars, repo, notices, version, edits, failures, closer, opened>>

-----------------------------------------------------------------------------
(* What the locked sections do to the pool.                                *)

\* Mutant of Registered: a name another server has is taken from it.
RegisteredAll(s, offered, owned) == offered

\* registerToolsLocked: names another server has are skipped.
Registered(s, offered, owned) == {p \in offered : owned[p] \in {None, s}}

Register(s, offered, owned) ==
    owner' = [p \in Names |-> IF p \in Registered(s, offered, owned) THEN s ELSE owned[p]]

\* The registry without the tools of some servers.
Without(gone) ==
    [p \in Names |-> IF \E s \in gone : p \in ups[s].tools THEN None ELSE owner[p]]

SessionsOf(gone) == {<<s, ups[s].session>> : s \in {t \in gone : ups[t].session # 0}}

\* detachLocked, of one record.
Detached(s) ==
    [ups[s] EXCEPT !.gen = genSeq[s] + 1, !.tools = {}, !.session = 0, !.listVersion = 0]

-----------------------------------------------------------------------------
(* reconcileLoop.                                                          *)

TakeWakeup ==
    /\ loop = "select" /\ wakeup
    /\ wakeup' = FALSE
    /\ loop' = "list"
    /\ UNCHANGED <<timer, listed, poolVars, jobVars, worldVars, closer, opened>>

\* A retry timer fires when the earliest backoff is over.
Due ==
    LET failed == {s \in Servers : ups[s].state = "failed"}
    IN  timer = "repo" \/ (timer = "retry" /\ (failed = {} \/ \E s \in failed : ups[s].due))

TimerFires ==
    /\ loop = "select" /\ Due
    /\ timer' = "off"
    /\ loop' = "list"
    /\ UNCHANGED <<wakeup, listed, poolVars, jobVars, worldVars, closer, opened>>

\* The select sees stopCh closed.
LoopExits ==
    /\ loop = "select"
    /\ closer # "open"
    /\ loop' = "exited"
    /\ UNCHANGED <<wakeup, timer, listed, poolVars, jobVars, worldVars, closer, opened>>

List ==
    /\ loop = "list"
    /\ \/ /\ listed' = repo
          /\ loop' = "apply"
          /\ UNCHANGED <<timer, failures>>
       \/ /\ failures < MaxFailures      \* the database fails: try again later
          /\ failures' = failures + 1
          /\ timer' = "repo"
          /\ loop' = "select"
          /\ UNCHANGED listed
    /\ UNCHANGED <<wakeup, poolVars, jobVars, repo, notices, version, pending, edits, closer, opened>>

(* syncOnce, under the lock: compare the records with what was listed.     *)

Enabled(s) == listed[s].status = "enabled"
Disabled(s) == listed[s].status = "disabled"
Missing(s) == ~Enabled(s) /\ ~Disabled(s)
Has(s) == ups[s].state # "absent"

TornDown == {s \in Servers : Has(s) /\
                \/ Enabled(s) /\ ups[s].print # listed[s].print
                \/ Missing(s)}
TurnedOff == {s \in Servers : Has(s) /\ Disabled(s) /\ ups[s].state # "disabled"}
Fresh == {s \in Servers : Enabled(s) /\ (~Has(s) \/ s \in TornDown)}
Again == {s \in Servers : Enabled(s) /\ s \notin TornDown /\
             \/ ups[s].state = "disabled"
             \/ ups[s].state = "failed" /\ ups[s].due}

\* The last generation given out: one for a detach, one for a connect.
NextGen(s) ==
    genSeq[s] + (IF s \in TornDown \union TurnedOff THEN 1 ELSE 0)
              + (IF s \in Fresh \union Again THEN 1 ELSE 0)

Synced(s) ==
    CASE s \in Fresh -> [NoUpstream EXCEPT !.state = "connecting", !.print = listed[s].print,
                                           !.gen = NextGen(s)]
      [] s \in Again -> [ups[s] EXCEPT !.state = "connecting", !.gen = NextGen(s), !.due = FALSE]
      [] s \in TurnedOff -> [Detached(s) EXCEPT !.state = "disabled", !.print = listed[s].print]
      [] s \in TornDown \ Fresh -> NoUpstream
      [] OTHER -> ups[s]

Dial(s) == [server |-> s, session |-> NextGen(s), gen |-> NextGen(s), print |-> listed[s].print,
            step |-> "dial", listVersion |-> 0]

Apply ==
    /\ loop = "apply"
    /\ loop' = "arm"
    /\ IF closed THEN UNCHANGED <<ups, owner, genSeq, closing, connects>>
       ELSE /\ ups' = [s \in Servers |-> Synced(s)]
            /\ owner' = Without(TornDown \union TurnedOff)
            /\ genSeq' = [s \in Servers |-> NextGen(s)]
            /\ closing' = closing \union SessionsOf(TornDown \union TurnedOff)
            /\ connects' = connects \union {Dial(s) : s \in Fresh \union Again}
    /\ UNCHANGED <<wakeup, timer, listed, open, refresh, calls, worldVars, closer, opened>>

\* nextRetryDelay: arm the timer when some upstream waits to be retried.
Arm ==
    /\ loop = "arm"
    /\ loop' = "select"
    /\ timer' = IF \E s \in Servers : ups[s].state = "failed" THEN "retry" ELSE "off"
    /\ UNCHANGED <<wakeup, listed, poolVars, jobVars, worldVars, closer, opened>>

\* The backoff of a failed upstream runs out.
BackoffEnds(s) ==
    /\ ups[s].state = "failed" /\ ~ups[s].due
    /\ ups' = [ups EXCEPT ![s].due = TRUE]
    /\ UNCHANGED <<loopVars, owner, genSeq, open, closing, jobVars, worldVars, closer, opened>>

-----------------------------------------------------------------------------
(* connectAndRegister and finishConnect.                                   *)

Session(job) == <<job.server, job.session>>
Become(job, step) == (connects \ {job}) \union {[job EXCEPT !.step = step]}

Fail == failures < MaxFailures /\ failures' = failures + 1

Connect(job) ==
    /\ job \in connects /\ job.step = "dial"
    /\ \/ /\ open' = open \union {Session(job)}
          /\ opened' = opened \union {<<job.server, job.session, job.print>>}
          /\ connects' = Become(job, "list")
          /\ UNCHANGED failures
       \/ /\ Fail
          /\ connects' = Become(job, "failed")
          /\ UNCHANGED <<open, opened>>
    /\ UNCHANGED <<loopVars, ups, owner, genSeq, closing, refresh, calls,
                   repo, notices, version, pending, edits, closer>>

\* session.Tools; when it fails the session is closed at once.
ListTools(job) ==
    /\ job \in connects /\ job.step = "list"
    /\ \/ /\ connects' = (connects \ {job}) \union
                {[job EXCEPT !.step = "listed", !.listVersion = version[job.server]]}
          /\ UNCHANGED <<open, failures>>
       \/ /\ Fail
          /\ open' = open \ {Session(job)}
          /\ connects' = Become(job, "failed")
    /\ UNCHANGED <<loopVars, ups, owner, genSeq, closing, refresh, calls,
                   repo, notices, version, pending, edits, closer, opened>>

\* Mutant of Wanted: the generation is not compared.
WantedAnyGeneration(job) == Has(job.server) /\ ~closed

\* finishConnect: is the result still wanted?
Wanted(job) == Has(job.server) /\ ups[job.server].gen = job.gen /\ ~closed

FinishConnected(job) ==
    /\ job \in connects /\ job.step = "listed"
    /\ Wanted(job)
    /\ LET s == job.server
           offered == Offers(s, job.listVersion)
       IN  /\ Register(s, offered, owner)
           /\ ups' = [ups EXCEPT ![s] = [@ EXCEPT
                        !.state = "connected", !.session = job.session,
                        !.tools = ups[s].tools \union Registered(s, offered, owner),
                        !.listVersion = job.listVersion]]
    /\ connects' = connects \ {job}
    /\ UNCHANGED <<loopVars, genSeq, open, closing, refresh, calls, worldVars, closer, opened>>

\* Mutant of FinishFailed: the loop is not told.
FinishFailedQuietly(job) ==
    /\ job \in connects /\ job.step = "failed"
    /\ Wanted(job)
    /\ ups' = [ups EXCEPT ![job.server] = [@ EXCEPT !.state = "failed", !.due = FALSE]]
    /\ connects' = connects \ {job}
    /\ UNCHANGED <<loopVars, owner, genSeq, open, closing, refresh, calls, worldVars, closer, opened>>

FinishFailed(job) ==
    /\ job \in connects /\ job.step = "failed"
    /\ Wanted(job)
    /\ ups' = [ups EXCEPT ![job.server] = [@ EXCEPT !.state = "failed", !.due = FALSE]]
    /\ connects' = Become(job, "notify")
    /\ UNCHANGED <<loopVars, owner, genSeq, open, closing, refresh, calls, worldVars, closer, opened>>

\* NotifyChanged, after the unlock: the loop installs the retry timer.
NotifyFailed(job) ==
    /\ job \in connects /\ job.step = "notify"
    /\ wakeup' = TRUE
    /\ connects' = connects \ {job}
    /\ UNCHANGED <<timer, loop, listed, poolVars, refresh, calls, worldVars, closer, opened>>

\* Not wanted: the session is closed after the unlock.
FinishStale(job) ==
    /\ job \in connects /\ job.step \in {"listed", "failed"}
    /\ ~Wanted(job)
    /\ connects' = IF job.step = "listed" THEN Become(job, "discard") ELSE connects \ {job}
    /\ UNCHANGED <<loopVars, poolVars, refresh, calls, worldVars, closer, opened>>

\* Mutant of CloseDiscarded: the session of a stale result is forgotten.
ForgetDiscarded(job) ==
    /\ job \in connects /\ job.step = "discard"
    /\ connects' = connects \ {job}
    /\ UNCHANGED <<loopVars, poolVars, refresh, calls, worldVars, closer, opened>>

CloseDiscarded(job) ==
    /\ job \in connects /\ job.step = "discard"
    /\ open' = open \ {Session(job)}
    /\ connects' = connects \ {job}
    /\ UNCHANGED <<loopVars, ups, owner, genSeq, closing, refresh, calls, worldVars, closer, opened>>

\* The goroutine detachLocked started.
CloseDetached(g) ==
    /\ g \in closing
    /\ closing' = closing \ {g}
    /\ open' = open \ {g}
    /\ UNCHANGED <<loopVars, ups, owner, genSeq, jobVars, worldVars, closer, opened>>

-----------------------------------------------------------------------------
(* list_changed.                                                           *)

\* External: an upstream changes its tools and tells every session it has.
UpstreamChanges(s) ==
    /\ version[s] < MaxVersion
    /\ version' = [version EXCEPT ![s] = @ + 1]
    /\ notices' = [notices EXCEPT ![s] = @ + Cardinality({g \in open : g[1] = s})]
    /\ UNCHANGED <<loopVars, poolVars, jobVars, repo, pending, edits, failures, closer, opened>>

\* onUpstreamToolsChanged.
ToolsChanged(s) ==
    /\ notices[s] > 0
    /\ notices' = [notices EXCEPT ![s] = @ - 1]
    /\ IF closed \/ ups[s].state # "connected" \/ ups[s].session = 0
       THEN UNCHANGED refresh
       ELSE \E r \in Refreshers :
               /\ refresh[r].step = "idle"
               /\ refresh' = [refresh EXCEPT ![r] =
                    [step |-> "list", server |-> s, session |-> ups[s].session,
                     gen |-> ups[s].gen, listVersion |-> 0]]
    /\ UNCHANGED <<loopVars, poolVars, connects, calls, repo, version, pending, edits, failures, closer, opened>>

\* refreshTools: ask the session, which may fail.
RefreshList(r) ==
    /\ refresh[r].step = "list"
    /\ \/ /\ Session(refresh[r]) \in open
          /\ refresh' = [refresh EXCEPT ![r] =
                [@ EXCEPT !.step = "apply", !.listVersion = version[refresh[r].server]]]
          /\ UNCHANGED failures
       \/ /\ Fail \/ (Session(refresh[r]) \notin open /\ UNCHANGED failures)
          /\ refresh' = [refresh EXCEPT ![r] = NoRefresh]
    /\ UNCHANGED <<loopVars, poolVars, connects, calls, repo, notices, version, pending, edits, closer, opened>>

Current(job) ==
    /\ Has(job.server)
    /\ ups[job.server].session = job.session
    /\ ups[job.server].gen = job.gen
    /\ ~closed

RefreshApply(r) ==
    /\ refresh[r].step = "apply"
    /\ refresh' = [refresh EXCEPT ![r] = NoRefresh]
    /\ IF ~Current(refresh[r]) THEN UNCHANGED <<ups, owner>>
       ELSE LET s == refresh[r].server
                offered == Offers(s, refresh[r].listVersion)
                owned == Without({s})
            IN  /\ Register(s, offered, owned)
                /\ ups' = [ups EXCEPT ![s] = [@ EXCEPT
                             !.tools = Registered(s, offered, owned),
                             !.listVersion = refresh[r].listVersion]]
    /\ UNCHANGED <<loopVars, genSeq, open, closing, connects, calls, worldVars, closer, opened>>

-----------------------------------------------------------------------------
(* A tools/call that is forwarded, and markFailed.                         *)

\* Mutant of CallBegin: the session of the record is not looked at.
CallBeginUnchecked(c, s) ==
    /\ calls[c].step = "idle"
    /\ calls' = [calls EXCEPT ![c] = [step |-> "busy", server |-> s, session |-> ups[s].session]]
    /\ UNCHANGED <<loopVars, poolVars, connects, refresh, worldVars, closer, opened>>

CallBegin(c, s) ==
    /\ calls[c].step = "idle"
    /\ ups[s].session # 0
    /\ calls' = [calls EXCEPT ![c] = [step |-> "busy", server |-> s, session |-> ups[s].session]]
    /\ UNCHANGED <<loopVars, poolVars, connects, refresh, worldVars, closer, opened>>

\* An answer, a cancelled request or a timeout.
CallReturns(c) ==
    /\ calls[c].step = "busy"
    /\ calls' = [calls EXCEPT ![c] = NoCall]
    /\ UNCHANGED <<loopVars, poolVars, connects, refresh, worldVars, closer, opened>>

\* Mutant of CallFails: markFailed takes whatever session is in service.
CallFailsAnySession(c) ==
    /\ calls[c].step = "busy"
    /\ Fail \/ (Session(calls[c]) \notin open /\ UNCHANGED failures)
    /\ LET s == calls[c].server
       IN  IF ~Has(s)
           THEN /\ calls' = [calls EXCEPT ![c] = NoCall]
                /\ UNCHANGED <<ups, owner, genSeq, closing>>
           ELSE /\ ups' = [ups EXCEPT ![s] = [Detached(s) EXCEPT !.state = "failed", !.due = FALSE]]
                /\ owner' = Without({s})
                /\ genSeq' = [genSeq EXCEPT ![s] = @ + 1]
                /\ closing' = closing \union SessionsOf({s})
                /\ calls' = [calls EXCEPT ![c].step = "notify"]
    /\ UNCHANGED <<loopVars, open, connects, refresh, repo, notices, version, pending, edits, closer, opened>>

\* The transport fails, as it does on a closed session: markFailed, if the
\* session is still the one in service.
CallFails(c) ==
    /\ calls[c].step = "busy"
    /\ Fail \/ (Session(calls[c]) \notin open /\ UNCHANGED failures)
    /\ LET s == calls[c].server
       IN  IF ups[s].session # calls[c].session
           THEN /\ calls' = [calls EXCEPT ![c] = NoCall]
                /\ UNCHANGED <<ups, owner, genSeq, closing>>
           ELSE /\ ups' = [ups EXCEPT ![s] = [Detached(s) EXCEPT !.state = "failed", !.due = FALSE]]
                /\ owner' = Without({s})
                /\ genSeq' = [genSeq EXCEPT ![s] = @ + 1]
                /\ closing' = closing \union SessionsOf({s})
                /\ calls' = [calls EXCEPT ![c].step = "notify"]
    /\ UNCHANGED <<loopVars, open, connects, refresh, repo, notices, version, pending, edits, closer, opened>>

CallNotifies(c) ==
    /\ calls[c].step = "notify"
    /\ calls' = [calls EXCEPT ![c] = NoCall]
    /\ wakeup' = TRUE
    /\ UNCHANGED <<timer, loop, listed, poolVars, connects, refresh, worldVars, closer, opened>>

-----------------------------------------------------------------------------
(* Close.                                                                  *)

CloseStop ==
    /\ Closes /\ closer = "open"
    /\ closer' = "stopping"
    /\ UNCHANGED <<loopVars, poolVars, jobVars, worldVars, opened>>

CloseTeardown ==
    /\ closer = "stopping"
    /\ closer' = "waiting"
    /\ ups' = [s \in Servers |-> NoUpstream]
    /\ owner' = Without(Servers)
    /\ genSeq' = [s \in Servers |-> genSeq[s] + (IF Has(s) THEN 1 ELSE 0)]
    /\ closing' = closing \union SessionsOf(Servers)
    /\ UNCHANGED <<loopVars, open, jobVars, worldVars, opened>>

Idle == loop = "exited" /\ connects = {} /\ closing = {} /\ \A r \in Refreshers : refresh[r].step = "idle"

\* wg.Wait returns, or the caller's context ends first.
CloseReturns ==
    /\ closer = "waiting"
    /\ \/ Idle /\ closer' = "returned"
       \/ ~Idle /\ closer' = "gaveUp"
    /\ UNCHANGED <<loopVars, poolVars, jobVars, worldVars, opened>>

-----------------------------------------------------------------------------
Reconcile == TakeWakeup \/ TimerFires \/ LoopExits \/ List \/ Apply \/ Arm
Connecting(job) ==
    \/ Connect(job) \/ ListTools(job)
    \/ FinishConnected(job) \/ FinishFailed(job) \/ FinishStale(job)
    \/ NotifyFailed(job) \/ CloseDiscarded(job)
Refreshing(r) == RefreshList(r) \/ RefreshApply(r)
Calling(c) == CallReturns(c) \/ CallFails(c) \/ CallNotifies(c)
Close == CloseStop \/ CloseTeardown \/ CloseReturns

Next ==
    \/ \E s \in Servers, row \in Row \union {Deleted} : Edit(s, row)
    \/ Notify
    \/ Reconcile
    \/ \E s \in Servers : BackoffEnds(s) \/ UpstreamChanges(s) \/ ToolsChanged(s)
    \/ \E job \in connects : Connecting(job)
    \/ \E g \in closing : CloseDetached(g)
    \/ \E r \in Refreshers : Refreshing(r)
    \/ \E c \in Callers : (\E s \in Servers : CallBegin(c, s)) \/ Calling(c)
    \/ Close

Spec == Init /\ [][Next]_vars

(***************************************************************************)
(* Fairness: goroutines run; a dial, a list and a forwarded call end (each *)
(* has a timeout), backoffs run out, and a select among ready cases is     *)
(* random, so stopCh is not passed over for ever.  Nobody has to edit,     *)
(* call or close, and no upstream has to fail.                             *)
(***************************************************************************)
FairSpec ==
    /\ Spec
    /\ WF_vars(Notify)
    /\ WF_vars(Reconcile) /\ SF_vars(LoopExits)
    /\ \A s \in Servers :
          /\ WF_vars(\E job \in connects : job.server = s /\ Connecting(job))
          /\ WF_vars(BackoffEnds(s)) /\ WF_vars(ToolsChanged(s))
    /\ WF_vars(\E g \in closing : CloseDetached(g))
    /\ \A r \in Refreshers : WF_vars(Refreshing(r))
    /\ \A c \in Callers : WF_vars(Calling(c))
    /\ WF_vars(CloseTeardown)

-----------------------------------------------------------------------------
Job == [server : Servers, session : Nat, gen : Nat, print : Prints, listVersion : Nat,
        step : {"dial", "list", "listed", "failed", "notify", "discard"}]
Refresh == [step : {"idle", "list", "apply"}, server : Servers \union {None},
            session : Nat, gen : Nat, listVersion : Nat]
Call == [step : {"idle", "busy", "notify"}, server : Servers \union {None}, session : Nat]
Upstream == [state : {"absent", "disabled", "connecting", "connected", "failed"},
             print : Prints \union {None}, session : Nat, gen : Nat,
             tools : SUBSET Names, listVersion : Nat, due : BOOLEAN]

PoolTypes ==
    /\ repo \in [Servers -> Row \union NoRow]
    /\ ups \in [Servers -> Upstream]
    /\ owner \in [Names -> Servers \union {None}]
    /\ genSeq \in [Servers -> Nat]
    /\ wakeup \in BOOLEAN
    /\ timer \in {"off", "retry", "repo"}
    /\ loop \in {"select", "list", "apply", "arm", "exited"}
    /\ listed \in [Servers -> Row \union NoRow]
    /\ connects \in SUBSET Job
    /\ refresh \in [Refreshers -> Refresh]
    /\ open \in SUBSET (Servers \X Nat) /\ closing \in SUBSET (Servers \X Nat)
    /\ calls \in [Callers -> Call]
    /\ notices \in [Servers -> Nat] /\ version \in [Servers -> Nat]
    /\ pending \in Nat /\ edits \in Nat /\ failures \in Nat
    /\ closer \in {"open", "stopping", "waiting", "returned", "gaveUp"}
    /\ opened \in SUBSET (Servers \X Nat \X Prints)

\* Type invariant.  A goroutine that goes on outside the lock, to forward a
\* call or to ask for a tool list, has a session in hand and not nil.
TypeOK ==
    /\ PoolTypes
    /\ \A r \in Refreshers : refresh[r].step # "idle" => refresh[r].session # 0
    /\ \A c \in Callers : calls[c].step = "busy" => calls[c].session # 0

\* The registry and the upstream records agree: a published name belongs to
\* the one upstream that lists it, and only a connected upstream lists any.
RegistryAgrees ==
    \A s \in Servers :
        /\ \A p \in Names : owner[p] = s <=> p \in ups[s].tools
        /\ ups[s].tools # {} => ups[s].state = "connected"

\* A connected upstream is served by a session opened for the configuration
\* of its record: no late connect lands on a record changed meanwhile.
ServesItsConfig ==
    \A s \in Servers :
        /\ ups[s].state = "connected" <=> ups[s].session # 0
        /\ ups[s].session # 0 => <<s, ups[s].session, ups[s].print>> \in opened

\* A session leaves service for a cause: what was listed has its server off,
\* gone or configured anew, Close takes it, or a call that was forwarded to
\* this very session failed.  A call that fails late, on a session that was
\* replaced meanwhile, leaves the new one alone, and no late connect takes its
\* place (markFailed, aggregator.go:608; finishConnect).
LeavesForCause(s) ==
    ups[s].session # 0 /\ ups'[s].session # ups[s].session =>
        /\ ups'[s].session = 0
        /\ \/ loop = "apply" /\ listed[s] # [status |-> "enabled", print |-> ups[s].print]
           \/ closer = "stopping" /\ closer' = "waiting"
           \/ \E c \in Callers :
                 /\ calls[c] = [step |-> "busy", server |-> s, session |-> ups[s].session]
                 /\ calls'[c].step = "notify"
RetiredForCause == [][\A s \in Servers : LeavesForCause(s)]_vars

InService(g) == ups[g[1]].session = g[2]

Life == [g \in Servers \X Generations |->
           CASE InService(g) -> "serving"
             [] ~InService(g) /\ g \in closing -> "retired"
             [] ~InService(g) /\ g \in open \ closing -> "open"
             [] OTHER -> IF \E o \in opened : g = <<o[1], o[2]>> THEN "closed" ELSE "new"]

Pool == INSTANCE SessionPool WITH
    Sessions <- Servers \X Generations, ServerOf <- LAMBDA g : g[1],
    life <- Life, shut <- (closer = "returned")

\* Each session is closed once and only when it is out of service, and when
\* Close returns none is left open.
ImplementsSessionPool == Pool!Spec

Reflects(s) ==
    CASE repo[s].status = "enabled" -> ups[s].state = "connected" /\ ups[s].print = repo[s].print
      [] repo[s].status = "disabled" -> ups[s].state \in {"absent", "disabled"}
      [] OTHER -> ups[s].state = "absent"

\* When edits and failures cease, the pool becomes the configuration: no
\* wake-up, retry or late result is lost.  After Close every goroutine it
\* waits for ends, whenever it came.
Settles ==
    <>[](IF closer = "open" THEN \A s \in Servers : Reflects(s) ELSE Idle)
=============================================================================
