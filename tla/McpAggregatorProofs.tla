------------------------ MODULE McpAggregatorProofs ------------------------
(***************************************************************************)
(* Proofs about McpAggregator, for any servers, names, configurations,     *)
(* callers and bounds: its types, that the registry and the records agree, *)
(* that each upstream is served by a session opened for its configuration  *)
(* and loses it for a cause, and that the sessions implement SessionPool.   *)
(***************************************************************************)
EXTENDS McpAggregator, FiniteSetTheorems, TLAPS

-----------------------------------------------------------------------------
(* The inductive invariant.                                                *)

\* What the goroutines under way have in hand.
Versions == 1 .. MaxVersion

InProgress ==
    /\ IsFiniteSet(open)
    /\ version \in [Servers -> Versions]
    /\ \A job \in connects : job.step = "listed" => job.listVersion \in Versions
    /\ \A r \in Refreshers : refresh[r].step # "idle" =>
          /\ refresh[r].server \in Servers /\ refresh[r].session # 0
          /\ refresh[r].step = "apply" => refresh[r].listVersion \in Versions
    /\ \A c \in Callers : calls[c].step = "busy" =>
          calls[c].server \in Servers /\ calls[c].session # 0

WasOpened(g) == \E o \in opened : g = <<o[1], o[2]>>

\* The record of a server: its generation was given out, and the session in
\* service was opened for its configuration and is not being closed.
RecordAt(s) ==
    /\ ups[s].gen <= genSeq[s]
    /\ ups[s].state = "connected" <=> ups[s].session # 0
    /\ ups[s].session # 0 => /\ <<s, ups[s].session, ups[s].print>> \in opened
                             /\ <<s, ups[s].session>> \notin closing

\* A connect that has its session open, and one whose result is looked for.
HoldsSession(job) == job.step \in {"list", "listed", "discard"}
Awaited(job) ==
    /\ job.step \in {"dial", "list", "listed", "failed"}
    /\ Has(job.server) /\ ups[job.server].gen = job.gen

\* A connect: its session, named by its generation, is its own; and while
\* its result is looked for, the record still is as the connect found it.
ConnectAt(job) ==
    /\ job.gen = job.session /\ job.session \in 1 .. genSeq[job.server]
    /\ Session(job) \notin closing /\ ups[job.server].session # job.session
    /\ job.step = "dial" => ~WasOpened(Session(job))
    /\ HoldsSession(job) =>
          /\ Session(job) \in open
          /\ <<job.server, job.session, job.print>> \in opened
    /\ Awaited(job) =>
          ups[job.server].state = "connecting" /\ ups[job.server].print = job.print

OneConnect ==
    \A j, k \in connects : j.server = k.server /\ j.session = k.session => j = k

\* Sessions are opened under generations given out, and only they can be
\* open or closing.
History ==
    /\ \A o \in opened : o[2] \in 1 .. genSeq[o[1]]
    /\ \A g \in open \union closing : WasOpened(g)

\* Somebody will close a session that is open.
Owned ==
    \A g \in open :
        \/ g \in closing
        \/ ups[g[1]].session = g[2]
        \/ \E job \in connects : HoldsSession(job) /\ Session(job) = g

\* What Close leaves behind.
AfterClose ==
    /\ closed => \A s \in Servers : ups[s] = NoUpstream
    /\ closer = "returned" => connects = {}

Bookkeeping ==
    /\ \A s \in Servers : RecordAt(s)
    /\ \A job \in connects : ConnectAt(job)
    /\ OneConnect /\ History /\ Owned

IInv == PoolTypes /\ InProgress /\ AfterClose /\ Bookkeeping /\ RegistryAgrees

-----------------------------------------------------------------------------
(* Types.                                                                  *)

\* Version one of a list is within the bound, and lists hold public names.
LEMMA ListsAreNames ==
    /\ 1 \in Versions /\ Versions \subseteq Nat
    /\ \A s \in Servers, v \in Versions : Offers(s, v) \subseteq Names
BY PoolConstants DEF Versions

\* What the locked sections compute from a well-typed pool.
LEMMA PoolOperators ==
    ASSUME PoolTypes, NEW gone \in SUBSET Servers
    PROVE /\ Without(gone) \in [Names -> Servers \union {None}]
          /\ SessionsOf(gone) \in SUBSET (Servers \X Nat)
          /\ \A s \in Servers : Detached(s) \in Upstream
<1>1. Without(gone) \in [Names -> Servers \union {None}]
    BY DEF PoolTypes, Without
<1>2. SessionsOf(gone) \in SUBSET (Servers \X Nat)
    BY DEF PoolTypes, SessionsOf, Upstream
<1>3. ASSUME NEW s \in Servers
      PROVE Detached(s) \in Upstream
    <2>1. ups[s] \in Upstream /\ genSeq[s] + 1 \in Nat
        BY DEF PoolTypes
    <2>. QED
        BY <2>1 DEF Detached, Upstream
<1>. QED
    BY <1>1, <1>2, <1>3

LEMMA EmptyRecords ==
    /\ NoUpstream \in Upstream /\ NoRefresh \in Refresh /\ NoCall \in Call
    /\ Uncreated \in Row \union NoRow /\ Deleted \in Row \union NoRow
BY DEF NoUpstream, Upstream, NoRefresh, Refresh, NoCall, Call, Uncreated, Deleted, NoRow

LEMMA TypeInit == Init => PoolTypes /\ InProgress
<1>1. ASSUME Init
      PROVE PoolTypes /\ InProgress
    <2>1. repo \in [Servers -> Row \union NoRow]
        BY <1>1, EmptyRecords DEF Init
    <2>2. PoolTypes
        BY <1>1, <2>1, EmptyRecords DEF Init, PoolTypes
    <2>3. IsFiniteSet(open)
        BY <1>1, FS_EmptySet DEF Init
    <2>4. InProgress
        BY <1>1, <2>3, ListsAreNames DEF Init, InProgress, NoRefresh, NoCall
    <2>. QED
        BY <2>2, <2>4
<1>. QED
    BY <1>1

\* The cases of syncOnce exclude each other.
LEMMA Apart ==
    ASSUME NEW s \in Servers
    PROVE /\ s \in Fresh => s \notin Again /\ s \notin TurnedOff
          /\ s \in Again => s \notin TurnedOff /\ s \notin TornDown
          /\ s \in TurnedOff => s \notin TornDown
BY DEF Fresh, Again, TurnedOff, TornDown, Enabled, Disabled, Missing, Has

\* Apply: what it makes of each record, and the connects it starts.
LEMMA ApplyTypes ==
    ASSUME PoolTypes, NEW s \in Servers
    PROVE /\ NextGen(s) \in Nat /\ genSeq[s] <= NextGen(s)
          /\ Synced(s) \in Upstream
          /\ s \in Fresh \union Again => /\ Dial(s) \in Job /\ listed[s].print \in Prints
                                         /\ genSeq[s] < NextGen(s)
<1>1. genSeq[s] \in Nat /\ ups[s] \in Upstream /\ listed[s] \in Row \union NoRow
    BY DEF PoolTypes
<1>2. NextGen(s) \in Nat /\ genSeq[s] <= NextGen(s)
         /\ (s \in Fresh \union Again => genSeq[s] < NextGen(s))
    BY <1>1 DEF NextGen
<1>3. s \in Fresh \union Again => listed[s].print \in Prints
    BY <1>1 DEF Fresh, Again, Enabled, Row, NoRow
<1>4. s \in Fresh \union Again => Dial(s) \in Job
    BY <1>2, <1>3 DEF Dial, Job
<1>5. listed[s].print \in Prints \union {None}
    BY <1>1 DEF Row, NoRow
<1>6. Detached(s) \in Upstream
    BY PoolOperators
<1>7. NoUpstream \in Upstream
    BY EmptyRecords
<1>8. CASE s \in Fresh
    <2>1. Synced(s) = [NoUpstream EXCEPT !.state = "connecting", !.print = listed[s].print,
                                         !.gen = NextGen(s)]
        BY <1>8, Apart DEF Synced
    <2>2. Synced(s) \in Upstream
        BY <1>2, <1>5, <1>7, <2>1 DEF Upstream
    <2>. QED
        BY <1>2, <1>3, <1>4, <2>2
<1>9. CASE s \notin Fresh /\ s \in Again
    <2>1. Synced(s) = [ups[s] EXCEPT !.state = "connecting", !.gen = NextGen(s), !.due = FALSE]
        BY <1>9, Apart DEF Synced
    <2>2. Synced(s) \in Upstream
        BY <1>1, <1>2, <2>1 DEF Upstream
    <2>. QED
        BY <1>2, <1>3, <1>4, <2>2
<1>10. CASE s \notin Fresh /\ s \notin Again
    <2>1. Synced(s) \in {[Detached(s) EXCEPT !.state = "disabled", !.print = listed[s].print],
                         NoUpstream, ups[s]}
        BY <1>10, Apart DEF Synced
    <2>2. [Detached(s) EXCEPT !.state = "disabled", !.print = listed[s].print] \in Upstream
        BY <1>5, <1>6 DEF Upstream
    <2>. QED
        BY <1>1, <1>2, <1>7, <1>10, <2>1, <2>2
<1>. QED
    BY <1>8, <1>9, <1>10

\* A goroutine that goes on to its next step.
LEMMA BecomeTypes ==
    ASSUME PoolTypes, NEW job \in connects,
           NEW step \in {"dial", "list", "listed", "failed", "notify", "discard"}
    PROVE /\ Become(job, step) \in SUBSET Job
          /\ job.server \in Servers /\ Session(job) \in Servers \X Nat
<1>1. job \in Job
    BY DEF PoolTypes
<1>2. [job EXCEPT !.step = step] \in Job
    BY <1>1 DEF Job
<1>. QED
    BY <1>1, <1>2 DEF PoolTypes, Become, Session, Job

\* A record with another state, marked due or not.
LEMMA Restated ==
    ASSUME NEW u \in Upstream, NEW b \in BOOLEAN,
           NEW state \in {"absent", "disabled", "connecting", "connected", "failed"}
    PROVE /\ [u EXCEPT !.due = b] \in Upstream
          /\ [u EXCEPT !.state = state, !.due = b] \in Upstream
BY DEF Upstream

\* A database that is edited, and the loop between its locked sections.
LEMMA TypesOutside ==
    ASSUME PoolTypes, InProgress,
           \/ \E s \in Servers, row \in Row \union {Deleted} : Edit(s, row)
           \/ Notify \/ TakeWakeup \/ TimerFires \/ LoopExits \/ List \/ Arm
           \/ \E s \in Servers : BackoffEnds(s)
           \/ Close
    PROVE PoolTypes' /\ InProgress'
<1>. USE DEF PoolTypes
<1>1. ASSUME NEW s \in Servers, NEW row \in Row \union {Deleted}, Edit(s, row)
      PROVE PoolTypes' /\ InProgress'
    <2>1. row \in Row \union NoRow
        BY EmptyRecords
    <2>2. repo' \in [Servers -> Row \union NoRow] /\ edits' \in Nat /\ pending' \in Nat
        BY <1>1, <2>1 DEF Edit
    <2>. QED
        BY <1>1, <2>2 DEF Edit, loopVars, poolVars, jobVars, InProgress
<1>2. CASE Notify
    BY <1>2 DEF Notify, poolVars, jobVars, InProgress
<1>7. CASE TakeWakeup \/ TimerFires \/ LoopExits
    BY <1>7 DEF TakeWakeup, TimerFires, LoopExits, poolVars, jobVars, worldVars, InProgress
<1>8. CASE Arm
    <2>1. timer' \in {"off", "retry", "repo"}
        BY <1>8 DEF Arm
    <2>. QED
        BY <1>8, <2>1 DEF Arm, poolVars, jobVars, worldVars, InProgress
<1>3. CASE List
    <2>1. /\ listed' \in [Servers -> Row \union NoRow]
          /\ loop' \in {"select", "list", "apply", "arm", "exited"}
          /\ timer' \in {"off", "retry", "repo"} /\ failures' \in Nat
        BY <1>3 DEF List
    <2>. QED
        BY <1>3, <2>1 DEF List, poolVars, jobVars, InProgress
<1>4. ASSUME NEW s \in Servers, BackoffEnds(s)
      PROVE PoolTypes' /\ InProgress'
    <2>1. ups[s] \in Upstream /\ ups' = [ups EXCEPT ![s] = [ups[s] EXCEPT !.due = TRUE]]
        BY <1>4 DEF BackoffEnds
    <2>2. ups' \in [Servers -> Upstream]
        BY <2>1, Restated
    <2>. QED
        BY <1>4, <2>2 DEF BackoffEnds, loopVars, jobVars, worldVars, InProgress
<1>5. CASE CloseTeardown
    <2>1. ups' \in [Servers -> Upstream] /\ genSeq' \in [Servers -> Nat]
        BY <1>5, EmptyRecords DEF CloseTeardown
    <2>2. owner' \in [Names -> Servers \union {None}] /\ closing' \in SUBSET (Servers \X Nat)
        BY <1>5, PoolOperators DEF CloseTeardown
    <2>. QED
        BY <1>5, <2>1, <2>2 DEF CloseTeardown, loopVars, jobVars, worldVars, InProgress
<1>6. CASE CloseStop \/ CloseReturns
    BY <1>6 DEF CloseStop, CloseReturns, loopVars, poolVars, jobVars, worldVars, InProgress
<1>. QED
    BY <1>1, <1>2, <1>3, <1>4, <1>5, <1>6, <1>7, <1>8 DEF Close

LEMMA TypesApply ==
    ASSUME PoolTypes, InProgress, Apply
    PROVE PoolTypes' /\ InProgress'
<1>1. /\ ups' \in [Servers -> Upstream] /\ genSeq' \in [Servers -> Nat]
      /\ owner' \in [Names -> Servers \union {None}] /\ closing' \in SUBSET (Servers \X Nat)
      /\ connects' \in SUBSET Job
      /\ \A job \in connects' : job.step = "listed" => job \in connects
    <2>1. CASE closed
        BY <2>1 DEF Apply, PoolTypes
    <2>2. CASE ~closed
        <3>1. /\ ups' = [s \in Servers |-> Synced(s)]
              /\ owner' = Without(TornDown \union TurnedOff)
              /\ genSeq' = [s \in Servers |-> NextGen(s)]
              /\ closing' = closing \union SessionsOf(TornDown \union TurnedOff)
              /\ connects' = connects \union {Dial(s) : s \in Fresh \union Again}
            BY <2>2 DEF Apply
        <3>2. TornDown \union TurnedOff \in SUBSET Servers /\ Fresh \union Again \subseteq Servers
            BY DEF TornDown, TurnedOff, Fresh, Again
        <3>3. ups' \in [Servers -> Upstream] /\ genSeq' \in [Servers -> Nat]
            BY <3>1, ApplyTypes
        <3>4. owner' \in [Names -> Servers \union {None}] /\ closing' \in SUBSET (Servers \X Nat)
            BY <3>1, <3>2, PoolOperators DEF PoolTypes
        <3>5. {Dial(s) : s \in Fresh \union Again} \subseteq Job
            BY <3>2, ApplyTypes
        <3>6. \A s \in Fresh \union Again : Dial(s).step = "dial"
            BY DEF Dial
        <3>7. connects' \in SUBSET Job
            BY <3>1, <3>5 DEF PoolTypes
        <3>8. \A job \in connects' : job.step = "listed" => job \in connects
            BY <3>1, <3>6
        <3>. QED
            BY <3>3, <3>4, <3>7, <3>8
    <2>. QED
        BY <2>1, <2>2
<1>. QED
    BY <1>1 DEF Apply, PoolTypes, InProgress, worldVars

\* The steps of a connect.  Each leaves at most its own new form behind.
LEMMA TypesConnecting ==
    ASSUME PoolTypes, InProgress, NEW job \in connects, Connecting(job)
    PROVE PoolTypes' /\ InProgress'
<1>1. /\ job \in Job /\ job.server \in Servers /\ job.session \in Nat
      /\ Session(job) \in Servers \X Nat
      /\ <<job.server, job.session, job.print>> \in Servers \X Nat \X Prints
    BY DEF PoolTypes, Job, Session
<1>2. connects \ {job} \in SUBSET Job
    BY DEF PoolTypes
<1>3. ASSUME NEW step \in {"list", "failed", "notify", "discard"}
      PROVE /\ Become(job, step) \in SUBSET Job
            /\ \A k \in Become(job, step) : k.step = "listed" => k \in connects
    <2>1. [job EXCEPT !.step = step].step = step
        BY <1>1 DEF Job
    <2>. QED
        BY <1>1, <2>1, BecomeTypes DEF Become
<1>4. CASE Connect(job)
    <2>1. /\ connects' \in SUBSET Job
          /\ \A k \in connects' : k.step = "listed" => k \in connects
        BY <1>3, <1>4 DEF Connect
    <2>2. open' \in SUBSET (Servers \X Nat) /\ IsFiniteSet(open')
        BY <1>1, <1>4, FS_AddElement DEF Connect, PoolTypes, InProgress
    <2>3. opened' \in SUBSET (Servers \X Nat \X Prints) /\ failures' \in Nat
        BY <1>1, <1>4 DEF Connect, Fail, PoolTypes
    <2>. QED
        BY <1>4, <2>1, <2>2, <2>3 DEF Connect, PoolTypes, InProgress, loopVars
<1>5. CASE ListTools(job)
    <2>1. open' \in SUBSET (Servers \X Nat) /\ IsFiniteSet(open') /\ failures' \in Nat
        <3>1. open \ {Session(job)} \subseteq open
            OBVIOUS
        <3>2. IsFiniteSet(open \ {Session(job)})
            BY <3>1, FS_Subset DEF InProgress
        <3>3. open' \in {open, open \ {Session(job)}}
            BY <1>5 DEF ListTools
        <3>4. failures' \in Nat
            BY <1>5 DEF ListTools, Fail, PoolTypes
        <3>5. open \in SUBSET (Servers \X Nat) /\ IsFiniteSet(open)
            BY DEF PoolTypes, InProgress
        <3>6. open \ {Session(job)} \in SUBSET (Servers \X Nat)
            BY <3>5
        <3>. QED
            BY <3>2, <3>3, <3>4, <3>5, <3>6
    <2>2. /\ connects' \in SUBSET Job
          /\ \A k \in connects' : k.step = "listed" => k \in connects \/ k.listVersion \in Versions
        <3>1. version[job.server] \in Versions /\ version[job.server] \in Nat
            BY <1>1, ListsAreNames DEF InProgress
        <3>2. CASE connects' = Become(job, "failed")
            BY <1>3, <3>2
        <3>3. CASE connects' = (connects \ {job}) \union
                   {[job EXCEPT !.step = "listed", !.listVersion = version[job.server]]}
            <4>1. PICK k : k = [job EXCEPT !.step = "listed", !.listVersion = version[job.server]]
                OBVIOUS
            <4>2. k \in Job /\ k.listVersion \in Versions
                BY <1>1, <3>1, <4>1 DEF Job
            <4>. QED
                BY <1>2, <3>3, <4>1, <4>2
        <3>. QED
            BY <1>5, <3>2, <3>3 DEF ListTools
    <2>. QED
        BY <1>5, <2>1, <2>2 DEF ListTools, PoolTypes, InProgress, loopVars
<1>6. CASE FinishConnected(job)
    <2>1. job.listVersion \in Versions /\ job.listVersion \in Nat
        BY <1>1, <1>6 DEF FinishConnected, InProgress, Job
    <2>2. Offers(job.server, job.listVersion) \subseteq Names
        BY <1>1, <2>1, ListsAreNames
    <2>3. Registered(job.server, Offers(job.server, job.listVersion), owner) \subseteq Names
        BY <2>2 DEF Registered
    <2>4. owner' \in [Names -> Servers \union {None}]
        BY <1>1, <1>6 DEF FinishConnected, Register, PoolTypes
    <2>5. ups[job.server] \in Upstream
        BY <1>1 DEF PoolTypes
    <2>6. [ups[job.server] EXCEPT !.state = "connected", !.session = job.session,
              !.tools = ups[job.server].tools \union Registered(job.server, Offers(job.server, job.listVersion), owner),
              !.listVersion = job.listVersion] \in Upstream
        BY <1>1, <2>1, <2>3, <2>5 DEF Upstream
    <2>7. ups' = [ups EXCEPT ![job.server] = [ups[job.server] EXCEPT
              !.state = "connected", !.session = job.session,
              !.tools = ups[job.server].tools \union Registered(job.server, Offers(job.server, job.listVersion), owner),
              !.listVersion = job.listVersion]]
        BY <1>6 DEF FinishConnected
    <2>8. ups' \in [Servers -> Upstream]
        BY <1>1, <2>6, <2>7 DEF PoolTypes
    <2>. QED
        BY <1>2, <1>6, <2>4, <2>8 DEF FinishConnected, PoolTypes, InProgress, loopVars, worldVars
<1>7. CASE FinishFailed(job)
    <2>1. ups' \in [Servers -> Upstream]
        <3>1. /\ ups[job.server] \in Upstream
              /\ ups' = [ups EXCEPT ![job.server] = [ups[job.server] EXCEPT !.state = "failed", !.due = FALSE]]
            BY <1>1, <1>7 DEF FinishFailed, PoolTypes
        <3>. QED
            BY <3>1, Restated DEF PoolTypes
    <2>2. /\ connects' \in SUBSET Job
          /\ \A k \in connects' : k.step = "listed" => k \in connects
        BY <1>3, <1>7 DEF FinishFailed
    <2>. QED
        BY <1>7, <2>1, <2>2 DEF FinishFailed, PoolTypes, InProgress, loopVars, worldVars
<1>8. CASE FinishStale(job)
    <2>1. /\ connects' \in SUBSET Job
          /\ \A k \in connects' : k.step = "listed" => k \in connects
        BY <1>2, <1>3, <1>8 DEF FinishStale
    <2>. QED
        BY <1>8, <2>1 DEF FinishStale, PoolTypes, InProgress, loopVars, poolVars, worldVars
<1>9. CASE NotifyFailed(job)
    BY <1>2, <1>9 DEF NotifyFailed, PoolTypes, InProgress, poolVars, worldVars
<1>10. CASE CloseDiscarded(job)
    <2>1. open' \in SUBSET (Servers \X Nat) /\ IsFiniteSet(open')
        <3>1. open \ {Session(job)} \subseteq open
            OBVIOUS
        <3>2. IsFiniteSet(open \ {Session(job)})
            BY <3>1, FS_Subset DEF InProgress
        <3>. QED
            BY <1>10, <3>2 DEF CloseDiscarded, PoolTypes
    <2>. QED
        BY <1>2, <1>10, <2>1 DEF CloseDiscarded, PoolTypes, InProgress, loopVars, worldVars
<1>. QED
    BY <1>4, <1>5, <1>6, <1>7, <1>8, <1>9, <1>10 DEF Connecting

\* A notification, and the refresh it starts.
LEMMA TypesNoticed ==
    ASSUME PoolTypes, InProgress, NEW s \in Servers, UpstreamChanges(s) \/ ToolsChanged(s)
    PROVE PoolTypes' /\ InProgress'
<1>1. CASE UpstreamChanges(s)
    <2>1. {g \in open : g[1] = s} \subseteq open
        OBVIOUS
    <2>2. Cardinality({g \in open : g[1] = s}) \in Nat
        BY <2>1, FS_Subset, FS_CardinalityType DEF InProgress
    <2>3. notices' \in [Servers -> Nat]
        BY <1>1, <2>2 DEF UpstreamChanges, PoolTypes
    <2>4. version[s] + 1 \in Versions
        BY <1>1, PoolConstants DEF UpstreamChanges, InProgress, Versions
    <2>5. version' \in [Servers -> Versions] /\ version' \in [Servers -> Nat]
        BY <1>1, <2>4, ListsAreNames DEF UpstreamChanges, InProgress
    <2>. QED
        BY <1>1, <2>3, <2>5 DEF UpstreamChanges, PoolTypes, InProgress, loopVars, poolVars, jobVars
<1>2. CASE ToolsChanged(s)
    <2>1. notices' \in [Servers -> Nat]
        BY <1>2 DEF ToolsChanged, PoolTypes
    <2>2. CASE UNCHANGED refresh
        BY <1>2, <2>1, <2>2 DEF ToolsChanged, PoolTypes, InProgress, loopVars, poolVars
    <2>3. CASE ~(closed \/ ups[s].state # "connected" \/ ups[s].session = 0)
        <3>1. PICK r \in Refreshers :
                 refresh' = [refresh EXCEPT ![r] =
                    [step |-> "list", server |-> s, session |-> ups[s].session,
                     gen |-> ups[s].gen, listVersion |-> 0]]
            BY <1>2, <2>3 DEF ToolsChanged
        <3>2. ups[s] \in Upstream /\ ups[s].session # 0
            BY <2>3 DEF PoolTypes
        <3>3. PICK j : j = [step |-> "list", server |-> s, session |-> ups[s].session,
                            gen |-> ups[s].gen, listVersion |-> 0]
            OBVIOUS
        <3>4. j \in Refresh /\ j.step = "list" /\ j.server = s /\ j.session # 0
            BY <3>2, <3>3 DEF Refresh, Upstream
        <3>5. refresh' \in [Refreshers -> Refresh]
            BY <3>1, <3>3, <3>4 DEF PoolTypes
        <3>6. \A q \in Refreshers : refresh'[q].step # "idle" =>
                 /\ refresh'[q].server \in Servers /\ refresh'[q].session # 0
                 /\ refresh'[q].step = "apply" => refresh'[q].listVersion \in Versions
            BY <3>1, <3>3, <3>4 DEF PoolTypes, InProgress
        <3>. QED
            BY <1>2, <2>1, <3>5, <3>6 DEF ToolsChanged, PoolTypes, InProgress, loopVars, poolVars
    <2>. QED
        BY <1>2, <2>2, <2>3 DEF ToolsChanged
<1>. QED
    BY <1>1, <1>2

LEMMA TypesRefreshing ==
    ASSUME PoolTypes, InProgress, NEW r \in Refreshers, Refreshing(r)
    PROVE PoolTypes' /\ InProgress'
<1>1. NoRefresh \in Refresh /\ NoRefresh.step = "idle"
    BY EmptyRecords DEF NoRefresh
<1>2. CASE RefreshList(r)
    <2>1. refresh[r] \in Refresh /\ refresh[r].server \in Servers /\ refresh[r].session # 0
        BY <1>2 DEF RefreshList, PoolTypes, InProgress
    <2>2. version[refresh[r].server] \in Versions /\ version[refresh[r].server] \in Nat
        BY <2>1, ListsAreNames DEF InProgress
    <2>3. PICK j : j = [refresh[r] EXCEPT !.step = "apply", !.listVersion = version[refresh[r].server]]
        OBVIOUS
    <2>4. j \in Refresh /\ j.server \in Servers /\ j.session # 0 /\ j.listVersion \in Versions
        BY <2>1, <2>2, <2>3 DEF Refresh
    <2>5. refresh' = [refresh EXCEPT ![r] = j] \/ refresh' = [refresh EXCEPT ![r] = NoRefresh]
        BY <1>2, <2>3 DEF RefreshList
    <2>6. refresh' \in [Refreshers -> Refresh] /\ failures' \in Nat
        BY <1>1, <1>2, <2>4, <2>5 DEF RefreshList, Fail, PoolTypes
    <2>7. \A q \in Refreshers : refresh'[q].step # "idle" =>
             /\ refresh'[q].server \in Servers /\ refresh'[q].session # 0
             /\ refresh'[q].step = "apply" => refresh'[q].listVersion \in Versions
        BY <1>1, <2>4, <2>5 DEF PoolTypes, InProgress
    <2>. QED
        BY <1>2, <2>6, <2>7 DEF RefreshList, PoolTypes, InProgress, loopVars, poolVars
<1>3. CASE RefreshApply(r)
    <2>1. /\ refresh[r].server \in Servers /\ refresh[r].listVersion \in Versions
          /\ refresh[r].listVersion \in Nat
        BY <1>3, ListsAreNames DEF RefreshApply, PoolTypes, InProgress
    <2>2. PICK s : s = refresh[r].server
        OBVIOUS
    <2>3. refresh' = [refresh EXCEPT ![r] = NoRefresh]
        BY <1>3 DEF RefreshApply
    <2>4. refresh' \in [Refreshers -> Refresh]
        BY <1>1, <2>3 DEF PoolTypes
    <2>5. \A q \in Refreshers : refresh'[q].step # "idle" =>
             /\ refresh'[q].server \in Servers /\ refresh'[q].session # 0
             /\ refresh'[q].step = "apply" => refresh'[q].listVersion \in Versions
        BY <1>1, <2>3 DEF PoolTypes, InProgress
    <2>6. ups' \in [Servers -> Upstream] /\ owner' \in [Names -> Servers \union {None}]
        <3>1. CASE ~Current(refresh[r])
            BY <1>3, <3>1 DEF RefreshApply, PoolTypes
        <3>2. CASE Current(refresh[r])
            <4>1. PICK tools : tools = Registered(s, Offers(s, refresh[r].listVersion), Without({s}))
                OBVIOUS
            <4>2. /\ Register(s, Offers(s, refresh[r].listVersion), Without({s}))
                  /\ ups' = [ups EXCEPT ![s] = [ups[s] EXCEPT
                                !.tools = tools, !.listVersion = refresh[r].listVersion]]
                BY <1>3, <2>2, <3>2, <4>1 DEF RefreshApply
            <4>3. tools \subseteq Names
                BY <2>1, <2>2, <4>1, ListsAreNames DEF Registered
            <4>4. ups[s] \in Upstream
                BY <2>1, <2>2 DEF PoolTypes
            <4>5. [ups[s] EXCEPT !.tools = tools, !.listVersion = refresh[r].listVersion] \in Upstream
                BY <2>1, <4>3, <4>4 DEF Upstream
            <4>6. ups' \in [Servers -> Upstream]
                BY <4>2, <4>5 DEF PoolTypes
            <4>7. Without({s}) \in [Names -> Servers \union {None}]
                BY <2>1, <2>2, PoolOperators
            <4>8. owner' \in [Names -> Servers \union {None}]
                BY <2>1, <2>2, <4>2, <4>7 DEF Register
            <4>. QED
                BY <4>6, <4>8
        <3>. QED
            BY <3>1, <3>2
    <2>. QED
        BY <1>3, <2>4, <2>5, <2>6 DEF RefreshApply, PoolTypes, InProgress, loopVars, worldVars
<1>. QED
    BY <1>2, <1>3 DEF Refreshing

LEMMA TypesCalling ==
    ASSUME PoolTypes, InProgress, NEW c \in Callers,
           (\E s \in Servers : CallBegin(c, s)) \/ Calling(c)
    PROVE PoolTypes' /\ InProgress'
<1>1. NoCall \in Call /\ NoCall.step = "idle"
    BY EmptyRecords DEF NoCall
<1>2. ASSUME NEW s \in Servers, CallBegin(c, s)
      PROVE PoolTypes' /\ InProgress'
    <2>1. ups[s] \in Upstream /\ ups[s].session # 0
        BY <1>2 DEF CallBegin, PoolTypes
    <2>2. PICK j : j = [step |-> "busy", server |-> s, session |-> ups[s].session]
        OBVIOUS
    <2>3. j \in Call /\ j.server \in Servers /\ j.session # 0
        BY <2>1, <2>2 DEF Call, Upstream
    <2>4. calls' = [calls EXCEPT ![c] = j]
        BY <1>2, <2>2 DEF CallBegin
    <2>5. calls' \in [Callers -> Call]
        BY <2>3, <2>4 DEF PoolTypes
    <2>6. \A d \in Callers : calls'[d].step = "busy" => calls'[d].server \in Servers /\ calls'[d].session # 0
        BY <2>3, <2>4 DEF PoolTypes, InProgress
    <2>. QED
        BY <1>2, <2>5, <2>6 DEF CallBegin, PoolTypes, InProgress, loopVars, poolVars, worldVars
<1>3. ASSUME calls' = [calls EXCEPT ![c] = NoCall]
      PROVE /\ calls' \in [Callers -> Call]
            /\ \A d \in Callers : calls'[d].step = "busy" =>
                  calls'[d].server \in Servers /\ calls'[d].session # 0
    BY <1>1, <1>3 DEF PoolTypes, InProgress
<1>4. CASE CallReturns(c)
    BY <1>3, <1>4 DEF CallReturns, PoolTypes, InProgress, loopVars, poolVars, worldVars
<1>5. CASE CallNotifies(c)
    BY <1>3, <1>5 DEF CallNotifies, PoolTypes, InProgress, poolVars, worldVars
<1>6. CASE CallFails(c)
    <2>1. calls[c] \in Call /\ calls[c].server \in Servers
        BY <1>6 DEF CallFails, PoolTypes, InProgress
    <2>2. PICK s : s = calls[c].server
        OBVIOUS
    <2>3. failures' \in Nat
        BY <1>6 DEF CallFails, Fail, PoolTypes
    <2>4. CASE ups[s].session # calls[c].session
        BY <1>3, <1>6, <2>2, <2>3, <2>4 DEF CallFails, PoolTypes, InProgress, loopVars
    <2>5. CASE ups[s].session = calls[c].session
        <3>1. /\ ups' = [ups EXCEPT ![s] = [Detached(s) EXCEPT !.state = "failed", !.due = FALSE]]
              /\ owner' = Without({s})
              /\ genSeq' = [genSeq EXCEPT ![s] = genSeq[s] + 1]
              /\ closing' = closing \union SessionsOf({s})
              /\ calls' = [calls EXCEPT ![c].step = "notify"]
            BY <1>6, <2>2, <2>5 DEF CallFails
        <3>2. Detached(s) \in Upstream
            BY <2>1, <2>2, PoolOperators
        <3>3. ups' \in [Servers -> Upstream]
            BY <3>1, <3>2, Restated DEF PoolTypes
        <3>4. owner' \in [Names -> Servers \union {None}] /\ closing' \in SUBSET (Servers \X Nat)
            BY <2>1, <2>2, <3>1, PoolOperators DEF PoolTypes
        <3>5. genSeq' \in [Servers -> Nat]
            BY <2>1, <2>2, <3>1 DEF PoolTypes
        <3>6. calls' \in [Callers -> Call]
            BY <2>1, <3>1 DEF PoolTypes, Call
        <3>7. \A d \in Callers : calls'[d].step = "busy" =>
                 calls'[d].server \in Servers /\ calls'[d].session # 0
            BY <2>1, <3>1 DEF PoolTypes, InProgress, Call
        <3>. QED
            BY <1>6, <2>3, <3>3, <3>4, <3>5, <3>6, <3>7 DEF CallFails, PoolTypes, InProgress, loopVars
    <2>. QED
        BY <2>4, <2>5
<1>. QED
    BY <1>2, <1>4, <1>5, <1>6 DEF Calling

LEMMA TypesDetached ==
    ASSUME PoolTypes, InProgress, NEW g \in closing, CloseDetached(g)
    PROVE PoolTypes' /\ InProgress'
<1>1. open \ {g} \subseteq open
    OBVIOUS
<1>2. IsFiniteSet(open')
    BY <1>1, FS_Subset DEF CloseDetached, InProgress
<1>. QED
    BY <1>2 DEF CloseDetached, PoolTypes, InProgress, loopVars, jobVars, worldVars

LEMMA TypeStep ==
    ASSUME PoolTypes, InProgress, [Next]_vars
    PROVE PoolTypes' /\ InProgress'
<1>1. CASE UNCHANGED vars
    BY <1>1 DEF vars, loopVars, poolVars, jobVars, worldVars, PoolTypes, InProgress
<1>. QED
    BY <1>1, TypesOutside, TypesApply, TypesConnecting, TypesNoticed, TypesRefreshing,
       TypesCalling, TypesDetached
    DEF Next, Reconcile

\* Every reachable state is well typed, whatever the number of servers,
\* callers, refreshes and edits (mcpgateway/application/aggregator.go).
THEOREM TypeCorrect == Spec => []TypeOK
<1>1. Init => PoolTypes /\ InProgress
    BY TypeInit
<1>2. PoolTypes /\ InProgress /\ [Next]_vars => (PoolTypes /\ InProgress)'
    BY TypeStep
<1>3. PoolTypes /\ InProgress => TypeOK
    BY DEF InProgress, TypeOK
<1>. QED
    BY <1>1, <1>2, <1>3, PTL DEF Spec

-----------------------------------------------------------------------------
(* Bookkeeping: three kinds of steps.                                      *)

\* What a record's part in the bookkeeping rests on.
SameRecord(s) ==
    /\ ups'[s].state = ups[s].state /\ ups'[s].print = ups[s].print
    /\ ups'[s].session = ups[s].session /\ ups'[s].gen = ups[s].gen

SameConnect(k, job) ==
    k.server = job.server /\ k.session = job.session /\ k.gen = job.gen /\ k.print = job.print

\* The record left no session in service and waits for nobody but connects
\* that start in this step.
Renewed(s) ==
    /\ ups'[s].session = 0 /\ ups'[s].state # "connected"
    /\ ups'[s].gen <= genSeq'[s]
    /\ ups'[s].gen > genSeq[s] \/ ups'[s].state = "absent"

\* A session's place in the pool as a pair, and what History says of it.
LEMMA OpenedSession ==
    ASSUME PoolTypes, Bookkeeping, NEW s \in Servers, NEW n \in Nat, WasOpened(<<s, n>>)
    PROVE n \in 1 .. genSeq[s]
<1>1. PICK o \in opened : <<s, n>> = <<o[1], o[2]>>
    BY DEF WasOpened
<1>. QED
    BY <1>1 DEF Bookkeeping, History

\* The session in service was opened, under a generation given out.
LEMMA ServingWasOpened ==
    ASSUME PoolTypes, Bookkeeping, NEW s \in Servers, ups[s].session # 0
    PROVE /\ WasOpened(<<s, ups[s].session>>)
          /\ ups[s].session \in 1 .. genSeq[s]
<1>1. ups[s].session \in Nat
    BY DEF PoolTypes, Upstream
<1>2. PICK o : o = <<s, ups[s].session, ups[s].print>>
    OBVIOUS
<1>3. o \in opened /\ o[1] = s /\ o[2] = ups[s].session
    BY <1>2 DEF Bookkeeping, RecordAt
<1>4. WasOpened(<<s, ups[s].session>>)
    BY <1>3 DEF WasOpened
<1>. QED
    BY <1>1, <1>4, OpenedSession

\* A step that leaves the sessions alone, and of the records changes the
\* tools and the back-off at most.
LEMMA PoolAtRest ==
    ASSUME PoolTypes, Bookkeeping, \A s \in Servers : SameRecord(s),
           UNCHANGED <<genSeq, open, closing, connects, opened>>
    PROVE Bookkeeping'
<1>1. ASSUME NEW s \in Servers
      PROVE RecordAt(s)'
    BY DEF Bookkeeping, RecordAt, SameRecord
<1>2. ASSUME NEW job \in connects
      PROVE ConnectAt(job)'
    <2>1. job.server \in Servers
        BY DEF PoolTypes, Job
    <2>2. SameRecord(job.server) /\ ConnectAt(job)
        BY <2>1 DEF Bookkeeping
    <2>3. WasOpened(Session(job))' = WasOpened(Session(job))
        BY DEF WasOpened, Session
    <2>4. Awaited(job)' => Awaited(job)
        BY <2>2 DEF Awaited, Has, SameRecord
    <2>. QED
        BY <2>2, <2>3, <2>4 DEF ConnectAt, HoldsSession, Session, SameRecord
<1>3. OneConnect' /\ History'
    BY DEF Bookkeeping, OneConnect, History, WasOpened
<1>4. Owned'
    <2>1. ASSUME NEW g \in open
          PROVE \/ g \in closing
                \/ ups'[g[1]].session = g[2]
                \/ \E job \in connects : HoldsSession(job) /\ Session(job) = g
        <3>1. g[1] \in Servers
            BY DEF PoolTypes
        <3>. QED
            BY <3>1 DEF Bookkeeping, Owned, SameRecord
    <2>. QED
        BY <2>1 DEF Owned, HoldsSession, Session
<1>. QED
    BY <1>1, <1>2, <1>3, <1>4 DEF Bookkeeping

\* A connect that goes on as k, or ends: it may open or close its session, and
\* change the record of its server if that is still of its generation.
LEMMA ConnectMoves ==
    ASSUME PoolTypes, PoolTypes', Bookkeeping, NEW job \in connects, NEW k, SameConnect(k, job),
           connects' = connects \ {job} \/ connects' = (connects \ {job}) \union {k},
           k \in connects' => ConnectAt(k)',
           UNCHANGED <<genSeq, closing>>,
           opened' = opened \/ opened' = opened \union {<<job.server, job.session, job.print>>},
           \A g \in Servers \X Nat : g # Session(job) => (g \in open' <=> g \in open),
           Session(job) \in open' =>
              /\ WasOpened(Session(job))'
              /\ \/ k \in connects' /\ HoldsSession(k)
                 \/ ups'[job.server].session = job.session,
           \A s \in Servers :
              \/ SameRecord(s)
              \/ /\ s = job.server /\ ups[s].gen = job.gen /\ ups'[s].gen = job.gen
                 /\ ups'[s].session \in {0, job.session} /\ ups[s].session = 0
                 /\ RecordAt(s)'
    PROVE Bookkeeping'
<1>1. /\ job \in Job /\ job.server \in Servers /\ job.session \in Nat /\ job.gen = job.session
      /\ ConnectAt(job) /\ job.session \in 1 .. genSeq[job.server]
    BY DEF PoolTypes, Job, Bookkeeping, ConnectAt
<1>2. opened \subseteq opened'
    OBVIOUS
<1>3. ASSUME NEW s \in Servers
      PROVE RecordAt(s)'
    <2>1. CASE SameRecord(s)
        BY <1>2, <2>1 DEF Bookkeeping, RecordAt, SameRecord
    <2>. QED
        BY <2>1
<1>4. ASSUME NEW j \in connects, j # job
      PROVE ConnectAt(j)'
    <2>1. j \in Job /\ j.server \in Servers /\ j.session \in Nat /\ ConnectAt(j)
             /\ j.gen = j.session /\ j.session \in 1 .. genSeq[j.server]
        BY DEF PoolTypes, Job, Bookkeeping, ConnectAt
    <2>2. ~(j.server = job.server /\ j.session = job.session)
        BY <1>4 DEF Bookkeeping, OneConnect
    <2>3. Session(j) # Session(job) /\ Session(j) \in Servers \X Nat
        BY <2>1, <2>2 DEF Session
    <2>4. WasOpened(Session(j))' => WasOpened(Session(j))
        <3>1. ASSUME NEW o \in opened', Session(j) = <<o[1], o[2]>>
              PROVE o \in opened
            <4>1. o = <<job.server, job.session, job.print>> => <<o[1], o[2]>> = Session(job)
                BY DEF Session
            <4>. QED
                BY <2>3, <3>1, <4>1
        <3>. QED
            BY <3>1 DEF WasOpened, Session
    <2>5. Session(j) \in open => Session(j) \in open'
        BY <2>3
    <2>6. /\ ups'[j.server].session # j.session
          /\ Awaited(j)' => ups'[j.server].state = "connecting" /\ ups'[j.server].print = j.print
        <3>1. CASE SameRecord(j.server)
            BY <2>1, <3>1 DEF ConnectAt, Awaited, Has, SameRecord
        <3>2. CASE ~SameRecord(j.server)
            <4>1. j.server = job.server /\ ups'[j.server].gen = job.gen
                     /\ ups'[j.server].session \in {0, job.session}
                BY <2>1, <3>2
            <4>2. j.gen # job.gen /\ j.session # job.session /\ j.session # 0
                BY <1>1, <2>1, <2>2, <4>1
            <4>. QED
                BY <4>1, <4>2 DEF Awaited
        <3>. QED
            BY <3>1, <3>2
    <2>. QED
        BY <1>2, <2>1, <2>4, <2>5, <2>6 DEF ConnectAt, HoldsSession, Session
<1>5. \A j \in connects' : ConnectAt(j)'
    BY <1>4
<1>6. OneConnect'
    BY DEF Bookkeeping, OneConnect, SameConnect
<1>7. History'
    <2>1. ASSUME NEW o \in opened'
          PROVE o[2] \in 1 .. genSeq[o[1]]
        <3>1. CASE o \in opened
            BY <3>1 DEF Bookkeeping, History
        <3>2. CASE o = <<job.server, job.session, job.print>>
            BY <1>1, <3>2
        <3>. QED
            BY <3>1, <3>2
    <2>2. ASSUME NEW g \in open' \union closing'
          PROVE WasOpened(g)'
        <3>1. CASE g = Session(job) /\ g \in open'
            BY <3>1
        <3>2. CASE g \in closing \union open
            BY <1>2, <3>2 DEF Bookkeeping, History, WasOpened
        <3>3. g \in Servers \X Nat
            BY DEF PoolTypes
        <3>. QED
            BY <3>1, <3>2, <3>3
    <2>. QED
        BY <2>1, <2>2 DEF History
<1>8. Owned'
    <2>1. ASSUME NEW g \in open'
          PROVE \/ g \in closing'
                \/ ups'[g[1]].session = g[2]
                \/ \E j \in connects' : HoldsSession(j) /\ Session(j) = g
        <3>1. g \in Servers \X Nat /\ g = <<g[1], g[2]>> /\ g[1] \in Servers
            BY DEF PoolTypes
        <3>2. CASE g = Session(job)
            <4>1. g[1] = job.server /\ g[2] = job.session /\ Session(k) = g
                BY <3>2 DEF Session, SameConnect
            <4>. QED
                BY <3>2, <4>1
        <3>3. CASE g # Session(job)
            <4>1. g \in open
                BY <3>1, <3>3
            <4>2. CASE g \in closing
                BY <4>2
            <4>3. CASE ups[g[1]].session = g[2] /\ g \notin closing
                <5>1. ups[g[1]].session # 0
                    <6>1. WasOpened(<<g[1], g[2]>>)
                        BY <3>1, <4>1 DEF Bookkeeping, History
                    <6>2. g[2] \in 1 .. genSeq[g[1]]
                        BY <3>1, <6>1, OpenedSession
                    <6>. QED
                        BY <4>3, <6>2
                <5>. QED
                    BY <3>1, <4>3, <5>1 DEF SameRecord
            <4>4. CASE \E j \in connects : HoldsSession(j) /\ Session(j) = g
                BY <3>3, <4>4
            <4>. QED
                BY <4>1, <4>2, <4>3, <4>4 DEF Bookkeeping, Owned
        <3>. QED
            BY <3>2, <3>3
    <2>. QED
        BY <2>1 DEF Owned, HoldsSession, Session
<1>. QED
    BY <1>3, <1>5, <1>6, <1>7, <1>8 DEF Bookkeeping

\* Records taken out of service, and connects that start: a session that was
\* in service is on its way to be closed, and every connect under way for a
\* renewed record is outdated, for generations are never given out twice.
LEMMA TakenOutOfService ==
    ASSUME PoolTypes, PoolTypes', Bookkeeping, NEW gone \in SUBSET Servers, NEW new,
           closing' = closing \union SessionsOf(gone),
           connects' = connects \union new,
           UNCHANGED <<open, opened>>,
           \A s \in Servers :
              /\ genSeq[s] <= genSeq'[s]
              /\ s \in gone => Renewed(s)
              /\ SameRecord(s) \/ (Renewed(s) /\ (s \in gone \/ ups[s].session = 0)),
           \A job \in new :
              /\ job.step = "dial" /\ job.gen = job.session
              /\ genSeq[job.server] < job.session /\ job.session <= genSeq'[job.server]
              /\ ups'[job.server].state = "connecting" /\ ups'[job.server].print = job.print,
           \A j, k \in new : j.server = k.server => j = k
    PROVE Bookkeeping'
<1>1. ASSUME NEW g \in SessionsOf(gone)
      PROVE /\ g \in Servers \X Nat /\ g[1] \in gone
            /\ g = <<g[1], ups[g[1]].session>> /\ ups[g[1]].session # 0
    BY DEF SessionsOf, PoolTypes, Upstream
<1>2. ASSUME NEW s \in Servers
      PROVE RecordAt(s)'
    <2>1. genSeq[s] \in Nat /\ genSeq'[s] \in Nat /\ ups[s].gen \in Nat /\ ups'[s].gen \in Nat
        BY DEF PoolTypes, Upstream
    <2>2. CASE Renewed(s)
        BY <2>2 DEF Renewed, RecordAt
    <2>3. CASE SameRecord(s) /\ s \notin gone
        <3>1. RecordAt(s)
            BY DEF Bookkeeping
        <3>2. <<s, ups[s].session>> \in SessionsOf(gone) => s \in gone
            BY DEF SessionsOf
        <3>. QED
            BY <2>1, <2>3, <3>1, <3>2 DEF RecordAt, SameRecord
    <2>. QED
        BY <2>2, <2>3
<1>3. ASSUME NEW job \in connects
      PROVE ConnectAt(job)'
    <2>1. /\ job \in Job /\ job.server \in Servers /\ job.session \in Nat
          /\ ConnectAt(job) /\ job.gen = job.session /\ job.session \in 1 .. genSeq[job.server]
          /\ genSeq[job.server] \in Nat /\ genSeq'[job.server] \in Nat
        BY DEF PoolTypes, Job, Bookkeeping, ConnectAt
    <2>2. job.session \in 1 .. genSeq'[job.server]
        BY <2>1
    <2>3. Session(job) \notin closing'
        <3>1. Session(job) \notin SessionsOf(gone)
            BY <2>1 DEF SessionsOf, Session, ConnectAt
        <3>. QED
            BY <2>1, <3>1 DEF ConnectAt
    <2>4. WasOpened(Session(job))' = WasOpened(Session(job))
        BY DEF WasOpened, Session
    <2>5. /\ ups'[job.server].session # job.session
          /\ Awaited(job)' => ups'[job.server].state = "connecting" /\ ups'[job.server].print = job.print
        <3>1. CASE SameRecord(job.server)
            BY <2>1, <3>1 DEF ConnectAt, Awaited, Has, SameRecord
        <3>2. CASE Renewed(job.server)
            <4>1. ups'[job.server].gen # job.gen \/ ups'[job.server].state = "absent"
                BY <2>1, <3>2 DEF Renewed
            <4>2. ups'[job.server].session # job.session
                BY <2>1, <3>2 DEF Renewed
            <4>. QED
                BY <4>1, <4>2 DEF Awaited, Has
        <3>. QED
            BY <2>1, <3>1, <3>2
    <2>. QED
        BY <2>1, <2>2, <2>3, <2>4, <2>5 DEF ConnectAt, HoldsSession, Session
<1>4. ASSUME NEW job \in new
      PROVE ConnectAt(job)'
    <2>1. job \in Job /\ job.server \in Servers /\ job.session \in Nat
             /\ genSeq[job.server] \in Nat /\ genSeq'[job.server] \in Nat
        BY DEF PoolTypes, Job
    <2>2. job.gen = job.session /\ job.session \in 1 .. genSeq'[job.server]
        BY <2>1
    <2>3. ~WasOpened(Session(job))
        BY <2>1, OpenedSession DEF Session
    <2>4. Session(job) \notin closing'
        <3>1. Session(job) \notin closing
            BY <2>3 DEF Bookkeeping, History
        <3>2. ASSUME Session(job) \in SessionsOf(gone)
              PROVE FALSE
            <4>1. /\ ups[job.server].session # 0 /\ Session(job) = <<job.server, ups[job.server].session>>
                BY <1>1, <3>2 DEF Session
            <4>. QED
                BY <2>1, <2>3, <4>1, ServingWasOpened
        <3>. QED
            BY <3>1, <3>2
    <2>5. ups'[job.server].session # job.session
        <3>1. CASE SameRecord(job.server)
            <4>1. CASE ups[job.server].session # 0
                <5>1. ups[job.server].session \in 1 .. genSeq[job.server]
                    BY <2>1, <4>1, ServingWasOpened
                <5>. QED
                    BY <2>1, <3>1, <5>1 DEF SameRecord
            <4>2. CASE ups[job.server].session = 0
                BY <2>1, <2>2, <3>1, <4>2 DEF SameRecord
            <4>. QED
                BY <4>1, <4>2
        <3>2. CASE Renewed(job.server)
            BY <2>1, <2>2, <3>2 DEF Renewed
        <3>. QED
            BY <2>1, <3>1, <3>2
    <2>6. WasOpened(Session(job))' = WasOpened(Session(job))
        BY DEF WasOpened, Session
    <2>. QED
        BY <2>1, <2>2, <2>3, <2>4, <2>5, <2>6 DEF ConnectAt, HoldsSession, Session
<1>5. OneConnect'
    <2>1. ASSUME NEW j \in connects, NEW k \in new, j.server = k.server, j.session = k.session
          PROVE FALSE
        <3>1. j \in Job /\ ConnectAt(j) /\ k.server \in Servers
            BY <2>1 DEF PoolTypes, Job, Bookkeeping
        <3>2. k.session \in 1 .. genSeq[k.server] /\ genSeq[k.server] < k.session
            BY <2>1, <3>1 DEF ConnectAt
        <3>3. genSeq[k.server] \in Nat
            BY <3>1 DEF PoolTypes
        <3>. QED
            BY <3>2, <3>3
    <2>. QED
        BY <2>1 DEF Bookkeeping, OneConnect
<1>6. History'
    <2>1. ASSUME NEW o \in opened
          PROVE o[2] \in 1 .. genSeq'[o[1]]
        <3>1. o[1] \in Servers /\ o[2] \in 1 .. genSeq[o[1]]
            BY DEF PoolTypes, Bookkeeping, History
        <3>2. genSeq[o[1]] \in Nat /\ genSeq'[o[1]] \in Nat
            BY <3>1 DEF PoolTypes
        <3>. QED
            BY <3>1, <3>2
    <2>2. ASSUME NEW g \in open \union closing'
          PROVE WasOpened(g)
        <3>1. CASE g \in SessionsOf(gone)
            BY <1>1, <3>1, ServingWasOpened
        <3>. QED
            BY <3>1 DEF Bookkeeping, History
    <2>. QED
        BY <2>1, <2>2 DEF History, WasOpened
<1>7. Owned'
    <2>1. ASSUME NEW g \in open
          PROVE \/ g \in closing'
                \/ ups'[g[1]].session = g[2]
                \/ \E job \in connects' : HoldsSession(job) /\ Session(job) = g
        <3>1. g[1] \in Servers /\ g[2] \in Nat /\ g = <<g[1], g[2]>>
            BY DEF PoolTypes
        <3>2. WasOpened(<<g[1], g[2]>>)
            BY <3>1 DEF Bookkeeping, History
        <3>3. g[2] # 0
            BY <3>1, <3>2, OpenedSession
        <3>4. CASE ups[g[1]].session = g[2]
            <4>1. CASE g[1] \in gone
                BY <3>1, <3>3, <3>4, <4>1 DEF SessionsOf
            <4>2. CASE g[1] \notin gone
                BY <3>1, <3>3, <3>4, <4>2 DEF SameRecord
            <4>. QED
                BY <4>1, <4>2
        <3>. QED
            BY <3>4 DEF Bookkeeping, Owned
    <2>. QED
        BY <2>1 DEF Owned, HoldsSession, Session
<1>. QED
    BY <1>2, <1>3, <1>4, <1>5, <1>6, <1>7 DEF Bookkeeping

\* The same when no connect starts.
LEMMA OnlyTakenOut ==
    ASSUME PoolTypes, PoolTypes', Bookkeeping, NEW gone \in SUBSET Servers,
           closing' = closing \union SessionsOf(gone),
           UNCHANGED <<connects, open, opened>>,
           \A s \in Servers :
              /\ genSeq[s] <= genSeq'[s]
              /\ s \in gone => Renewed(s)
              /\ SameRecord(s) \/ (Renewed(s) /\ (s \in gone \/ ups[s].session = 0))
    PROVE Bookkeeping'
<1>1. PICK new : new = {}
    OBVIOUS
<1>2. connects' = connects \union new /\ (\A j, k \in new : j.server = k.server => j = k)
    BY <1>1
<1>3. \A job \in new :
          /\ job.step = "dial" /\ job.gen = job.session
          /\ genSeq[job.server] < job.session /\ job.session <= genSeq'[job.server]
          /\ ups'[job.server].state = "connecting" /\ ups'[job.server].print = job.print
    BY <1>1
<1>. QED
    BY <1>2, <1>3, TakenOutOfService

\* A session that was on its way is closed.
LEMMA DetachedIsClosed ==
    ASSUME PoolTypes, Bookkeeping, NEW g \in closing, CloseDetached(g)
    PROVE Bookkeeping'
<1>1. /\ closing' = closing \ {g} /\ open' = open \ {g}
      /\ UNCHANGED <<ups, genSeq, connects, opened>>
    BY DEF CloseDetached, jobVars
<1>2. \A s \in Servers : RecordAt(s)'
    BY <1>1 DEF Bookkeeping, RecordAt
<1>3. ASSUME NEW job \in connects
      PROVE ConnectAt(job)'
    <2>1. ConnectAt(job) /\ Session(job) # g
        BY DEF Bookkeeping, ConnectAt
    <2>2. WasOpened(Session(job))' = WasOpened(Session(job))
        BY <1>1 DEF WasOpened, Session
    <2>. QED
        BY <1>1, <2>1, <2>2 DEF ConnectAt, HoldsSession, Session, Awaited, Has
<1>4. OneConnect' /\ History'
    BY <1>1 DEF Bookkeeping, OneConnect, History, WasOpened
<1>5. Owned'
    BY <1>1 DEF Bookkeeping, Owned, HoldsSession, Session
<1>. QED
    BY <1>1, <1>2, <1>3, <1>4, <1>5 DEF Bookkeeping

-----------------------------------------------------------------------------
(* Bookkeeping: each operation.                                            *)

\* A connect that goes on to another step while the record of its server
\* stays: what it needs there.
LEMMA GoesOn ==
    ASSUME PoolTypes, Bookkeeping, NEW job \in connects, NEW k, SameConnect(k, job),
           UNCHANGED <<genSeq, closing>>, SameRecord(job.server),
           k.step # "dial",
           k.step \in {"list", "listed", "failed"} =>
              job.step \in {"dial", "list", "listed", "failed"},
           HoldsSession(k) => /\ Session(job) \in open'
                              /\ <<job.server, job.session, job.print>> \in opened'
    PROVE ConnectAt(k)'
<1>1. ConnectAt(job) /\ Session(k) = Session(job)
    BY DEF Bookkeeping, Session, SameConnect
<1>2. Awaited(k)' => Awaited(job)
    BY DEF Awaited, Has, SameRecord, SameConnect
<1>. QED
    BY <1>1, <1>2 DEF ConnectAt, HoldsSession, Session, SameRecord, SameConnect

\* While a result is looked for, nothing is in service for its server.
LEMMA WantedIsVacant ==
    ASSUME PoolTypes, Bookkeeping, NEW job \in connects, Wanted(job),
           job.step \in {"dial", "list", "listed", "failed"}
    PROVE /\ ups[job.server].state = "connecting" /\ ups[job.server].print = job.print
          /\ ups[job.server].session = 0 /\ ups[job.server].gen = job.gen
<1>1. ConnectAt(job) /\ RecordAt(job.server)
    BY DEF Bookkeeping, PoolTypes, Job
<1>2. Awaited(job)
    BY DEF Awaited, Wanted
<1>. QED
    BY <1>1, <1>2 DEF ConnectAt, RecordAt, Wanted

\* A connect without a session of its own has left none open.
LEMMA HoldsNothing ==
    ASSUME PoolTypes, Bookkeeping, NEW job \in connects, ~HoldsSession(job)
    PROVE Session(job) \notin open
<1>1. ConnectAt(job) /\ Session(job) = <<job.server, job.session>>
    BY DEF Bookkeeping, Session
<1>2. ASSUME NEW j \in connects, HoldsSession(j), Session(j) = Session(job)
      PROVE FALSE
    BY <1>2 DEF Session, Bookkeeping, OneConnect
<1>. QED
    BY <1>1, <1>2 DEF Bookkeeping, Owned, ConnectAt

LEMMA ConnectingBooks ==
    ASSUME PoolTypes, PoolTypes', Bookkeeping, NEW job \in connects, Connecting(job)
    PROVE Bookkeeping'
<1>1. /\ job \in Job /\ job.server \in Servers /\ job.session \in Nat /\ job.session # 0
      /\ ConnectAt(job) /\ Session(job) = <<job.server, job.session>>
    <2>1. job \in Job /\ ConnectAt(job)
        BY DEF PoolTypes, Bookkeeping
    <2>2. job.server \in Servers /\ job.session \in Nat
        BY <2>1 DEF Job
    <2>3. genSeq[job.server] \in Nat /\ job.session \in 1 .. genSeq[job.server]
        BY <2>1, <2>2 DEF PoolTypes, ConnectAt
    <2>. QED
        BY <2>1, <2>2, <2>3 DEF Session
<1>2. ASSUME NEW step \in {"list", "failed", "notify", "discard"}
      PROVE \E k : /\ Become(job, step) = (connects \ {job}) \union {k}
                   /\ SameConnect(k, job) /\ k.step = step
    <2>1. PICK k : k = [job EXCEPT !.step = step]
        OBVIOUS
    <2>2. SameConnect(k, job) /\ k.step = step
        BY <1>1, <2>1 DEF SameConnect, Job
    <2>. QED
        BY <2>1, <2>2 DEF Become
<1>3. ASSUME ups' = ups
      PROVE \A s \in Servers : SameRecord(s)
    BY <1>3 DEF SameRecord
<1>4. SameConnect(job, job)
    BY DEF SameConnect
<1>5. <<job.server, job.session, job.print>> \in opened' =>
          /\ WasOpened(Session(job))'
    <2>1. PICK o : o = <<job.server, job.session, job.print>>
        OBVIOUS
    <2>2. <<o[1], o[2]>> = Session(job)
        BY <1>1, <2>1
    <2>. QED
        BY <2>1, <2>2 DEF WasOpened, Session
<1>6. CASE Connect(job)
    <2>1. UNCHANGED <<ups, genSeq, closing>> /\ job.step = "dial"
        BY <1>6 DEF Connect
    <2>2. CASE /\ open' = open \union {Session(job)}
               /\ opened' = opened \union {<<job.server, job.session, job.print>>}
               /\ connects' = Become(job, "list")
        <3>1. PICK k : connects' = (connects \ {job}) \union {k} /\ SameConnect(k, job) /\ k.step = "list"
            BY <1>2, <2>2
        <3>2. ConnectAt(k)'
            BY <1>1, <1>3, <2>1, <2>2, <3>1, GoesOn
        <3>3. k \in connects' /\ HoldsSession(k)
            BY <3>1 DEF HoldsSession
        <3>. QED
            BY <1>3, <1>5, <2>1, <2>2, <3>1, <3>2, <3>3, ConnectMoves
    <2>3. CASE connects' = Become(job, "failed") /\ UNCHANGED <<open, opened>>
        <3>1. PICK k : connects' = (connects \ {job}) \union {k} /\ SameConnect(k, job) /\ k.step = "failed"
            BY <1>2, <2>3
        <3>2. ConnectAt(k)'
            BY <1>1, <1>3, <2>1, <2>3, <3>1, GoesOn DEF HoldsSession
        <3>3. Session(job) \notin open
            BY <1>1, <2>1 DEF Bookkeeping, History, ConnectAt
        <3>. QED
            BY <1>3, <2>1, <2>3, <3>1, <3>2, <3>3, ConnectMoves
    <2>. QED
        BY <1>6, <2>2, <2>3 DEF Connect
<1>7. CASE ListTools(job)
    <2>1. UNCHANGED <<ups, genSeq, closing, opened>> /\ job.step = "list"
        BY <1>7 DEF ListTools
    <2>2. Session(job) \in open /\ <<job.server, job.session, job.print>> \in opened
        BY <1>1, <2>1 DEF ConnectAt, HoldsSession
    <2>3. CASE /\ connects' = (connects \ {job}) \union
                     {[job EXCEPT !.step = "listed", !.listVersion = version[job.server]]}
               /\ open' = open
        <3>1. PICK k : k = [job EXCEPT !.step = "listed", !.listVersion = version[job.server]]
            OBVIOUS
        <3>2. SameConnect(k, job) /\ k.step = "listed" /\ connects' = (connects \ {job}) \union {k}
            BY <1>1, <2>3, <3>1 DEF SameConnect, Job
        <3>3. ConnectAt(k)'
            BY <1>1, <1>3, <2>1, <2>2, <2>3, <3>2, GoesOn
        <3>4. k \in connects' /\ HoldsSession(k)
            BY <3>2 DEF HoldsSession
        <3>. QED
            BY <1>3, <1>5, <2>1, <2>2, <2>3, <3>2, <3>3, <3>4, ConnectMoves
    <2>4. CASE open' = open \ {Session(job)} /\ connects' = Become(job, "failed")
        <3>1. PICK k : connects' = (connects \ {job}) \union {k} /\ SameConnect(k, job) /\ k.step = "failed"
            BY <1>2, <2>4
        <3>2. ConnectAt(k)'
            BY <1>1, <1>3, <2>1, <3>1, GoesOn DEF HoldsSession
        <3>. QED
            BY <1>3, <2>1, <2>4, <3>1, <3>2, ConnectMoves
    <2>. QED
        BY <1>7, <2>3, <2>4 DEF ListTools
<1>8. CASE FinishConnected(job)
    <2>1. /\ UNCHANGED <<genSeq, open, closing, opened>> /\ connects' = connects \ {job}
          /\ job.step = "listed" /\ Wanted(job)
        BY <1>8 DEF FinishConnected
    <2>2. /\ ups[job.server].print = job.print /\ ups[job.server].session = 0
          /\ ups[job.server].gen = job.gen
        BY <2>1, WantedIsVacant
    <2>3. PICK tools, v : ups' = [ups EXCEPT ![job.server] = [ups[job.server] EXCEPT
                !.state = "connected", !.session = job.session, !.tools = tools, !.listVersion = v]]
        BY <1>8 DEF FinishConnected
    <2>4. /\ \A s \in Servers : s # job.server => ups'[s] = ups[s]
          /\ ups'[job.server].state = "connected" /\ ups'[job.server].session = job.session
          /\ ups'[job.server].gen = job.gen /\ ups'[job.server].print = job.print
        BY <1>1, <2>2, <2>3 DEF PoolTypes, Upstream
    <2>5. <<job.server, job.session, job.print>> \in opened /\ Session(job) \notin closing
        BY <1>1, <2>1 DEF ConnectAt, HoldsSession
    <2>6. RecordAt(job.server)'
        <3>1. ups[job.server].gen <= genSeq[job.server]
            BY <1>1 DEF Bookkeeping, RecordAt
        <3>. QED
            BY <1>1, <2>1, <2>2, <2>4, <2>5, <3>1 DEF RecordAt
    <2>7. \A s \in Servers :
              \/ SameRecord(s)
              \/ /\ s = job.server /\ ups[s].gen = job.gen /\ ups'[s].gen = job.gen
                 /\ ups'[s].session \in {0, job.session} /\ ups[s].session = 0
                 /\ RecordAt(s)'
        BY <2>2, <2>4, <2>6 DEF SameRecord
    <2>. QED
        BY <1>4, <1>5, <2>1, <2>4, <2>5, <2>7, ConnectMoves
<1>9. CASE FinishFailed(job)
    <2>1. /\ UNCHANGED <<genSeq, open, closing, opened>> /\ connects' = Become(job, "notify")
          /\ job.step = "failed" /\ Wanted(job)
          /\ ups' = [ups EXCEPT ![job.server] = [ups[job.server] EXCEPT !.state = "failed", !.due = FALSE]]
        BY <1>9 DEF FinishFailed
    <2>2. /\ ups[job.server].session = 0 /\ ups[job.server].gen = job.gen
        BY <2>1, WantedIsVacant
    <2>3. /\ \A s \in Servers : s # job.server => ups'[s] = ups[s]
          /\ ups'[job.server].state = "failed" /\ ups'[job.server].session = 0
          /\ ups'[job.server].gen = job.gen
        BY <1>1, <2>1, <2>2 DEF PoolTypes, Upstream
    <2>4. PICK k : connects' = (connects \ {job}) \union {k} /\ SameConnect(k, job) /\ k.step = "notify"
        BY <1>2, <2>1
    <2>5. ConnectAt(k)'
        <3>1. Session(k) = Session(job)
            BY <2>4 DEF Session, SameConnect
        <3>2. WasOpened(Session(k))' = WasOpened(Session(k))
            BY <2>1 DEF WasOpened, Session
        <3>. QED
            BY <1>1, <2>1, <2>3, <2>4, <3>1, <3>2
            DEF ConnectAt, Awaited, HoldsSession, SameConnect, Session
    <2>6. RecordAt(job.server)'
        <3>1. ups[job.server].gen <= genSeq[job.server]
            BY <1>1 DEF Bookkeeping, RecordAt
        <3>. QED
            BY <1>1, <2>1, <2>2, <2>3, <3>1 DEF RecordAt
    <2>7. \A s \in Servers :
              \/ SameRecord(s)
              \/ /\ s = job.server /\ ups[s].gen = job.gen /\ ups'[s].gen = job.gen
                 /\ ups'[s].session \in {0, job.session} /\ ups[s].session = 0
                 /\ RecordAt(s)'
        BY <2>2, <2>3, <2>6 DEF SameRecord
    <2>8. Session(job) \notin open
        BY <2>1, HoldsNothing DEF HoldsSession
    <2>. QED
        BY <2>1, <2>4, <2>5, <2>7, <2>8, ConnectMoves
<1>10. CASE FinishStale(job)
    <2>1. UNCHANGED <<ups, genSeq, open, closing, opened>> /\ job.step \in {"listed", "failed"}
        BY <1>10 DEF FinishStale, poolVars
    <2>2. CASE job.step = "listed" /\ connects' = Become(job, "discard")
        <3>1. PICK k : connects' = (connects \ {job}) \union {k} /\ SameConnect(k, job) /\ k.step = "discard"
            BY <1>2, <2>2
        <3>2. Session(job) \in open /\ <<job.server, job.session, job.print>> \in opened
            BY <1>1, <2>2 DEF ConnectAt, HoldsSession
        <3>3. ConnectAt(k)'
            BY <1>1, <1>3, <2>1, <3>1, <3>2, GoesOn
        <3>4. k \in connects' /\ HoldsSession(k)
            BY <3>1 DEF HoldsSession
        <3>. QED
            BY <1>3, <1>5, <2>1, <3>1, <3>2, <3>3, <3>4, ConnectMoves
    <2>3. CASE job.step = "failed" /\ connects' = connects \ {job}
        <3>1. Session(job) \notin open
            BY <2>3, HoldsNothing DEF HoldsSession
        <3>. QED
            BY <1>3, <1>4, <2>1, <2>3, <3>1, ConnectMoves
    <2>. QED
        BY <1>10, <2>1, <2>2, <2>3 DEF FinishStale
<1>11. CASE NotifyFailed(job)
    <2>1. UNCHANGED <<ups, genSeq, open, closing, opened>> /\ job.step = "notify"
             /\ connects' = connects \ {job}
        BY <1>11 DEF NotifyFailed, poolVars
    <2>2. Session(job) \notin open
        BY <2>1, HoldsNothing DEF HoldsSession
    <2>. QED
        BY <1>3, <1>4, <2>1, <2>2, ConnectMoves
<1>12. CASE CloseDiscarded(job)
    <2>1. UNCHANGED <<ups, genSeq, closing, opened>> /\ open' = open \ {Session(job)}
             /\ connects' = connects \ {job}
        BY <1>12 DEF CloseDiscarded
    <2>. QED
        BY <1>3, <1>4, <2>1, ConnectMoves
<1>. QED
    BY <1>6, <1>7, <1>8, <1>9, <1>10, <1>11, <1>12 DEF Connecting

\* syncOnce: what it does to one record, in the terms of TakenOutOfService.
LEMMA SyncedRecord ==
    ASSUME PoolTypes, Bookkeeping, NEW s \in Servers,
           ups'[s] = Synced(s), genSeq'[s] = NextGen(s)
    PROVE /\ genSeq[s] <= genSeq'[s]
          /\ s \in TornDown \union TurnedOff => Renewed(s)
          /\ SameRecord(s) \/ (Renewed(s) /\ (s \in TornDown \union TurnedOff \/ ups[s].session = 0))
          /\ s \in Fresh \union Again => ups'[s].state = "connecting" /\ ups'[s].print = listed[s].print
<1>1. ups[s] \in Upstream /\ genSeq[s] \in Nat /\ RecordAt(s) /\ genSeq[s] <= NextGen(s)
         /\ NextGen(s) \in Nat /\ Detached(s) \in Upstream
    BY ApplyTypes, PoolOperators DEF PoolTypes, Bookkeeping
<1>2. s \in Fresh \union Again => genSeq[s] < NextGen(s)
    BY ApplyTypes
<1>3. CASE s \in Fresh
    <2>1. ups'[s] = [NoUpstream EXCEPT !.state = "connecting", !.print = listed[s].print, !.gen = NextGen(s)]
        BY <1>3, Apart DEF Synced
    <2>2. /\ ups'[s].state = "connecting" /\ ups'[s].print = listed[s].print
          /\ ups'[s].session = 0 /\ ups'[s].gen = NextGen(s)
        BY <2>1 DEF NoUpstream
    <2>3. s \in TornDown \/ ups[s].session = 0
        BY <1>1, <1>3 DEF Fresh, Has, RecordAt
    <2>. QED
        BY <1>1, <1>2, <1>3, <2>2, <2>3 DEF Renewed
<1>4. CASE s \in Again
    <2>1. ups'[s] = [ups[s] EXCEPT !.state = "connecting", !.gen = NextGen(s), !.due = FALSE]
        BY <1>4, Apart DEF Synced
    <2>2. /\ ups[s].state # "connected" /\ ups[s].state # "absent" /\ ups[s].print = listed[s].print
        BY <1>4 DEF Again, TornDown, Has
    <2>3. /\ ups'[s].state = "connecting" /\ ups'[s].print = listed[s].print
          /\ ups'[s].session = 0 /\ ups'[s].gen = NextGen(s)
        BY <1>1, <2>1, <2>2 DEF Upstream, RecordAt
    <2>. QED
        BY <1>1, <1>2, <1>4, <2>2, <2>3, Apart DEF Renewed, RecordAt
<1>5. CASE s \in TurnedOff
    <2>1. ups'[s] = [Detached(s) EXCEPT !.state = "disabled", !.print = listed[s].print]
        BY <1>5, Apart DEF Synced
    <2>2. Detached(s).gen = genSeq[s] + 1 /\ Detached(s).session = 0
        BY <1>1 DEF Detached, Upstream
    <2>3. /\ ups'[s].state = "disabled" /\ ups'[s].session = 0 /\ ups'[s].gen = genSeq[s] + 1
        BY <1>1, <2>1, <2>2 DEF Upstream
    <2>4. NextGen(s) = genSeq[s] + 1
        BY <1>1, <1>5, Apart DEF NextGen
    <2>. QED
        BY <1>1, <1>5, <2>3, <2>4, Apart DEF Renewed
<1>6. CASE s \in TornDown \ Fresh
    <2>1. ups'[s] = NoUpstream
        BY <1>6, Apart DEF Synced
    <2>2. s \notin Again
        BY <1>6, Apart
    <2>. QED
        BY <1>1, <1>6, <2>1, <2>2 DEF Renewed, NoUpstream
<1>7. CASE s \notin Fresh \union Again \union TornDown \union TurnedOff
    <2>1. ups'[s] = ups[s]
        BY <1>7 DEF Synced
    <2>. QED
        BY <1>1, <1>7, <2>1 DEF SameRecord
<1>. QED
    BY <1>3, <1>4, <1>5, <1>6, <1>7

LEMMA ApplyBooks ==
    ASSUME PoolTypes, PoolTypes', Bookkeeping, Apply
    PROVE Bookkeeping'
<1>1. CASE closed
    <2>1. UNCHANGED <<ups, genSeq, open, closing, connects, opened>>
        BY <1>1 DEF Apply
    <2>. QED
        BY <2>1, PoolAtRest DEF SameRecord
<1>2. CASE ~closed
    <2>1. /\ ups' = [s \in Servers |-> Synced(s)]
          /\ genSeq' = [s \in Servers |-> NextGen(s)]
          /\ closing' = closing \union SessionsOf(TornDown \union TurnedOff)
          /\ connects' = connects \union {Dial(s) : s \in Fresh \union Again}
          /\ UNCHANGED <<open, opened>>
        BY <1>2 DEF Apply
    <2>2. PICK gone, new : /\ gone = TornDown \union TurnedOff
                           /\ new = {Dial(s) : s \in Fresh \union Again}
        OBVIOUS
    <2>3. gone \in SUBSET Servers /\ Fresh \union Again \subseteq Servers
        BY <2>2 DEF TornDown, TurnedOff, Fresh, Again
    <2>4. \A s \in Servers :
              /\ genSeq[s] <= genSeq'[s]
              /\ s \in gone => Renewed(s)
              /\ SameRecord(s) \/ (Renewed(s) /\ (s \in gone \/ ups[s].session = 0))
        BY <2>1, <2>2, SyncedRecord
    <2>5. \A job \in new : \E s \in Servers : s \in Fresh \union Again /\ job = Dial(s)
        BY <2>2, <2>3
    <2>6. ASSUME NEW s \in Servers, s \in Fresh \union Again
          PROVE /\ Dial(s).step = "dial" /\ Dial(s).gen = Dial(s).session /\ Dial(s).server = s
                /\ genSeq[s] < Dial(s).session /\ Dial(s).session <= genSeq'[s]
                /\ ups'[s].state = "connecting" /\ ups'[s].print = Dial(s).print
        <3>1. /\ Dial(s).step = "dial" /\ Dial(s).gen = NextGen(s) /\ Dial(s).session = NextGen(s)
              /\ Dial(s).server = s /\ Dial(s).print = listed[s].print
            BY DEF Dial
        <3>2. genSeq[s] < NextGen(s) /\ NextGen(s) \in Nat
            BY <2>6, ApplyTypes
        <3>3. ups'[s].state = "connecting" /\ ups'[s].print = listed[s].print
            BY <2>1, <2>6, SyncedRecord
        <3>. QED
            BY <2>1, <3>1, <3>2, <3>3
    <2>7. \A job \in new :
              /\ job.step = "dial" /\ job.gen = job.session
              /\ genSeq[job.server] < job.session /\ job.session <= genSeq'[job.server]
              /\ ups'[job.server].state = "connecting" /\ ups'[job.server].print = job.print
        BY <2>5, <2>6
    <2>8. \A j, k \in new : j.server = k.server => j = k
        BY <2>5, <2>6
    <2>. QED
        BY <2>1, <2>2, <2>3, <2>4, <2>7, <2>8, TakenOutOfService
<1>. QED
    BY <1>1, <1>2

\* markFailed, of the session still in service.
LEMMA CallFailsBooks ==
    ASSUME PoolTypes, PoolTypes', InProgress, Bookkeeping, NEW c \in Callers, CallFails(c)
    PROVE Bookkeeping'
<1>1. calls[c].server \in Servers /\ UNCHANGED <<open, connects, opened>>
    BY DEF CallFails, InProgress
<1>2. PICK s : s = calls[c].server
    OBVIOUS
<1>3. CASE ups[s].session # calls[c].session
    <2>1. UNCHANGED <<ups, genSeq, closing>>
        BY <1>2, <1>3 DEF CallFails
    <2>. QED
        BY <1>1, <2>1, PoolAtRest DEF SameRecord
<1>4. CASE ups[s].session = calls[c].session
    <2>1. /\ ups' = [ups EXCEPT ![s] = [Detached(s) EXCEPT !.state = "failed", !.due = FALSE]]
          /\ genSeq' = [genSeq EXCEPT ![s] = genSeq[s] + 1]
          /\ closing' = closing \union SessionsOf({s})
        BY <1>2, <1>4 DEF CallFails
    <2>2. ups[s] \in Upstream /\ genSeq[s] \in Nat /\ Detached(s) \in Upstream
        BY <1>1, <1>2, PoolOperators DEF PoolTypes
    <2>3. Detached(s).gen = genSeq[s] + 1 /\ Detached(s).session = 0
        BY <2>2 DEF Detached, Upstream
    <2>4. /\ ups'[s].state = "failed" /\ ups'[s].session = 0 /\ ups'[s].gen = genSeq[s] + 1
          /\ genSeq'[s] = genSeq[s] + 1
        BY <1>1, <1>2, <2>1, <2>2, <2>3 DEF PoolTypes, Upstream
    <2>5. Renewed(s)
        BY <2>2, <2>4 DEF Renewed
    <2>6. \A t \in Servers : t # s => SameRecord(t) /\ genSeq'[t] = genSeq[t]
        BY <2>1 DEF SameRecord, PoolTypes
    <2>7. \A t \in Servers :
              /\ genSeq[t] <= genSeq'[t]
              /\ t \in {s} => Renewed(t)
              /\ SameRecord(t) \/ (Renewed(t) /\ (t \in {s} \/ ups[t].session = 0))
        BY <2>2, <2>4, <2>5, <2>6 DEF PoolTypes
    <2>8. {s} \in SUBSET Servers
        BY <1>1, <1>2
    <2>. QED
        BY <1>1, <2>1, <2>7, <2>8, OnlyTakenOut
<1>. QED
    BY <1>3, <1>4

LEMMA TeardownBooks ==
    ASSUME PoolTypes, PoolTypes', Bookkeeping, CloseTeardown
    PROVE Bookkeeping'
<1>1. /\ ups' = [s \in Servers |-> NoUpstream]
      /\ genSeq' = [s \in Servers |-> genSeq[s] + (IF Has(s) THEN 1 ELSE 0)]
      /\ closing' = closing \union SessionsOf(Servers)
      /\ UNCHANGED <<open, connects, opened>>
    BY DEF CloseTeardown, jobVars
<1>2. ASSUME NEW s \in Servers
      PROVE genSeq[s] <= genSeq'[s] /\ Renewed(s)
    <2>1. genSeq[s] \in Nat /\ genSeq'[s] \in Nat /\ genSeq[s] <= genSeq'[s]
        BY <1>1 DEF PoolTypes
    <2>. QED
        BY <1>1, <2>1 DEF Renewed, NoUpstream
<1>3. Servers \in SUBSET Servers
    OBVIOUS
<1>. QED
    BY <1>1, <1>2, <1>3, OnlyTakenOut

\* The steps that leave records, sessions and connects alone.
PoolUnchanged == UNCHANGED <<ups, owner, genSeq, open, closing, connects, opened>>

LEMMA QuietSteps ==
    ASSUME \/ \E s \in Servers, row \in Row \union {Deleted} : Edit(s, row)
           \/ Notify \/ TakeWakeup \/ TimerFires \/ LoopExits \/ List \/ Arm
           \/ \E s \in Servers : UpstreamChanges(s) \/ ToolsChanged(s)
           \/ \E r \in Refreshers : RefreshList(r)
           \/ \E c \in Callers : (\E s \in Servers : CallBegin(c, s)) \/ CallReturns(c) \/ CallNotifies(c)
           \/ CloseStop \/ CloseReturns \/ UNCHANGED vars
    PROVE PoolUnchanged
<1>1. CASE \E s \in Servers, row \in Row \union {Deleted} : Edit(s, row)
    BY <1>1 DEF Edit, poolVars, jobVars, PoolUnchanged
<1>2. CASE Notify \/ TakeWakeup \/ TimerFires \/ LoopExits
    BY <1>2 DEF Notify, TakeWakeup, TimerFires, LoopExits, poolVars, jobVars, PoolUnchanged
<1>3. CASE List \/ Arm
    BY <1>3 DEF List, Arm, poolVars, jobVars, PoolUnchanged
<1>4. CASE \E s \in Servers : UpstreamChanges(s) \/ ToolsChanged(s)
    BY <1>4 DEF UpstreamChanges, ToolsChanged, poolVars, jobVars, PoolUnchanged
<1>5. CASE \E r \in Refreshers : RefreshList(r)
    BY <1>5 DEF RefreshList, poolVars, PoolUnchanged
<1>6. CASE \E c \in Callers : (\E s \in Servers : CallBegin(c, s)) \/ CallReturns(c) \/ CallNotifies(c)
    BY <1>6 DEF CallBegin, CallReturns, CallNotifies, poolVars, PoolUnchanged
<1>7. CASE CloseStop \/ CloseReturns \/ UNCHANGED vars
    BY <1>7 DEF CloseStop, CloseReturns, vars, poolVars, jobVars, PoolUnchanged
<1>. QED
    BY <1>1, <1>2, <1>3, <1>4, <1>5, <1>6, <1>7

\* The back-off of a record, and the tools a refresh found.
LEMMA BackoffRecord ==
    ASSUME PoolTypes, NEW s \in Servers, BackoffEnds(s)
    PROVE /\ \A t \in Servers : SameRecord(t) /\ ups'[t].tools = ups[t].tools
          /\ ups[s].state = "failed"
          /\ UNCHANGED <<owner, genSeq, open, closing, connects, opened, closer>>
BY DEF BackoffEnds, jobVars, SameRecord, PoolTypes, Upstream

LEMMA RefreshedRecord ==
    ASSUME PoolTypes, InProgress, NEW r \in Refreshers, RefreshApply(r)
    PROVE /\ \A t \in Servers : SameRecord(t)
          /\ UNCHANGED <<genSeq, open, closing, connects, opened, closer>>
<1>1. UNCHANGED <<genSeq, open, closing, connects, opened, closer>>
    BY DEF RefreshApply
<1>2. CASE ups' = ups
    BY <1>1, <1>2 DEF SameRecord
<1>3. CASE ups' # ups
    <2>1. PICK s : s = refresh[r].server
        OBVIOUS
    <2>2. PICK tools : tools = Registered(s, Offers(s, refresh[r].listVersion), Without({s}))
        OBVIOUS
    <2>3. ups' = [ups EXCEPT ![s] = [ups[s] EXCEPT !.tools = tools, !.listVersion = refresh[r].listVersion]]
        BY <1>3, <2>1, <2>2 DEF RefreshApply
    <2>. QED
        BY <1>1, <2>3 DEF SameRecord, PoolTypes, Upstream
<1>. QED
    BY <1>2, <1>3

LEMMA BookkeepingInit == Init => Bookkeeping
BY DEF Init, Bookkeeping, RecordAt, NoUpstream, OneConnect, History, Owned

LEMMA BookkeepingStep ==
    ASSUME PoolTypes, PoolTypes', InProgress, Bookkeeping, [Next]_vars
    PROVE Bookkeeping'
<1>1. CASE PoolUnchanged
    BY <1>1, PoolAtRest DEF PoolUnchanged, SameRecord
<1>2. ASSUME NEW s \in Servers, BackoffEnds(s)
      PROVE Bookkeeping'
    BY <1>2, BackoffRecord, PoolAtRest
<1>3. ASSUME NEW r \in Refreshers, RefreshApply(r)
      PROVE Bookkeeping'
    BY <1>3, RefreshedRecord, PoolAtRest
<1>4. ASSUME NEW job \in connects, Connecting(job)
      PROVE Bookkeeping'
    BY <1>4, ConnectingBooks
<1>5. CASE Apply
    BY <1>5, ApplyBooks
<1>6. ASSUME NEW g \in closing, CloseDetached(g)
      PROVE Bookkeeping'
    BY <1>6, DetachedIsClosed
<1>7. ASSUME NEW c \in Callers, CallFails(c)
      PROVE Bookkeeping'
    BY <1>7, CallFailsBooks
<1>8. CASE CloseTeardown
    BY <1>8, TeardownBooks
<1>. QED
    BY <1>1, <1>2, <1>3, <1>4, <1>5, <1>6, <1>7, <1>8, QuietSteps
    DEF Next, Reconcile, Refreshing, Calling, Close

-----------------------------------------------------------------------------
(* AfterClose.                                                             *)

LEMMA AfterCloseStep ==
    ASSUME PoolTypes, InProgress, AfterClose, [Next]_vars
    PROVE AfterClose'
<1>1. ASSUME closed, NEW job \in connects, Connecting(job)
      PROVE ups' = ups
    <2>1. ~Wanted(job)
        BY <1>1 DEF Wanted
    <2>. QED
        BY <1>1, <2>1 DEF Connecting, Connect, ListTools, FinishConnected, FinishFailed, FinishStale,
              NotifyFailed, CloseDiscarded, poolVars
<1>2. ASSUME NEW job \in connects, Connecting(job)
      PROVE AfterClose'
    <2>1. closer' = closer
        BY <1>2 DEF Connecting, Connect, ListTools, FinishConnected, FinishFailed, FinishStale,
              NotifyFailed, CloseDiscarded, worldVars
    <2>2. closer # "returned"
        BY <1>2 DEF AfterClose
    <2>3. closed => ups' = ups
        BY <1>1, <1>2
    <2>. QED
        BY <2>1, <2>2, <2>3 DEF AfterClose, closed
<1>3. CASE PoolUnchanged /\ closer' = closer
    BY <1>3 DEF AfterClose, closed, PoolUnchanged
<1>4. ASSUME NEW s \in Servers, BackoffEnds(s)
      PROVE AfterClose'
    <2>1. ~closed
        BY <1>4 DEF AfterClose, BackoffEnds, NoUpstream
    <2>. QED
        BY <1>4, <2>1 DEF AfterClose, closed, BackoffEnds
<1>5. ASSUME NEW r \in Refreshers, RefreshApply(r)
      PROVE AfterClose'
    <2>1. closed => ups' = ups
        BY <1>5 DEF RefreshApply, Current
    <2>2. closer' = closer /\ connects' = connects
        BY <1>5 DEF RefreshApply
    <2>. QED
        BY <2>1, <2>2 DEF AfterClose, closed
<1>6. CASE Apply
    <2>1. closed => ups' = ups /\ connects' = connects
        BY <1>6 DEF Apply
    <2>2. closer' = closer
        BY <1>6 DEF Apply
    <2>. QED
        BY <2>1, <2>2 DEF AfterClose, closed
<1>7. ASSUME NEW g \in closing, CloseDetached(g)
      PROVE AfterClose'
    BY <1>7 DEF AfterClose, closed, CloseDetached, jobVars
<1>8. ASSUME NEW c \in Callers, CallFails(c)
      PROVE AfterClose'
    <2>1. calls[c].server \in Servers /\ calls[c].session # 0
        BY <1>8 DEF CallFails, InProgress
    <2>2. closed => ups[calls[c].server].session # calls[c].session
        BY <2>1 DEF AfterClose, NoUpstream
    <2>3. closed => ups' = ups
        BY <1>8, <2>2 DEF CallFails
    <2>4. closer' = closer /\ connects' = connects
        BY <1>8 DEF CallFails
    <2>. QED
        BY <2>3, <2>4 DEF AfterClose, closed
<1>9. CASE CloseStop
    BY <1>9 DEF CloseStop, AfterClose, closed
<1>10. CASE CloseTeardown
    BY <1>10 DEF CloseTeardown, AfterClose, closed
<1>11. CASE CloseReturns
    BY <1>11 DEF CloseReturns, AfterClose, closed, Idle, poolVars, jobVars
<1>12. \/ \E s \in Servers, row \in Row \union {Deleted} : Edit(s, row)
       \/ Notify \/ TakeWakeup \/ TimerFires \/ LoopExits \/ List \/ Arm
       \/ \E s \in Servers : UpstreamChanges(s) \/ ToolsChanged(s)
       \/ \E r \in Refreshers : RefreshList(r)
       \/ \E c \in Callers : (\E s \in Servers : CallBegin(c, s)) \/ CallReturns(c) \/ CallNotifies(c)
       \/ UNCHANGED vars
       => closer' = closer
    BY DEF Edit, Notify, TakeWakeup, TimerFires, LoopExits, List, Arm, UpstreamChanges, ToolsChanged,
           RefreshList, CallBegin, CallReturns, CallNotifies, vars
<1>. QED
    BY <1>2, <1>3, <1>4, <1>5, <1>6, <1>7, <1>8, <1>9, <1>10, <1>11, <1>12, QuietSteps
    DEF Next, Reconcile, Refreshing, Calling, Close

-----------------------------------------------------------------------------
(* The registry.                                                           *)

\* A list is registered for a server whose tools so far are base: what it
\* offers becomes its own, unless another server has the name.
RegistersFor(s, offered, owned, base) ==
    /\ \A p \in Names : owned[p] = s <=> p \in base
    /\ \A t \in Servers, p \in Names : t # s => (owned[p] = t <=> p \in ups[t].tools)
    /\ Register(s, offered, owned)
    /\ ups'[s].tools = base \union Registered(s, offered, owned)
    /\ ups'[s].state = "connected"
    /\ \A t \in Servers : t # s => ups'[t] = ups[t]

LEMMA Registering ==
    ASSUME PoolTypes, RegistryAgrees, NEW s \in Servers,
           NEW offered \in SUBSET Names, NEW owned, NEW base \in SUBSET Names,
           RegistersFor(s, offered, owned, base)
    PROVE RegistryAgrees'
<1>1. \A p \in Names : owner'[p] = IF p \in Registered(s, offered, owned) THEN s ELSE owned[p]
    BY DEF Register, RegistersFor
<1>2. \A p \in Names : owner'[p] = s <=> p \in ups'[s].tools
    BY <1>1 DEF RegistersFor
<1>3. ASSUME NEW t \in Servers, t # s, NEW p \in Names
      PROVE owner'[p] = t <=> p \in ups'[t].tools
    <2>1. p \in Registered(s, offered, owned) => owned[p] # t
        BY <1>3, PoolConstants DEF Registered, RegistersFor
    <2>. QED
        BY <1>1, <1>3, <2>1 DEF RegistersFor
<1>4. \A t \in Servers : ups'[t].tools # {} => ups'[t].state = "connected"
    BY DEF RegistryAgrees, RegistersFor
<1>. QED
    BY <1>2, <1>3, <1>4 DEF RegistryAgrees

\* The names of some servers are given free.
LEMMA WithoutFreed ==
    ASSUME PoolTypes, RegistryAgrees, NEW gone \in SUBSET Servers
    PROVE /\ \A s \in gone, p \in Names : Without(gone)[p] # s
          /\ \A s \in Servers \ gone, p \in Names : Without(gone)[p] = s <=> p \in ups[s].tools
<1>1. \A p \in Names : Without(gone)[p] = IF \E s \in gone : p \in ups[s].tools THEN None ELSE owner[p]
    BY DEF Without
<1>2. \A s \in Servers : s # None
    BY PoolConstants
<1>. QED
    BY <1>1, <1>2 DEF RegistryAgrees

\* Records taken down lose their tools, and nobody else's names go.
LEMMA TakenDown ==
    ASSUME PoolTypes, RegistryAgrees, NEW gone \in SUBSET Servers, owner' = Without(gone),
           \A s \in Servers :
              \/ ups'[s].tools = {} /\ (s \in gone \/ ups[s].tools = {})
              \/ ups'[s].tools = ups[s].tools /\ ups'[s].state = ups[s].state /\ s \notin gone
    PROVE RegistryAgrees'
<1>1. ASSUME NEW s \in Servers, NEW p \in Names
      PROVE owner'[p] = s <=> p \in ups'[s].tools
    BY WithoutFreed
<1>. QED
    BY <1>1 DEF RegistryAgrees

LEMMA RegistryInit == Init => RegistryAgrees
BY PoolConstants DEF Init, RegistryAgrees, NoUpstream

LEMMA SyncedTools ==
    ASSUME PoolTypes, RegistryAgrees, NEW s \in Servers, ups'[s] = Synced(s)
    PROVE \/ ups'[s].tools = {} /\ (s \in TornDown \union TurnedOff \/ ups[s].tools = {})
          \/ ups'[s].tools = ups[s].tools /\ ups'[s].state = ups[s].state
               /\ s \notin TornDown \union TurnedOff
<1>1. ups[s] \in Upstream
    BY DEF PoolTypes
<1>2. CASE s \in Fresh
    <2>1. ups'[s].tools = {}
        BY <1>2, Apart DEF Synced, NoUpstream
    <2>2. s \in TornDown \/ ups[s].tools = {}
        BY <1>2 DEF Fresh, Has, RegistryAgrees
    <2>. QED
        BY <2>1, <2>2
<1>3. CASE s \in Again
    <2>1. ups'[s] = [ups[s] EXCEPT !.state = "connecting", !.gen = NextGen(s), !.due = FALSE]
        BY <1>3, Apart DEF Synced
    <2>2. ups[s].tools = {}
        BY <1>3 DEF Again, RegistryAgrees
    <2>. QED
        BY <1>1, <2>1, <2>2 DEF Upstream
<1>4. CASE s \in TurnedOff
    <2>1. ups'[s] = [Detached(s) EXCEPT !.state = "disabled", !.print = listed[s].print]
        BY <1>4, Apart DEF Synced
    <2>2. Detached(s).tools = {} /\ Detached(s) \in Upstream
        BY <1>1, PoolOperators DEF Detached, Upstream
    <2>. QED
        BY <1>4, <2>1, <2>2 DEF Upstream
<1>5. CASE s \in TornDown \ Fresh
    <2>1. ups'[s] = NoUpstream
        BY <1>5, Apart DEF Synced
    <2>. QED
        BY <1>5, <2>1 DEF NoUpstream
<1>6. CASE s \notin Fresh \union Again \union TornDown \union TurnedOff
    BY <1>6 DEF Synced
<1>. QED
    BY <1>2, <1>3, <1>4, <1>5, <1>6

LEMMA RegistryStep ==
    ASSUME PoolTypes, InProgress, Bookkeeping, RegistryAgrees, [Next]_vars
    PROVE RegistryAgrees'
<1>1. CASE UNCHANGED <<ups, owner>>
    BY <1>1 DEF RegistryAgrees
<1>2. ASSUME NEW s \in Servers, BackoffEnds(s)
      PROVE RegistryAgrees'
    BY <1>2, BackoffRecord DEF RegistryAgrees, SameRecord
<1>3. CASE Apply
    <2>1. CASE ~closed
        <3>1. ups' = [s \in Servers |-> Synced(s)] /\ owner' = Without(TornDown \union TurnedOff)
            BY <1>3, <2>1 DEF Apply
        <3>2. TornDown \union TurnedOff \in SUBSET Servers
            BY DEF TornDown, TurnedOff
        <3>3. \A s \in Servers : ups'[s] = Synced(s)
            BY <3>1
        <3>. QED
            BY <3>1, <3>2, <3>3, SyncedTools, TakenDown
    <2>. QED
        BY <1>1, <1>3, <2>1 DEF Apply
<1>4. ASSUME NEW job \in connects, FinishConnected(job)
      PROVE RegistryAgrees'
    <2>1. job \in Job /\ job.server \in Servers /\ job.listVersion \in Versions
        BY <1>4 DEF FinishConnected, PoolTypes, Job, InProgress
    <2>2. PICK s, offered : s = job.server /\ offered = Offers(s, job.listVersion)
        OBVIOUS
    <2>3. PICK tools : tools = ups[s].tools \union Registered(s, offered, owner)
        OBVIOUS
    <2>4. /\ Register(s, offered, owner)
          /\ ups' = [ups EXCEPT ![s] = [ups[s] EXCEPT
                !.state = "connected", !.session = job.session,
                !.tools = tools, !.listVersion = job.listVersion]]
        BY <1>4, <2>2, <2>3 DEF FinishConnected
    <2>5. /\ ups'[s].state = "connected" /\ ups'[s].tools = tools
          /\ \A t \in Servers : t # s => ups'[t] = ups[t]
        BY <2>1, <2>2, <2>4 DEF PoolTypes, Upstream
    <2>6. offered \in SUBSET Names /\ ups[s].tools \in SUBSET Names
        BY <2>1, <2>2, ListsAreNames DEF PoolTypes, Upstream
    <2>7. \A t \in Servers, p \in Names : owner[p] = t <=> p \in ups[t].tools
        BY DEF RegistryAgrees
    <2>8. PICK base, owned : base = ups[s].tools /\ owned = owner
        OBVIOUS
    <2>9. RegistersFor(s, offered, owned, base)
        BY <2>1, <2>2, <2>3, <2>4, <2>5, <2>7, <2>8 DEF RegistersFor
    <2>. QED
        BY <2>1, <2>2, <2>6, <2>8, <2>9, Registering
<1>5. ASSUME NEW job \in connects, FinishFailed(job)
      PROVE RegistryAgrees'
    <2>1. job \in Job /\ job.server \in Servers
        BY DEF PoolTypes, Job
    <2>2. ups[job.server].state = "connecting"
        BY <1>5, WantedIsVacant DEF FinishFailed
    <2>3. /\ owner' = owner
          /\ ups' = [ups EXCEPT ![job.server] = [ups[job.server] EXCEPT !.state = "failed", !.due = FALSE]]
        BY <1>5 DEF FinishFailed
    <2>4. \A t \in Servers : ups'[t].tools = ups[t].tools /\ (t # job.server => ups'[t] = ups[t])
        BY <2>1, <2>3 DEF PoolTypes, Upstream
    <2>5. ups[job.server].tools = {}
        BY <2>1, <2>2 DEF RegistryAgrees
    <2>. QED
        BY <2>3, <2>4, <2>5 DEF RegistryAgrees
<1>6. ASSUME NEW r \in Refreshers, RefreshApply(r)
      PROVE RegistryAgrees'
    <2>1. CASE ~Current(refresh[r])
        BY <1>1, <1>6, <2>1 DEF RefreshApply
    <2>2. CASE Current(refresh[r])
        <3>1. /\ refresh[r].server \in Servers /\ refresh[r].listVersion \in Versions
              /\ refresh[r].session # 0
            BY <1>6 DEF RefreshApply, InProgress
        <3>2. PICK s, offered, owned : /\ s = refresh[r].server
                                       /\ offered = Offers(s, refresh[r].listVersion)
                                       /\ owned = Without({s})
            OBVIOUS
        <3>3. PICK tools : tools = Registered(s, offered, owned)
            OBVIOUS
        <3>4. /\ Register(s, offered, owned)
              /\ ups' = [ups EXCEPT ![s] = [ups[s] EXCEPT
                    !.tools = tools, !.listVersion = refresh[r].listVersion]]
            BY <1>6, <2>2, <3>2, <3>3 DEF RefreshApply
        <3>5. ups[s].state = "connected"
            BY <2>2, <3>1, <3>2 DEF Current, Bookkeeping, RecordAt
        <3>6. /\ ups'[s].state = "connected" /\ ups'[s].tools = tools
              /\ \A t \in Servers : t # s => ups'[t] = ups[t]
            BY <3>1, <3>2, <3>4, <3>5 DEF PoolTypes, Upstream
        <3>7. offered \in SUBSET Names
            BY <3>1, <3>2, ListsAreNames
        <3>8. PICK base : base = {}
            OBVIOUS
        <3>9. /\ \A p \in Names : owned[p] = s <=> p \in base
              /\ \A t \in Servers, p \in Names : t # s => (owned[p] = t <=> p \in ups[t].tools)
            <4>1. {s} \in SUBSET Servers
                BY <3>1, <3>2
            <4>. QED
                BY <3>2, <3>8, <4>1, WithoutFreed
        <3>10. base \in SUBSET Names /\ ups'[s].tools = base \union Registered(s, offered, owned)
            BY <3>3, <3>6, <3>8
        <3>11. RegistersFor(s, offered, owned, base)
            BY <3>4, <3>6, <3>9, <3>10 DEF RegistersFor
        <3>. QED
            BY <3>1, <3>2, <3>7, <3>10, <3>11, Registering
    <2>. QED
        BY <2>1, <2>2
<1>7. ASSUME NEW c \in Callers, CallFails(c)
      PROVE RegistryAgrees'
    <2>1. PICK s : s = calls[c].server /\ s \in Servers
        BY <1>7 DEF CallFails, InProgress
    <2>2. CASE ups[s].session # calls[c].session
        BY <1>1, <1>7, <2>1, <2>2 DEF CallFails
    <2>3. CASE ups[s].session = calls[c].session
        <3>1. /\ ups' = [ups EXCEPT ![s] = [Detached(s) EXCEPT !.state = "failed", !.due = FALSE]]
              /\ owner' = Without({s})
            BY <1>7, <2>1, <2>3 DEF CallFails
        <3>2. ups[s] \in Upstream /\ Detached(s) \in Upstream /\ {s} \in SUBSET Servers
            BY <2>1, PoolOperators DEF PoolTypes
        <3>3. Detached(s).tools = {}
            BY <3>2 DEF Detached, Upstream
        <3>4. ups'[s].tools = {} /\ \A t \in Servers : t # s => ups'[t] = ups[t]
            BY <2>1, <3>1, <3>2, <3>3 DEF PoolTypes, Upstream
        <3>. QED
            BY <3>1, <3>2, <3>4, TakenDown
    <2>. QED
        BY <2>2, <2>3
<1>8. CASE CloseTeardown
    <2>1. /\ owner' = Without(Servers) /\ Servers \in SUBSET Servers
          /\ \A s \in Servers : ups'[s].tools = {}
        BY <1>8 DEF CloseTeardown, NoUpstream
    <2>. QED
        BY <2>1, TakenDown
<1>9. ASSUME NEW job \in connects,
             Connect(job) \/ ListTools(job) \/ FinishStale(job) \/ NotifyFailed(job) \/ CloseDiscarded(job)
      PROVE RegistryAgrees'
    BY <1>1, <1>9 DEF Connect, ListTools, FinishStale, NotifyFailed, CloseDiscarded, poolVars
<1>10. ASSUME NEW g \in closing, CloseDetached(g)
       PROVE RegistryAgrees'
    BY <1>1, <1>10 DEF CloseDetached
<1>11. PoolUnchanged => RegistryAgrees'
    BY <1>1 DEF PoolUnchanged
<1>. QED
    BY <1>2, <1>3, <1>4, <1>5, <1>6, <1>7, <1>8, <1>9, <1>10, <1>11, QuietSteps
    DEF Next, Reconcile, Connecting, Refreshing, Calling, Close

-----------------------------------------------------------------------------
(* The invariant and what it gives.                                        *)

LEMMA InductiveInvariant == Spec => []IInv
<1>1. Init => IInv
    <2>1. Init => AfterClose
        BY DEF Init, AfterClose, closed
    <2>. QED
        BY <2>1, TypeInit, BookkeepingInit, RegistryInit DEF IInv
<1>2. IInv /\ [Next]_vars => IInv'
    <2>1. ASSUME IInv, [Next]_vars
          PROVE IInv'
        <3>1. PoolTypes' /\ InProgress'
            BY <2>1, TypeStep DEF IInv
        <3>2. AfterClose'
            BY <2>1, AfterCloseStep DEF IInv
        <3>3. Bookkeeping'
            BY <2>1, <3>1, BookkeepingStep DEF IInv
        <3>4. RegistryAgrees'
            BY <2>1, RegistryStep DEF IInv
        <3>. QED
            BY <3>1, <3>2, <3>3, <3>4 DEF IInv
    <2>. QED
        BY <2>1
<1>. QED
    BY <1>1, <1>2, PTL DEF Spec

\* Whatever connects, refreshes, failing calls and reconciliations come in
\* between, a published name belongs to the one upstream that lists it
\* (registerToolsLocked and detachLocked of mcpgateway/application/aggregator.go).
THEOREM NamesAgree == Spec => []RegistryAgrees
<1>1. IInv => RegistryAgrees
    BY DEF IInv
<1>. QED
    BY <1>1, InductiveInvariant, PTL

\* A connected upstream is served by a session opened for the configuration
\* in its record: finishConnect lets no outdated connect through, however long
\* it took and however often the server was edited meanwhile.
THEOREM ServedByItsConfig == Spec => []ServesItsConfig
<1>1. IInv => ServesItsConfig
    BY DEF IInv, Bookkeeping, RecordAt, ServesItsConfig
<1>. QED
    BY <1>1, InductiveInvariant, PTL

-----------------------------------------------------------------------------
(* Sessions leave service for a cause.                                     *)

\* syncOnce: a session in service stays unless what was listed speaks against
\* its record.
LEMMA ApplyForCause ==
    ASSUME PoolTypes, Bookkeeping, Apply, NEW s \in Servers
    PROVE LeavesForCause(s)
<1>1. CASE closed
    BY <1>1 DEF Apply, LeavesForCause
<1>2. CASE ~closed
    <2>1. ups'[s] = Synced(s) /\ genSeq'[s] = NextGen(s) /\ loop = "apply"
        BY <1>2 DEF Apply
    <2>2. SameRecord(s) \/ (Renewed(s) /\ (s \in TornDown \union TurnedOff \/ ups[s].session = 0))
        BY <2>1, SyncedRecord
    <2>3. s \in TornDown \union TurnedOff => listed[s] # [status |-> "enabled", print |-> ups[s].print]
        BY DEF TornDown, TurnedOff, Enabled, Disabled, Missing
    <2>. QED
        BY <2>1, <2>2, <2>3 DEF SameRecord, Renewed, LeavesForCause
<1>. QED
    BY <1>1, <1>2

\* A connect finds nothing in service where it puts its session.
LEMMA ConnectForCause ==
    ASSUME PoolTypes, Bookkeeping, NEW job \in connects, Connecting(job), NEW s \in Servers
    PROVE LeavesForCause(s)
<1>1. job.server \in Servers
    BY DEF PoolTypes, Job
<1>2. CASE FinishConnected(job)
    <2>1. job.step = "listed" /\ Wanted(job)
        BY <1>2 DEF FinishConnected
    <2>2. ups[job.server].session = 0
        BY <2>1, WantedIsVacant
    <2>3. s # job.server => ups'[s] = ups[s]
        BY <1>1, <1>2 DEF FinishConnected, PoolTypes
    <2>. QED
        BY <2>2, <2>3 DEF LeavesForCause
<1>3. CASE FinishFailed(job)
    <2>1. job.step = "failed" /\ Wanted(job)
        BY <1>3 DEF FinishFailed
    <2>2. ups[job.server].session = 0
        BY <2>1, WantedIsVacant
    <2>3. s # job.server => ups'[s] = ups[s]
        BY <1>1, <1>3 DEF FinishFailed, PoolTypes
    <2>. QED
        BY <2>2, <2>3 DEF LeavesForCause
<1>4. CASE Connect(job) \/ ListTools(job) \/ FinishStale(job) \/ NotifyFailed(job) \/ CloseDiscarded(job)
    <2>1. UNCHANGED ups
        BY <1>4 DEF Connect, ListTools, FinishStale, NotifyFailed, CloseDiscarded, poolVars
    <2>. QED
        BY <2>1 DEF LeavesForCause
<1>. QED
    BY <1>2, <1>3, <1>4 DEF Connecting

\* markFailed takes the session of the failed call, and no other.
LEMMA CallForCause ==
    ASSUME PoolTypes, InProgress, NEW c \in Callers, CallFails(c), NEW s \in Servers
    PROVE LeavesForCause(s)
<1>1. calls[c] \in Call /\ calls[c].step = "busy" /\ calls[c].server \in Servers
    BY DEF CallFails, InProgress, PoolTypes
<1>2. CASE ups[calls[c].server].session # calls[c].session
    BY <1>2 DEF CallFails, LeavesForCause
<1>3. CASE ups[calls[c].server].session = calls[c].session
    <2>1. PICK t : t = calls[c].server
        OBVIOUS
    <2>2. /\ ups' = [ups EXCEPT ![t] = [Detached(t) EXCEPT !.state = "failed", !.due = FALSE]]
          /\ calls' = [calls EXCEPT ![c].step = "notify"]
        BY <1>3, <2>1 DEF CallFails
    <2>3. s # t => ups'[s] = ups[s]
        BY <2>2 DEF PoolTypes
    <2>4. ups'[t].session = 0
        <3>1. Detached(t) \in Upstream
            BY <1>1, <2>1, PoolOperators
        <3>2. Detached(t).session = 0
            BY <1>1, <2>1 DEF Detached, PoolTypes, Upstream
        <3>. QED
            BY <1>1, <2>1, <2>2, <3>1, <3>2 DEF PoolTypes, Upstream
    <2>5. /\ calls[c] = [step |-> "busy", server |-> t, session |-> ups[t].session]
          /\ calls'[c].step = "notify"
        BY <1>1, <1>3, <2>1, <2>2 DEF PoolTypes, Call
    <2>. QED
        BY <2>3, <2>4, <2>5 DEF LeavesForCause
<1>. QED
    BY <1>2, <1>3

\* A session in service stays there until its configuration, Close or its own
\* failing call takes it out: no call that fails late on a session that was
\* replaced, and no late connect or refresh, touches the one in service
\* (markFailed and finishConnect of mcpgateway/application/aggregator.go).
THEOREM SessionsLeaveForCause == Spec => RetiredForCause
<1>1. ASSUME IInv, [Next]_vars, NEW s \in Servers
      PROVE LeavesForCause(s)
    <2>. USE <1>1 DEF IInv
    <2>1. CASE \/ \E t \in Servers, row \in Row \union {Deleted} : Edit(t, row)
               \/ Notify \/ TakeWakeup \/ TimerFires \/ LoopExits \/ List \/ Arm
               \/ \E t \in Servers : UpstreamChanges(t) \/ ToolsChanged(t)
               \/ \E r \in Refreshers : RefreshList(r)
               \/ \E c \in Callers : (\E t \in Servers : CallBegin(c, t)) \/ CallReturns(c) \/ CallNotifies(c)
               \/ CloseStop \/ CloseReturns \/ UNCHANGED vars
        BY <2>1, QuietSteps DEF PoolUnchanged, LeavesForCause
    <2>2. ASSUME NEW t \in Servers, BackoffEnds(t)
          PROVE LeavesForCause(s)
        BY <2>2, BackoffRecord DEF SameRecord, LeavesForCause
    <2>3. ASSUME NEW r \in Refreshers, RefreshApply(r)
          PROVE LeavesForCause(s)
        BY <2>3, RefreshedRecord DEF SameRecord, LeavesForCause
    <2>4. ASSUME NEW job \in connects, Connecting(job)
          PROVE LeavesForCause(s)
        BY <2>4, ConnectForCause
    <2>5. CASE Apply
        BY <2>5, ApplyForCause
    <2>6. ASSUME NEW g \in closing, CloseDetached(g)
          PROVE LeavesForCause(s)
        BY <2>6 DEF CloseDetached, LeavesForCause
    <2>7. ASSUME NEW c \in Callers, CallFails(c)
          PROVE LeavesForCause(s)
        BY <2>7, CallForCause
    <2>8. CASE CloseTeardown
        BY <2>8 DEF CloseTeardown, NoUpstream, LeavesForCause
    <2>. QED
        BY <2>1, <2>2, <2>3, <2>4, <2>5, <2>6, <2>7, <2>8
        DEF Next, Reconcile, Refreshing, Calling, Close
<1>2. IInv /\ [Next]_vars => [\A s \in Servers : LeavesForCause(s)]_vars
    BY <1>1
<1>. QED
    BY <1>2, InductiveInvariant, PTL DEF Spec, RetiredForCause

-----------------------------------------------------------------------------
(* The sessions implement SessionPool.                                     *)

\* The life of a session: the branches of Life exclude one another.
LifeOf(g) ==
    IF InService(g) THEN "serving"
    ELSE IF g \in closing THEN "retired"
    ELSE IF g \in open THEN "open"
    ELSE IF WasOpened(g) THEN "closed" ELSE "new"

\* A session of the pool, and what is known of it when it is closing.
LEMMA PoolSession ==
    ASSUME PoolTypes, Bookkeeping, NEW g \in Servers \X Nat
    PROVE /\ g[1] \in Servers /\ g[2] \in Nat /\ g = <<g[1], g[2]>>
          /\ WasOpened(g) => g[2] # 0
          /\ g \in open \union closing => WasOpened(g)
          /\ g \in closing => ~InService(g)
<1>1. g[1] \in Servers /\ g[2] \in Nat /\ g = <<g[1], g[2]>>
    OBVIOUS
<1>2. WasOpened(g) => g[2] # 0
    <2>1. WasOpened(<<g[1], g[2]>>) => g[2] \in 1 .. genSeq[g[1]]
        BY <1>1, OpenedSession
    <2>. QED
        BY <1>1, <2>1
<1>3. g \in open \union closing => WasOpened(g)
    BY DEF Bookkeeping, History
<1>4. g \in closing => ~InService(g)
    <2>1. RecordAt(g[1])
        BY <1>1 DEF Bookkeeping
    <2>. QED
        BY <1>1, <1>2, <1>3, <2>1 DEF RecordAt, InService
<1>. QED
    BY <1>1, <1>2, <1>3, <1>4

LEMMA GenerationsArePositive ==
    \A g \in Servers \X Generations : g \in Servers \X Nat /\ g[2] # 0
BY PoolConstants

LEMMA LifeIs ==
    /\ Life = [g \in Servers \X Generations |-> LifeOf(g)]
    /\ Life' = [g \in Servers \X Generations |-> LifeOf(g)']
<1>1. ASSUME NEW g \in Servers \X Generations
      PROVE (CASE InService(g) -> "serving"
               [] ~InService(g) /\ g \in closing -> "retired"
               [] ~InService(g) /\ g \in open \ closing -> "open"
               [] OTHER -> IF \E o \in opened : g = <<o[1], o[2]>> THEN "closed" ELSE "new")
            = LifeOf(g)
    BY DEF LifeOf, WasOpened, InService
<1>2. ASSUME NEW g \in Servers \X Generations
      PROVE (CASE InService(g)' -> "serving"
               [] ~InService(g)' /\ g \in closing' -> "retired"
               [] ~InService(g)' /\ g \in open' \ closing' -> "open"
               [] OTHER -> IF \E o \in opened' : g = <<o[1], o[2]>> THEN "closed" ELSE "new")
            = LifeOf(g)'
    BY DEF LifeOf, WasOpened, InService
<1>3. Life = [g \in Servers \X Generations |-> LifeOf(g)]
    BY <1>1 DEF Life
<1>4. Life' = [g \in Servers \X Generations |-> LifeOf(g)']
    BY <1>2 DEF Life
<1>. QED
    BY <1>3, <1>4

PoolStep == [Pool!Next]_(Pool!vars)
SameShut == (closer' = "returned") <=> (closer = "returned")

LEMMA PoolStays ==
    ASSUME SameShut,
           \A g \in Servers \X Generations : LifeOf(g)' = LifeOf(g)
    PROVE PoolStep
<1>1. Life' = Life
    BY LifeIs
<1>. QED
    BY <1>1 DEF PoolStep, Pool!vars, SameShut

LEMMA PoolMoves ==
    ASSUME SameShut, NEW g \in Servers \X Generations,
           \A h \in Servers \X Generations : h # g => LifeOf(h)' = LifeOf(h),
           \/ LifeOf(g) = "new" /\ LifeOf(g)' = "open" /\ closer # "returned"
           \/ /\ LifeOf(g) = "open" /\ LifeOf(g)' = "serving"
              /\ \A h \in Servers \X Generations : h[1] = g[1] => LifeOf(h) # "serving"
           \/ LifeOf(g) \in {"open", "retired"} /\ LifeOf(g)' = "closed"
    PROVE PoolStep
<1>1. Life' = [Life EXCEPT ![g] = LifeOf(g)'] /\ \A h \in Servers \X Generations : Life[h] = LifeOf(h)
    BY LifeIs
<1>2. (closer' = "returned") = (closer = "returned")
    BY DEF SameShut
<1>3. CASE LifeOf(g) = "new" /\ LifeOf(g)' = "open" /\ closer # "returned"
    <2>1. Pool!Open(g)
        BY <1>1, <1>2, <1>3 DEF Pool!Open
    <2>. QED
        BY <2>1 DEF PoolStep, Pool!Next
<1>4. CASE /\ LifeOf(g) = "open" /\ LifeOf(g)' = "serving"
           /\ \A h \in Servers \X Generations : h[1] = g[1] => LifeOf(h) # "serving"
    <2>1. Pool!Serve(g)
        BY <1>1, <1>2, <1>4 DEF Pool!Serve
    <2>. QED
        BY <2>1 DEF PoolStep, Pool!Next
<1>5. CASE LifeOf(g) \in {"open", "retired"} /\ LifeOf(g)' = "closed"
    <2>1. Pool!Close(g)
        BY <1>1, <1>2, <1>5 DEF Pool!Close
    <2>. QED
        BY <2>1 DEF PoolStep, Pool!Next
<1>. QED
    BY <1>3, <1>4, <1>5

LEMMA PoolRetires ==
    ASSUME SameShut,
           \A g \in Servers \X Generations :
              \/ LifeOf(g)' = LifeOf(g)
              \/ LifeOf(g) = "serving" /\ LifeOf(g)' = "retired"
    PROVE PoolStep
<1>1. PICK gs : gs = {g \in Servers \X Generations : LifeOf(g) = "serving" /\ LifeOf(g)' = "retired"}
    OBVIOUS
<1>2. Life' = [g \in Servers \X Generations |-> IF g \in gs THEN "retired" ELSE Life[g]]
    BY <1>1, LifeIs
<1>3. gs \in SUBSET {g \in Servers \X Generations : Life[g] = "serving"}
    BY <1>1, LifeIs
<1>4. Pool!Retire(gs)
    BY <1>2 DEF Pool!Retire, SameShut
<1>. QED
    BY <1>3, <1>4 DEF PoolStep, Pool!Next

\* A step that neither opens, closes nor hands over a session.
LEMMA SessionsStay ==
    ASSUME PoolTypes, SameShut, UNCHANGED <<open, closing, opened>>,
           \A s \in Servers : ups'[s].session = ups[s].session
    PROVE PoolStep
<1>1. ASSUME NEW g \in Servers \X Generations
      PROVE LifeOf(g)' = LifeOf(g)
    <2>1. InService(g)' = InService(g)
        BY DEF InService
    <2>. QED
        BY <2>1 DEF LifeOf, WasOpened
<1>. QED
    BY <1>1, PoolStays

\* Records taken out of service, their sessions on the way to be closed.
LEMMA SessionsRetire ==
    ASSUME PoolTypes, SameShut, NEW gone \in SUBSET Servers,
           closing' = closing \union SessionsOf(gone),
           UNCHANGED <<open, opened>>,
           \A s \in gone : ups'[s].session = 0,
           \A s \in Servers \ gone : ups'[s].session = ups[s].session
    PROVE PoolStep
<1>1. ASSUME NEW g \in Servers \X Generations
      PROVE \/ LifeOf(g)' = LifeOf(g)
            \/ LifeOf(g) = "serving" /\ LifeOf(g)' = "retired"
    <2>1. g[1] \in Servers /\ g = <<g[1], g[2]>> /\ g[2] # 0
        BY GenerationsArePositive
    <2>2. g \in SessionsOf(gone) <=> g[1] \in gone /\ ups[g[1]].session = g[2]
        BY <2>1 DEF SessionsOf
    <2>3. WasOpened(g)' = WasOpened(g)
        BY DEF WasOpened
    <2>4. CASE g[1] \in gone /\ ups[g[1]].session = g[2]
        <3>1. LifeOf(g) = "serving"
            BY <2>4 DEF LifeOf, InService
        <3>2. ~InService(g)' /\ g \in closing'
            BY <2>1, <2>2, <2>4 DEF InService
        <3>. QED
            BY <3>1, <3>2 DEF LifeOf
    <2>5. CASE ~(g[1] \in gone /\ ups[g[1]].session = g[2])
        <3>1. InService(g)' = InService(g)
            BY <2>1, <2>5 DEF InService
        <3>2. g \in closing' <=> g \in closing
            BY <2>2, <2>5
        <3>. QED
            BY <2>3, <3>1, <3>2 DEF LifeOf
    <2>. QED
        BY <2>4, <2>5
<1>. QED
    BY <1>1, PoolRetires

\* A connect opens its session, hands it over, or closes it.
LEMMA ConnectSessions ==
    ASSUME PoolTypes, InProgress, AfterClose, Bookkeeping, NEW job \in connects, Connecting(job)
    PROVE PoolStep
<1>1. /\ job.server \in Servers /\ job.session \in Nat /\ job.session # 0
      /\ ConnectAt(job) /\ Session(job) = <<job.server, job.session>>
    <2>1. job \in Job /\ ConnectAt(job)
        BY DEF PoolTypes, Bookkeeping
    <2>2. job.server \in Servers /\ job.session \in 1 .. genSeq[job.server]
        BY <2>1 DEF Job, ConnectAt
    <2>. QED
        BY <2>1, <2>2 DEF Session
<1>2. SameShut /\ closer # "returned" /\ closing' = closing
    BY DEF AfterClose, SameShut, Connecting, Connect, ListTools, FinishConnected, FinishFailed,
           FinishStale, NotifyFailed, CloseDiscarded, worldVars, poolVars
<1>3. PICK g : g = Session(job)
    OBVIOUS
<1>4. g \in Servers \X Nat /\ g[1] = job.server /\ g[2] = job.session
    BY <1>1, <1>3
<1>5. \A h \in Servers \X Generations : h \in Servers \X Nat /\ h[2] # 0
    BY GenerationsArePositive
<1>6. ASSUME UNCHANGED <<open, opened>>, \A s \in Servers : ups'[s].session = ups[s].session
      PROVE PoolStep
    BY <1>2, <1>6, SessionsStay
<1>7. ASSUME UNCHANGED ups, \A h : h # g => (h \in open' <=> h \in open),
             \A h \in Servers \X Nat : h # g => (WasOpened(h)' <=> WasOpened(h)),
             \/ LifeOf(g) = "new" /\ LifeOf(g)' = "open"
             \/ LifeOf(g) = "open" /\ LifeOf(g)' = "closed"
      PROVE PoolStep
    <2>1. ASSUME NEW h \in Servers \X Generations, h # g
          PROVE LifeOf(h)' = LifeOf(h)
        BY <1>2, <1>5, <1>7, <2>1 DEF LifeOf, InService
    <2>2. CASE g \in Servers \X Generations
        BY <1>2, <1>7, <2>1, <2>2, PoolMoves
    <2>3. CASE g \notin Servers \X Generations
        BY <1>2, <2>1, <2>3, PoolStays
    <2>. QED
        BY <2>2, <2>3
<1>8. CASE Connect(job)
    <2>1. CASE UNCHANGED <<open, opened>>
        BY <1>6, <1>8, <2>1 DEF Connect
    <2>2. CASE /\ open' = open \union {Session(job)}
               /\ opened' = opened \union {<<job.server, job.session, job.print>>}
        <3>1. UNCHANGED ups /\ job.step = "dial"
            BY <1>8 DEF Connect
        <3>2. LifeOf(g) = "new"
            <4>1. g \notin open
                BY <1>3, <3>1, HoldsNothing DEF HoldsSession
            <4>2. g \notin closing /\ ~InService(g) /\ ~WasOpened(g)
                BY <1>1, <1>3, <1>4, <3>1 DEF ConnectAt, InService
            <4>. QED
                BY <4>1, <4>2 DEF LifeOf
        <3>3. LifeOf(g)' = "open"
            <4>1. g \notin closing' /\ g \in open' /\ ~InService(g)'
                BY <1>1, <1>2, <1>3, <1>4, <2>2, <3>1 DEF ConnectAt, InService
            <4>. QED
                BY <4>1 DEF LifeOf
        <3>4. ASSUME NEW h \in Servers \X Nat, h # g
              PROVE WasOpened(h)' <=> WasOpened(h)
            <4>1. ASSUME NEW o \in opened', h = <<o[1], o[2]>>
                  PROVE o \in opened
                <5>1. o = <<job.server, job.session, job.print>> => <<o[1], o[2]>> = g
                    BY <1>1, <1>3
                <5>. QED
                    BY <2>2, <3>4, <4>1, <5>1
            <4>. QED
                BY <2>2, <4>1 DEF WasOpened
        <3>. QED
            BY <1>3, <1>7, <2>2, <3>1, <3>2, <3>3, <3>4
    <2>. QED
        BY <1>8, <2>1, <2>2 DEF Connect
<1>9. ASSUME UNCHANGED <<ups, opened>>, open' = open \ {Session(job)}, HoldsSession(job)
      PROVE PoolStep
    <2>1. g \in open /\ g \notin closing /\ ~InService(g)
        BY <1>1, <1>3, <1>4, <1>9 DEF ConnectAt, InService
    <2>2. LifeOf(g) = "open"
        BY <2>1 DEF LifeOf
    <2>3. WasOpened(g)
        BY <1>4, <2>1, PoolSession
    <2>4. LifeOf(g)' = "closed"
        <3>1. g \notin open' /\ g \notin closing' /\ ~InService(g)' /\ WasOpened(g)'
            BY <1>2, <1>3, <1>9, <2>1, <2>3 DEF InService, WasOpened
        <3>. QED
            BY <3>1 DEF LifeOf
    <2>5. \A h \in Servers \X Nat : h # g => (WasOpened(h)' <=> WasOpened(h))
        BY <1>9 DEF WasOpened
    <2>. QED
        BY <1>3, <1>7, <1>9, <2>2, <2>4, <2>5
<1>10. CASE ListTools(job)
    BY <1>6, <1>9, <1>10 DEF ListTools, HoldsSession
<1>11. CASE CloseDiscarded(job)
    BY <1>9, <1>11 DEF CloseDiscarded, HoldsSession
<1>12. CASE FinishConnected(job)
    <2>1. /\ job.step = "listed" /\ Wanted(job)
          /\ UNCHANGED <<open, closing, opened>>
        BY <1>12 DEF FinishConnected
    <2>2. ups[job.server].session = 0
        BY <2>1, WantedIsVacant
    <2>3. PICK s, tools : /\ s = job.server
                          /\ tools = ups[s].tools \union Registered(s, Offers(s, job.listVersion), owner)
        OBVIOUS
    <2>4. ups' = [ups EXCEPT ![s] = [ups[s] EXCEPT
                !.state = "connected", !.session = job.session,
                !.tools = tools, !.listVersion = job.listVersion]]
        BY <1>12, <2>3 DEF FinishConnected
    <2>5. /\ ups'[job.server].session = job.session
          /\ \A t \in Servers : t # job.server => ups'[t].session = ups[t].session
        BY <1>1, <2>3, <2>4 DEF PoolTypes, Upstream
    <2>6. \A h : WasOpened(h)' = WasOpened(h)
        BY <2>1 DEF WasOpened
    <2>7. ASSUME NEW h \in Servers \X Generations, h # g
          PROVE LifeOf(h)' = LifeOf(h)
        <3>1. h[1] \in Servers /\ h = <<h[1], h[2]>> /\ h[2] # 0
            BY <1>5
        <3>2. InService(h)' = InService(h)
            BY <1>1, <1>3, <2>2, <2>5, <2>7, <3>1 DEF InService
        <3>. QED
            BY <2>1, <2>6, <3>2 DEF LifeOf
    <2>8. LifeOf(g) = "open"
        BY <1>1, <1>3, <1>4, <2>1 DEF ConnectAt, LifeOf, InService, HoldsSession
    <2>9. LifeOf(g)' = "serving"
        BY <1>4, <2>5 DEF LifeOf, InService
    <2>10. \A h \in Servers \X Generations : h[1] = g[1] => LifeOf(h) # "serving"
        BY <1>4, <1>5, <2>2 DEF LifeOf, InService
    <2>11. CASE g \in Servers \X Generations
        BY <1>2, <2>7, <2>8, <2>9, <2>10, <2>11, PoolMoves
    <2>12. CASE g \notin Servers \X Generations
        BY <1>2, <2>7, <2>12, PoolStays
    <2>. QED
        BY <2>11, <2>12
<1>13. CASE FinishFailed(job)
    <2>1. /\ ups' = [ups EXCEPT ![job.server] = [ups[job.server] EXCEPT !.state = "failed", !.due = FALSE]]
          /\ UNCHANGED <<open, opened>>
        BY <1>13 DEF FinishFailed
    <2>2. \A s \in Servers : ups'[s].session = ups[s].session
        BY <1>1, <2>1 DEF PoolTypes, Upstream
    <2>. QED
        BY <1>6, <2>1, <2>2
<1>14. CASE FinishStale(job) \/ NotifyFailed(job)
    BY <1>6, <1>14 DEF FinishStale, NotifyFailed, poolVars
<1>. QED
    BY <1>8, <1>10, <1>11, <1>12, <1>13, <1>14 DEF Connecting

\* A session on its way is closed.
LEMMA DetachedCloses ==
    ASSUME PoolTypes, Bookkeeping, NEW g \in closing, CloseDetached(g)
    PROVE PoolStep
<1>1. /\ closing' = closing \ {g} /\ open' = open \ {g}
      /\ UNCHANGED <<ups, opened, closer>>
    BY DEF CloseDetached
<1>2. g \in Servers \X Nat
    BY DEF PoolTypes
<1>3. WasOpened(g) /\ ~InService(g)
    BY <1>2, PoolSession
<1>4. LifeOf(g) = "retired"
    BY <1>3 DEF LifeOf
<1>5. LifeOf(g)' = "closed"
    BY <1>1, <1>3 DEF LifeOf, InService, WasOpened
<1>6. ASSUME NEW h \in Servers \X Generations, h # g
      PROVE LifeOf(h)' = LifeOf(h)
    BY <1>1, <1>6 DEF LifeOf, InService, WasOpened
<1>7. SameShut
    BY <1>1 DEF SameShut
<1>8. CASE g \in Servers \X Generations
    BY <1>4, <1>5, <1>6, <1>7, <1>8, PoolMoves
<1>9. CASE g \notin Servers \X Generations
    BY <1>6, <1>7, <1>9, PoolStays
<1>. QED
    BY <1>8, <1>9

\* syncOnce: records torn down or turned off lose their session, connects
\* that start have none yet.
LEMMA ApplyRetires ==
    ASSUME PoolTypes, Bookkeeping, Apply
    PROVE PoolStep
<1>1. SameShut /\ UNCHANGED <<open, opened>>
    BY DEF Apply, SameShut
<1>2. CASE closed
    BY <1>1, <1>2, SessionsStay DEF Apply
<1>3. CASE ~closed
    <2>1. PICK gone : gone = TornDown \union TurnedOff
        OBVIOUS
    <2>2. /\ ups' = [s \in Servers |-> Synced(s)]
          /\ genSeq' = [s \in Servers |-> NextGen(s)]
          /\ closing' = closing \union SessionsOf(gone)
        BY <1>3, <2>1 DEF Apply
    <2>3. gone \in SUBSET Servers
        BY <2>1 DEF TornDown, TurnedOff
    <2>4. ASSUME NEW s \in Servers
          PROVE /\ s \in gone => ups'[s].session = 0
                /\ s \notin gone => ups'[s].session = ups[s].session
        <3>1. ups'[s] = Synced(s) /\ genSeq'[s] = NextGen(s)
            BY <2>2
        <3>2. /\ s \in gone => Renewed(s)
              /\ SameRecord(s) \/ (Renewed(s) /\ (s \in gone \/ ups[s].session = 0))
            BY <2>1, <3>1, SyncedRecord
        <3>. QED
            BY <3>2 DEF SameRecord, Renewed
    <2>. QED
        BY <1>1, <2>2, <2>3, <2>4, SessionsRetire
<1>. QED
    BY <1>2, <1>3

LEMMA CallFailsRetires ==
    ASSUME PoolTypes, InProgress, NEW c \in Callers, CallFails(c)
    PROVE PoolStep
<1>1. calls[c].server \in Servers /\ UNCHANGED <<open, opened>> /\ SameShut
    BY DEF CallFails, InProgress, SameShut
<1>2. PICK s : s = calls[c].server
    OBVIOUS
<1>3. CASE ups[s].session # calls[c].session
    <2>1. UNCHANGED <<ups, closing>>
        BY <1>2, <1>3 DEF CallFails
    <2>. QED
        BY <1>1, <2>1, SessionsStay
<1>4. CASE ups[s].session = calls[c].session
    <2>1. /\ ups' = [ups EXCEPT ![s] = [Detached(s) EXCEPT !.state = "failed", !.due = FALSE]]
          /\ closing' = closing \union SessionsOf({s})
        BY <1>2, <1>4 DEF CallFails
    <2>2. ups[s] \in Upstream /\ Detached(s) \in Upstream
        BY <1>1, <1>2, PoolOperators DEF PoolTypes
    <2>3. Detached(s).session = 0
        BY <2>2 DEF Detached, Upstream
    <2>4. ups'[s].session = 0 /\ \A t \in Servers : t # s => ups'[t] = ups[t]
        BY <1>1, <1>2, <2>1, <2>2, <2>3 DEF PoolTypes, Upstream
    <2>5. PICK gone : gone = {s} /\ gone \in SUBSET Servers
        BY <1>1, <1>2
    <2>6. \A t \in gone : ups'[t].session = 0
        BY <2>4, <2>5
    <2>7. \A t \in Servers \ gone : ups'[t].session = ups[t].session
        BY <2>4, <2>5
    <2>. QED
        BY <1>1, <2>1, <2>5, <2>6, <2>7, SessionsRetire
<1>. QED
    BY <1>3, <1>4

\* wg.Wait returned: by then every session that was opened has been closed.
LEMMA ReturnedShuts ==
    ASSUME PoolTypes, AfterClose, Bookkeeping, CloseReturns
    PROVE PoolStep
<1>1. closed /\ UNCHANGED <<ups, open, closing, opened>>
    BY DEF CloseReturns, closed, poolVars
<1>2. \A s \in Servers : ups'[s].session = ups[s].session
    BY <1>1
<1>3. CASE closer' # "returned"
    <2>1. SameShut
        BY <1>3 DEF CloseReturns, SameShut
    <2>. QED
        BY <1>1, <1>2, <2>1, SessionsStay
<1>4. CASE closer' = "returned"
    <2>1. connects = {} /\ closing = {}
        BY <1>4 DEF CloseReturns, Idle
    <2>2. \A s \in Servers : ups[s].session = 0
        BY <1>1 DEF AfterClose, NoUpstream
    <2>3. ASSUME NEW g \in Servers \X Generations
          PROVE /\ LifeOf(g) \in {"new", "closed"}
                /\ LifeOf(g)' = LifeOf(g)
        <3>1. g \in Servers \X Nat /\ g[2] # 0 /\ g[1] \in Servers
            BY GenerationsArePositive
        <3>2. ~InService(g)
            BY <2>2, <3>1 DEF InService
        <3>3. g \notin open
            BY <2>1, <3>2 DEF Bookkeeping, Owned, InService
        <3>. QED
            BY <1>1, <2>1, <3>2, <3>3 DEF LifeOf, InService, WasOpened
    <2>4. Life' = Life /\ \A g \in Servers \X Generations : Life[g] \in {"new", "closed"}
        BY <2>3, LifeIs
    <2>5. (closer' = "returned") = TRUE
        BY <1>4
    <2>6. Pool!Shut
        BY <2>4, <2>5 DEF Pool!Shut
    <2>. QED
        BY <2>6 DEF PoolStep, Pool!Next
<1>. QED
    BY <1>3, <1>4

LEMMA StepsOfThePool ==
    ASSUME IInv, [Next]_vars
    PROVE PoolStep
<1>. USE DEF IInv
<1>1. CASE \/ \E s \in Servers, row \in Row \union {Deleted} : Edit(s, row)
           \/ Notify \/ TakeWakeup \/ TimerFires \/ LoopExits \/ List \/ Arm
           \/ \E s \in Servers : UpstreamChanges(s) \/ ToolsChanged(s)
           \/ \E r \in Refreshers : RefreshList(r)
           \/ \E c \in Callers : (\E s \in Servers : CallBegin(c, s)) \/ CallReturns(c) \/ CallNotifies(c)
           \/ UNCHANGED vars
    <2>1. UNCHANGED <<ups, open, closing, opened>>
        BY <1>1, QuietSteps DEF PoolUnchanged
    <2>2. closer' = closer
        BY <1>1 DEF Edit, Notify, TakeWakeup, TimerFires, LoopExits, List, Arm, UpstreamChanges,
              ToolsChanged, RefreshList, CallBegin, CallReturns, CallNotifies, vars
    <2>3. \A s \in Servers : ups'[s].session = ups[s].session
        BY <2>1
    <2>. QED
        BY <2>1, <2>2, <2>3, SessionsStay DEF SameShut
<1>2. ASSUME NEW s \in Servers, BackoffEnds(s)
      PROVE PoolStep
    BY <1>2, BackoffRecord, SessionsStay DEF SameRecord, SameShut
<1>3. ASSUME NEW r \in Refreshers, RefreshApply(r)
      PROVE PoolStep
    BY <1>3, RefreshedRecord, SessionsStay DEF SameRecord, SameShut
<1>4. ASSUME NEW job \in connects, Connecting(job)
      PROVE PoolStep
    BY <1>4, ConnectSessions
<1>5. CASE Apply
    BY <1>5, ApplyRetires
<1>6. ASSUME NEW g \in closing, CloseDetached(g)
      PROVE PoolStep
    BY <1>6, DetachedCloses
<1>7. ASSUME NEW c \in Callers, CallFails(c)
      PROVE PoolStep
    BY <1>7, CallFailsRetires
<1>8. CASE CloseStop
    <2>1. UNCHANGED <<ups, open, closing, opened>> /\ SameShut
        BY <1>8 DEF CloseStop, poolVars, SameShut
    <2>2. \A s \in Servers : ups'[s].session = ups[s].session
        BY <2>1
    <2>. QED
        BY <2>1, <2>2, SessionsStay
<1>9. CASE CloseTeardown
    <2>1. /\ closing' = closing \union SessionsOf(Servers)
          /\ UNCHANGED <<open, opened>> /\ SameShut
          /\ \A s \in Servers : ups'[s].session = 0
        BY <1>9 DEF CloseTeardown, SameShut, NoUpstream
    <2>2. PICK gone : gone = Servers /\ gone \in SUBSET Servers
        OBVIOUS
    <2>. QED
        BY <2>1, <2>2, SessionsRetire
<1>10. CASE CloseReturns
    BY <1>10, ReturnedShuts
<1>. QED
    BY <1>1, <1>2, <1>3, <1>4, <1>5, <1>6, <1>7, <1>8, <1>9, <1>10
    DEF Next, Reconcile, Refreshing, Calling, Close

\* The sessions of the aggregator live as SessionPool says: opened only before
\* Close has returned, one in service for each server, closed when out of
\* service and never again in use, and none left open when Close returns.
THEOREM SessionsImplementPool == Spec => ImplementsSessionPool
<1>1. Init => Pool!Init
    <2>1. ASSUME Init, NEW g \in Servers \X Generations
          PROVE LifeOf(g) = "new"
        BY <2>1, GenerationsArePositive DEF Init, LifeOf, InService, WasOpened, NoUpstream
    <2>2. ASSUME Init
          PROVE Life = [g \in Servers \X Generations |-> "new"] /\ (closer = "returned") = FALSE
        BY <2>1, <2>2, LifeIs DEF Init
    <2>. QED
        BY <2>2 DEF Pool!Init
<1>2. IInv /\ [Next]_vars => [Pool!Next]_(Pool!vars)
    BY StepsOfThePool DEF PoolStep
<1>. QED
    BY <1>1, <1>2, InductiveInvariant, PTL DEF Spec, ImplementsSessionPool, Pool!Spec
============================================================================
