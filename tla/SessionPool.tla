---------------------------- MODULE SessionPool ----------------------------
(***************************************************************************)
(* What the MCP aggregator (mcpgateway/application/aggregator.go) promises *)
(* about the upstream sessions it opens, stdio processes among them: a     *)
(* server has at most one in service, each is closed in the end and stays  *)
(* closed, and none is left when the pool has shut.                        *)
(***************************************************************************)
CONSTANTS
    Sessions,      \* a session is <<server, generation>>
    ServerOf(_)

VARIABLES
    life,   \* "new", "open", "serving", "retired" or "closed"
    shut

vars == <<life, shut>>

Init ==
    /\ life = [g \in Sessions |-> "new"]
    /\ shut = FALSE

Open(g) ==
    /\ ~shut
    /\ life[g] = "new"
    /\ life' = [life EXCEPT ![g] = "open"]
    /\ UNCHANGED shut

\* The session is put in service, the only one of its server.
Serve(g) ==
    /\ life[g] = "open"
    /\ \A h \in Sessions : ServerOf(h) = ServerOf(g) => life[h] # "serving"
    /\ life' = [life EXCEPT ![g] = "serving"]
    /\ UNCHANGED shut

\* Sessions in service are taken out of it together.
Retire(gs) ==
    /\ life' = [g \in Sessions |-> IF g \in gs THEN "retired" ELSE life[g]]
    /\ UNCHANGED shut

\* A session that is not in service is closed.
Close(g) ==
    /\ life[g] \in {"open", "retired"}
    /\ life' = [life EXCEPT ![g] = "closed"]
    /\ UNCHANGED shut

Shut ==
    /\ \A g \in Sessions : life[g] \in {"new", "closed"}
    /\ shut' = TRUE
    /\ UNCHANGED life

Next ==
    \/ \E g \in Sessions : Open(g) \/ Serve(g) \/ Close(g)
    \/ \E gs \in SUBSET {g \in Sessions : life[g] = "serving"} : Retire(gs)
    \/ Shut

Spec == Init /\ [][Next]_vars
=============================================================================
