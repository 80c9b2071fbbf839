-------------------------- MODULE MCMcpAggregator --------------------------
(* McpAggregator on small instances: two upstreams that offer the same name *)
(* p, the second only with the newest version of its list.                  *)
EXTENDS McpAggregator

CONSTANTS s1, s2, p, q, r

Lists(s, v) ==
    IF s = s1 THEN IF v = 1 THEN {p} ELSE {p, q}
    ELSE IF v = MaxVersion THEN {p, r} ELSE {r}
=============================================================================
