-------------------------- MODULE MCPlatformProxy --------------------------
(* PlatformProxy on a small instance.                                       *)
EXTENDS PlatformProxy, TLC

Symmetry == Permutations(Callers)
=============================================================================
