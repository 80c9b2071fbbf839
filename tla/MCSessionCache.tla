--------------------------- MODULE MCSessionCache ---------------------------
(* SessionCache on small instances. *)
EXTENDS SessionCache, TLC

Symmetry == Permutations(Requests) \union Permutations(Providers)
=============================================================================
