--------------------------- MODULE MCSessionLock ----------------------------
(* SessionLock with a few callers, and the mutants of its actions. *)
EXTENDS SessionLock

=============================================================================
