------------------------- MODULE MCBackgroundWorker -------------------------
(* BackgroundWorker on small instances. *)
EXTENDS BackgroundWorker
=============================================================================
