--------------------------- MODULE MCAsyncWriter ---------------------------
(* AsyncWriter on a small instance: three records, one longer than the      *)
(* buffer, one that fills it, one that leaves room.                         *)
EXTENDS AsyncWriter, TLC

CONSTANTS short, exact, long

ThreeSizes == (short :> 1) @@ (exact :> 2) @@ (long :> 3)
=============================================================================
