----------------------------- MODULE LogStream -----------------------------
(***************************************************************************)
(* What the asynchronous log writer (shared/logging/async_writer.go)       *)
(* promises about its file: it holds what was accepted, in order and       *)
(* without gaps, up to the first failure of the file; and a writer that is *)
(* closed without a failure has written everything.                        *)
(***************************************************************************)
EXTENDS Naturals, Sequences

CONSTANTS
    Records,
    Bytes(_)     \* what a record puts in the file

VARIABLES
    accepted,    \* everything accepted, in order
    file,        \* everything in the file
    broken,      \* the file has failed
    closed

vars == <<accepted, file, broken, closed>>

Init ==
    /\ accepted = <<>>
    /\ file = <<>>
    /\ broken = FALSE
    /\ closed = FALSE

Accept(r) ==
    /\ ~closed
    /\ accepted' = accepted \o Bytes(r)
    /\ UNCHANGED <<file, broken, closed>>

\* More of what was accepted reaches the file; the file may fail while it does.
Extend ==
    /\ ~broken /\ ~closed
    /\ \E n \in Len(file) .. Len(accepted) : file' = SubSeq(accepted, 1, n)
    /\ broken' \in BOOLEAN
    /\ UNCHANGED <<accepted, closed>>

Close ==
    /\ ~closed
    /\ broken \/ file = accepted
    /\ closed' = TRUE
    /\ UNCHANGED <<accepted, file, broken>>

Next == (\E r \in Records : Accept(r)) \/ Extend \/ Close

Spec == Init /\ [][Next]_vars
=============================================================================
