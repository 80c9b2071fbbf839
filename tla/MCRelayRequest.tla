--------------------------- MODULE MCRelayRequest ---------------------------
(* RelayRequest with profiles of two providers: one that takes every model,   *)
(* as the default, incomplete or archived, and one with patterns that overlap, *)
(* that tie in length, that meet in the model asked for, or that are for the   *)
(* model a replacement puts into the body.                                     *)
EXTENDS RelayRequest, TLC

Open(name) == [name |-> name, archived |-> FALSE, complete |-> TRUE,
              supported |-> << >>, mapping |-> << >>, replacements |-> << >>]

\* Characters 1 and 2; "1*" and "*2" tie, "1*1" overlaps in "1".
Mapped == [Open("mapped") EXCEPT
    !.supported = (<<1, 2>> :> TRUE) @@ (<<2, Star>> :> FALSE),
    !.mapping = (<<1, Star>> :> <<2, Star>>) @@ (<<Star, 2>> :> <<1, 2>>)]
Overlapping == [Open("mapped") EXCEPT !.mapping = <<1, Star, 1>> :> <<Star, 2>>]

\* "1" becomes "21", this "2", and "2" is mapped; the provider does not list "2".
InTurn == [Open("mapped") EXCEPT
    !.supported = (<<1>> :> TRUE) @@ (<<1, 2>> :> TRUE),
    !.mapping = <<2>> :> <<1, 2>>,
    !.replacements = <<[match |-> {<<1>>}, value |-> <<2, 1>>],
                       [match |-> {<<2, 1>>}, value |-> <<2>>]>>]
\* Whatever is in the body becomes "21", which Mapped neither lists nor maps.
Unlisted == [Mapped EXCEPT !.replacements = <<[match |-> {}, value |-> <<2, 1>>]>>]

Profile(platform, default, second) ==
    [platform |-> platform, default |-> default, providers |-> <<Open("any"), second>>]

MCProfiles ==
    {Profile("codex", "any", Mapped), Profile("gemini", "mapped", Mapped),
     Profile("gemini", "mapped", Overlapping),
     Profile("claude", "mapped", [Mapped EXCEPT !.archived = TRUE]),
     Profile("codex", "none", [Mapped EXCEPT !.complete = FALSE]),
     Profile("claude", "mapped", InTurn), Profile("gemini", "mapped", InTurn),
     Profile("claude", "any", Unlisted)}
MCModels == {<< >>, <<1>>, <<1, 2>>, <<2>>, <<2, 1>>}
=============================================================================
