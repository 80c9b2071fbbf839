---------------------------- MODULE ModelRouting ----------------------------
(***************************************************************************)
(* Which provider serves a request, and under which model name             *)
(* (routing/domain: resolver.go and models.go).  A name or pattern is a     *)
(* sequence of characters, a character a number, Star the wildcard.  Go      *)
(* goes through a map in any order, so a search over one has that order as   *)
(* an argument.                                                             *)
(***************************************************************************)
EXTENDS Naturals, Sequences, SequencesExt, FiniteSetsExt

Star == 0
Panic == <<99>>     \* no name: the function panics

Wild(pattern) == Contains(pattern, Star)
Stars(pattern) == {i \in DOMAIN pattern : pattern[i] = Star}

\* The parts of a pattern around its star; patterns with more match nothing.
Before(pattern) == SubSeq(pattern, 1, Min(Stars(pattern)) - 1)
After(pattern) == SubSeq(pattern, Min(Stars(pattern)) + 1, Len(pattern))

MatchWildcard(pattern, text) ==
    IF ~Wild(pattern) THEN pattern = text
    ELSE /\ Len(SelectSeq(pattern, LAMBDA char : char = Star)) = 1
         /\ IsPrefix(Before(pattern), text)
         /\ IsSuffix(After(pattern), text)

\* What the star stood for takes the place of the replacement's first star.
\* Where prefix and suffix overlap in the input the slice is out of range.
ApplyWildcardMapping(pattern, replacement, input) ==
    IF ~Wild(pattern) \/ ~Wild(replacement) THEN replacement
    ELSE LET from == Len(Before(pattern)) + 1
             to == Len(input) - Len(After(pattern))
         IN  IF to < from - 1 THEN Panic
             ELSE Before(replacement) \o SubSeq(input, from, to) \o After(replacement)

Literals(pattern) == Len(pattern) - Cardinality(Stars(pattern))

Precedes(a, b) ==
    \/ Len(a) < Len(b) /\ IsPrefix(a, b)
    \/ \E i \in 1..Min({Len(a), Len(b)}) :
          a[i] < b[i] /\ SubSeq(a, 1, i - 1) = SubSeq(b, 1, i - 1)

\* Mutant of WildcardMoreSpecific: only the number of characters counts.
WildcardLonger(a, b) == Literals(a) > Literals(b)

WildcardMoreSpecific(a, b) ==
    Literals(a) > Literals(b) \/ (Literals(a) = Literals(b) /\ Precedes(a, b))

-----------------------------------------------------------------------------
(* A provider: [name, archived, complete, supported, mapping, replacements]. *)
(* supported and mapping are functions on patterns; complete is a URL and a   *)
(* key; a replacement is [match, value], match the value it is for, if any.   *)

IsModelSupported(p, model) ==
    \/ p.supported = << >> /\ p.mapping = << >>
    \/ \E pattern \in DOMAIN p.supported :
          p.supported[pattern] /\ (pattern = model \/ MatchWildcard(pattern, model))
    \/ \E pattern \in DOMAIN p.mapping : pattern = model \/ MatchWildcard(pattern, model)

\* The search for the pattern that applies, in the order of the map: the best
\* of the first i.  No pattern that matches here is empty.
Best(matching, order) ==
    LET best[i \in 0..Len(order)] ==
          IF i = 0 THEN << >>
          ELSE IF /\ order[i] \in matching
                  /\ best[i - 1] = << >> \/ WildcardMoreSpecific(order[i], best[i - 1])
               THEN order[i]
               ELSE best[i - 1]
    IN  best[Len(order)]

GetEffectiveModel(p, model, order) ==
    LET matching == {pattern \in DOMAIN p.mapping : MatchWildcard(pattern, model)}
        best == Best(matching, order)
    IN  IF model \in DOMAIN p.mapping THEN p.mapping[model]
        ELSE IF matching = {} THEN model
        ELSE ApplyWildcardMapping(best, p.mapping[best], model)

\* Provider.ValidateConfiguration finds nothing: a target without a wildcard
\* is a supported model.
ValidConfiguration(p) ==
    p.supported # << >> =>
        \A pattern \in DOMAIN p.mapping :
            LET target == p.mapping[pattern] IN
            ~Wild(target) =>
                \E s \in DOMAIN p.supported :
                    p.supported[s] /\ (s = target \/ MatchWildcard(s, target))

\* The provider of a name, or the default one, that may serve the model; or {}.
ResolveProvider(profile, name, model) ==
    {p \in Range(profile.providers) :
        /\ p.name = IF name = "" THEN profile.default ELSE name
        /\ ~p.archived
        /\ p.complete
        /\ model # << >> => IsModelSupported(p, model)}
=============================================================================
