-------------------------- MODULE MCRoutingConfig --------------------------
(* RoutingConfig with two goroutines, two platforms and two profiles: one with *)
(* two providers, and one where the second has the name of the first, which is *)
(* gone, so that going back to the first profile is a name conflict.           *)
EXTENDS RoutingConfig, TLC

CONSTANTS p1, p2, on, off

Named(id, name, position) == [id |-> id, name |-> name, position |-> position,
                              archived |-> FALSE]

TwoPlatforms == <<p1, p2>>
Two == [default |-> 1, providers |-> <<Named(2, "b", 2), Named(1, "a", 1)>>]
One == [default |-> None,
        providers |-> <<[Named(2, "a", 0) EXCEPT !.archived = TRUE]>>]
MCSubmissions == {Two, One}
MCUploads == {[prefs |-> on, profiles |-> p1 :> Normalize(One) @@ p2 :> Normalize(Two)]}
MCLegacyFiles == {p1 :> Two @@ p2 :> Broken, p1 :> Missing @@ p2 :> Two}

Symmetry == Permutations(Callers)
=============================================================================
