----------------------------- MODULE MCObjects -----------------------------
(* One call in every scene, or any sequence of changes to and iterations   *)
(* over the list of names of one object.  Two index keys, so that their    *)
(* order shows, one name and one symbol in the scenes; in the list, a name *)
(* equal to the marker as well.                                            *)
EXTENDS ObjectCalls, PropNames

MCIdxs == <<"0", "1">>
MCNames == {1, 2, Marker}
SwapIters == Permutations(Iters)

Init == CallsInit /\ NamesInit

Next ==
    \/ NamesInit /\ CallsNext /\ UNCHANGED namesVars
    \/ done = <<>> /\ NamesNext /\ UNCHANGED callsVars

Spec == Init /\ [][Next]_<<callsVars, namesVars>>
=============================================================================
