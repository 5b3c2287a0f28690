---------------------------- MODULE MCGenerators ----------------------------
(* Iteration: either two generators, an async function and the scripts     *)
(* that use them, or collections with what is iterated into and over them. *)
EXTENDS Generators, Collections

Nestings == {[script |-> 1, g1 |-> 2], [script |-> 0, g1 |-> 1, g2 |-> 0], [script |-> 0, g1 |-> 1, a1 |-> 1], [script |-> 0, a1 |-> 2]}

Making(kinds, calls, iterators) == [kinds |-> kinds, calls |-> calls, walks |-> iterators]
Makings == {Making(<<"Map">>, 1, 1), Making(<<"Set">>, 2, 0), Making(<<"WeakSet", "WeakMap">>, 1, 0), Making(<<"Set", "WeakSet">>, 1, 1)}
ArrayItems == {<<<<"o1">>, <<"prim">>>>, <<<<"o1", "v">>, <<"o1", "w">>>>}

Alone == [script |-> 0, a1 |-> 2]
Nothing == Making(<<>>, 0, 0)
MCInit ==
    /\ Init
    /\ \/ CollectionsInit /\ vm.cast = Alone
       \/ /\ cast = Nothing /\ colls = <<>> /\ weakRefs = <<>> /\ walks = <<>>
          /\ go = <<>> /\ last = <<>> /\ answer = <<>> /\ added = <<>>
InGenerators == cast = Nothing /\ Next /\ UNCHANGED collectionVars
InCollections == cast # Nothing /\ CollectionsNext /\ UNCHANGED vars
MCNext == InGenerators \/ InCollections
MCSpec == MCInit /\ [][MCNext]_<<vars, collectionVars>>
=============================================================================
