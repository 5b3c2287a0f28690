------------------------------ MODULE Collections ------------------------------
(***************************************************************************)
(* Map, Set, WeakMap and WeakSet objects, the iterators over them and the  *)
(* iteration protocol of Go code (runtime.go iteratorRecord, ForOf).       *)
(*                                                                         *)
(* A Map or Set is the sequence of all entries it ever had, as InsertionMap*)
(* says; the entries of the weak collections are stored on their keys.     *)
(* `go` holds the constructors, forEach and ForOf calls in progress,       *)
(* innermost last.  Code of the user runs between them - as `next` or      *)
(* `return` of a foreign iterator, as an adder of a subclass, as a         *)
(* callback - and calls whatever it can reach.                             *)
(***************************************************************************)
EXTENDS Integers, Sequences, SequencesExt, FiniteSetsExt

CONSTANTS
    Objects,        \* objects, that can be keys of weak collections
    Values,
    CollectionCasts, \* [kinds, calls, walks]: the kinds of the collections that are made, in order, bounds of calls in progress and iterators
    Arrays,         \* items of the standard arrays that are sources
    MaxEntries,     \* bounds: entries a Map or Set ever had,
    MaxItems        \* and items a foreign iterator gives

VARIABLES
    cast,
    colls,      \* [kind, entries, id, reached]; reached: code of the user has it
    weakRefs,   \* per object: its value per weak collection
    walks,      \* map and set iterators: [c, at, kind, nil, over]; over: it has said that it is done
    go,         \* calls in progress
    last,       \* <<>>, or the call that ended in this step and how
    answer,     \* <<>>, or what next of an iterator returned in this step: the iterator, whether it had said that it is done, the item
    added       \* what each weak collection should have

collectionVars == <<cast, colls, weakRefs, walks, go, last, answer, added>>

Undefined == "undefined"
Prim == "prim"      \* a key that is not an object
Keys == Objects \cup {Prim}
Weak(kind) == kind \in {"WeakMap", "WeakSet"}
Paired(kind) == kind \in {"Map", "WeakMap"}

\* A source gives a key, or an array of a key and a value.
Items == {<<k>> : k \in Keys} \cup {<<k, v>> : k \in Objects, v \in Values}

(***************************************************************************)
(* Entries.                                                                *)
(***************************************************************************)
Alive(entries) == {i \in DOMAIN entries : entries[i].live}
Having(entries, k) == {i \in Alive(entries) : entries[i].key = k}

\* [map.go orderedMap.set]
Set(entries, k, v) ==
    IF Having(entries, k) = {} THEN Append(entries, [key |-> k, value |-> v, live |-> TRUE])
    ELSE [i \in DOMAIN entries |-> IF i \in Having(entries, k) THEN [entries[i] EXCEPT !.value = v] ELSE entries[i]]
\* [map.go orderedMap.remove]
Removed(entries, k) == [i \in DOMAIN entries |-> [entries[i] EXCEPT !.live = @ /\ entries[i].key # k]]
\* [map.go orderedMap.clear]
Cleared(entries) == [i \in DOMAIN entries |-> [entries[i] EXCEPT !.live = FALSE]]
\* [map.go orderedMapIter.next] the entry behind `at`, 0 if there is none
Behind(entries, at) == LET later == {i \in Alive(entries) : i > at} IN IF later = {} THEN 0 ELSE Min(later)

Free == IF go = <<>> THEN TRUE ELSE Last(go).pc = "user"
Quiet == last' = <<>> /\ answer' = <<>>

(***************************************************************************)
(* Weak collections.                                                       *)
(***************************************************************************)
\* Mutant: weak maps and weak sets are numbered apart.
NumberPerKind(kind) == Cardinality({c \in DOMAIN colls : colls[c].kind = kind}) + 1

\* [builtin_weakmap.go weakMapObject.init] [builtin_weakset.go weakSetObject.init] weakMapSequence
Number(kind) == Cardinality({c \in DOMAIN colls : Weak(colls[c].kind)}) + 1

\* [builtin_weakmap.go weakMap.set]
Attach(refs, id, k, v) == [refs EXCEPT ![k] = [i \in DOMAIN @ \cup {id} |-> IF i = id THEN v ELSE refs[k][i]]]
\* [builtin_weakmap.go weakMap.remove]
Detach(refs, id, k) == [refs EXCEPT ![k] = Restrict(@, DOMAIN @ \ {id})]
\* [builtin_weakmap.go weakMap.has]
WeakHas(id, k) == id \in DOMAIN weakRefs[k]

(***************************************************************************)
(* Methods.                                                                *)
(***************************************************************************)
Answered(of, entries, ret) == [entries |-> entries, answer |-> <<of, ret>>]

\* [builtin_map.go mapProto_clear..mapProto_set] and get size
MapMethod(m, name, k, v) ==
    CASE name = "clear" -> Answered("value", Cleared(m), Undefined)
      [] name = "delete" -> Answered("bool", Removed(m, k), Having(m, k) # {})
      [] name = "get" -> Answered("value", m, IF Having(m, k) = {} THEN Undefined ELSE m[Min(Having(m, k))].value)
      [] name = "has" -> Answered("bool", m, Having(m, k) # {})
      [] name = "set" -> Answered("this", Set(m, k, v), 0)
      [] name = "size" -> Answered("size", m, Cardinality(Alive(m)))

\* [builtin_set.go setProto_add..setProto_delete] has and get size
SetMethod(m, name, k) ==
    CASE name = "add" -> Answered("this", Set(m, k, "nil"), 0)
      [] name = "clear" -> Answered("value", Cleared(m), Undefined)
      [] name = "delete" -> Answered("bool", Removed(m, k), Having(m, k) # {})
      [] name = "has" -> Answered("bool", m, Having(m, k) # {})
      [] name = "size" -> Answered("size", m, Cardinality(Alive(m)))

WeakReturns(refs, of, ret) == [refs |-> refs, answer |-> <<of, ret>>]

\* [builtin_weakmap.go weakMapProto_delete..weakMapProto_set] a key that is not an object is in no weak map, and cannot be set
WeakMapMethod(id, name, k, v) ==
    CASE name = "set" -> IF k \in Objects THEN WeakReturns(Attach(weakRefs, id, k, v), "this", 0) ELSE WeakReturns(weakRefs, "TypeError", 0)
      [] name = "get" -> WeakReturns(weakRefs, "value", IF k \in Objects /\ WeakHas(id, k) THEN weakRefs[k][id] ELSE Undefined)
      [] name = "has" -> WeakReturns(weakRefs, "bool", k \in Objects /\ WeakHas(id, k))
      [] name = "delete" -> WeakReturns(IF k \in Objects THEN Detach(weakRefs, id, k) ELSE weakRefs, "bool", k \in Objects /\ WeakHas(id, k))

\* [builtin_weakset.go weakSetProto_add..weakSetProto_has]
WeakSetMethod(id, name, k) ==
    CASE name = "add" -> IF k \in Objects THEN WeakReturns(Attach(weakRefs, id, k, "nil"), "this", 0) ELSE WeakReturns(weakRefs, "TypeError", 0)
      [] name = "delete" -> WeakReturns(IF k \in Objects THEN Detach(weakRefs, id, k) ELSE weakRefs, "bool", k \in Objects /\ WeakHas(id, k))
      [] name = "has" -> WeakReturns(weakRefs, "bool", k \in Objects /\ WeakHas(id, k))

Reached(kind) == {c \in DOMAIN colls : colls[c].kind = kind /\ colls[c].reached}
\* Bound: an entry can be added
HasRoom(c) == Len(colls[c].entries) < MaxEntries

CallEntries(c, r) ==
    /\ colls' = [colls EXCEPT ![c].entries = r.entries]
    /\ Quiet /\ UNCHANGED <<cast, weakRefs, walks, go, added>>
CallWeak(c, r, now) ==
    /\ weakRefs' = r.refs /\ Quiet
    /\ added' = [added EXCEPT ![c] = now]
    /\ UNCHANGED <<cast, colls, walks, go>>

CallMap ==
    /\ Free
    /\ \E c \in Reached("Map"), name \in {"clear", "delete", "set"}, k \in Keys, v \in Values :
         /\ name = "set" => HasRoom(c)
         /\ CallEntries(c, MapMethod(colls[c].entries, name, k, v))
CallSet ==
    /\ Free
    /\ \E c \in Reached("Set"), name \in {"add", "clear", "delete"}, k \in Keys :
         /\ name = "add" => HasRoom(c)
         /\ CallEntries(c, SetMethod(colls[c].entries, name, k))

\* What a weak collection has after a method, and what the method returns
Without(has, k) == {e \in has : e[1] # k}
AfterWeak(has, name, k, v) ==
    CASE name \in {"set", "add"} /\ k \in Objects -> Without(has, k) \cup {<<k, v>>}
      [] name = "delete" -> Without(has, k)
      [] OTHER -> has
CallWeakMap ==
    /\ Free
    /\ \E c \in Reached("WeakMap"), name \in {"set", "delete"}, k \in Keys, v \in Values :
         CallWeak(c, WeakMapMethod(colls[c].id, name, k, v), AfterWeak(added[c], name, k, v))
CallWeakSet ==
    /\ Free
    /\ \E c \in Reached("WeakSet"), name \in {"add", "delete"}, k \in Keys :
         CallWeak(c, WeakSetMethod(colls[c].id, name, k), AfterWeak(added[c], name, k, "nil"))

(***************************************************************************)
(* Iterators and export.                                                   *)
(***************************************************************************)
Walk(c, kind) == [c |-> c, at |-> 0, kind |-> kind, nil |-> FALSE, over |-> FALSE]

\* [builtin_map.go createMapIterator] and keys, values, entries
createMapIterator(c, kind) == Walk(c, kind)
\* [builtin_set.go createSetIterator]
createSetIterator(c, kind) == Walk(c, kind)

Iterates ==
    /\ Free /\ Len(walks) < cast.walks
    /\ \/ \E c \in Reached("Map"), kind \in {"key", "value", "both"} : walks' = Append(walks, createMapIterator(c, kind))
       \/ \E c \in Reached("Set"), kind \in {"value", "both"} : walks' = Append(walks, createSetIterator(c, kind))
    /\ Quiet /\ UNCHANGED <<cast, colls, weakRefs, go, added>>

\* What next of an iterator does: the iterator, and its item, or nothing when it is done
Done(w) == [walk |-> w, item |-> <<>>]

Advance(w, at, item) == [walk |-> [w EXCEPT !.at = at], item |-> item]

\* [builtin_map.go mapIterObject.next]
mapNext(w) ==
    LET at == Behind(colls[w.c].entries, w.at)
        e == colls[w.c].entries[at]
    IN CASE w.nil -> Done(w)
         [] ~w.nil /\ at = 0 -> Done([w EXCEPT !.nil = TRUE])
         [] OTHER -> Advance(w, at, CASE w.kind = "key" -> <<e.key>> [] w.kind = "value" -> <<e.value>> [] OTHER -> <<e.key, e.value>>)

\* [builtin_set.go setIterObject.next]
setNext(w) ==
    LET at == Behind(colls[w.c].entries, w.at)
        e == colls[w.c].entries[at]
    IN CASE w.nil -> Done(w)
         [] ~w.nil /\ at = 0 -> Done([w EXCEPT !.nil = TRUE])
         [] OTHER -> Advance(w, at, IF w.kind = "value" THEN <<e.key>> ELSE <<e.key, e.key>>)

Nexts(w) == IF colls[w.c].kind = "Map" THEN mapNext(w) ELSE setNext(w)
Said(r) == [r.walk EXCEPT !.over = @ \/ r.item = <<>>]

CallNext ==
    /\ Free
    /\ \E i \in DOMAIN walks :
         LET r == Nexts(walks[i])
         IN /\ walks' = [walks EXCEPT ![i] = Said(r)]
            /\ answer' = <<i, walks[i].over, r.item>>
    /\ last' = <<>> /\ UNCHANGED <<cast, colls, weakRefs, go, added>>

(***************************************************************************)
(* Calls that go through an iterator.                                      *)
(***************************************************************************)
\* A source: a standard array, a map or set iterator, a foreign iterator that may have a return method, or an object without a method
\* next.  `state` and `returns` tell what has been done to it.
Source(kind, items, walk, has) == [kind |-> kind, items |-> items, walk |-> walk, has |-> has, state |-> "open", returns |-> 0]

\* [runtime.go getIterator] of a Map or Set, and [runtime.go returnThis] of an iterator
Sources ==
    {Source("array", items, 0, FALSE) : items \in Arrays}
        \cup {Source("walk", <<>>, i, FALSE) : i \in DOMAIN walks}
        \cup {Source("foreign", <<>>, 0, has) : has \in BOOLEAN} \cup {Source("nonext", <<>>, 0, FALSE)}

Frame(op, c, own, src) ==
    [op |-> op, c |-> c, own |-> own, src |-> src, at |-> 0, pc |-> "native", in |-> "next", got |-> <<>>, failed |-> FALSE, how |-> "none"]

F == Last(go)
Native(in) == go # <<>> /\ F.pc = "native" /\ F.in = in
InUser(in) == go # <<>> /\ F.pc = "user" /\ F.in = in
Put(f) == go' = Append(Front(go), f) /\ Quiet
To(f, pc, in) == [f EXCEPT !.pc = pc, !.in = in]
Ends(f, how) == go' = Front(go) /\ last' = <<f, how>> /\ answer' = <<>>

\* Sets have no use for pairs, whose identity the model does not keep.
Fits(kind, item) == Paired(kind) \/ Len(item) = 1
IsObject(item) == Len(item) = 2 \/ item[1] \in Objects
Entry(kind, item) == IF ~Paired(kind) THEN <<item[1], "nil">> ELSE IF Len(item) = 2 THEN item ELSE <<Undefined, Undefined>>

Constructs(kind, own, src) ==
    LET c == Len(colls) + 1
    IN /\ colls' = Append(colls, [kind |-> kind, entries |-> <<>>, id |-> IF Weak(kind) THEN Number(kind) ELSE 0, reached |-> FALSE])
       /\ added' = Append(added, {})
       /\ go' = Append(go, Frame("construct", c, own, src))

\* [builtin_map.go builtin_newMap] the adder is set of Map.prototype, or a method of a subclass
NewMap(own, src) == Constructs("Map", own, src)
\* [builtin_set.go builtin_newSet] the elements of a standard array are read without its iterator
NewSet(own, src) == Constructs("Set", own, src)
\* [builtin_weakmap.go builtin_newWeakMap]
NewWeakMap(own, src) == Constructs("WeakMap", own, src)
\* [builtin_weakset.go builtin_newWeakSet]
NewWeakSet(own, src) == Constructs("WeakSet", own, src)

CanCall == Free /\ Len(go) < cast.calls
Fitting(kind) ==
    {src \in Sources : /\ \A i \in DOMAIN src.items : Fits(kind, src.items[i])
                       /\ src.kind = "walk" => Paired(kind) \/ walks[src.walk].kind # "both"}
New ==
    /\ CanCall /\ Len(colls) < Len(cast.kinds)
    /\ LET kind == cast.kinds[Len(colls) + 1]
       IN \E own \in BOOLEAN, src \in Fitting(kind) :
            \/ kind = "Map" /\ NewMap(own, src)
            \/ kind = "Set" /\ NewSet(own, src)
            \/ kind = "WeakMap" /\ NewWeakMap(own, src)
            \/ kind = "WeakSet" /\ NewWeakSet(own, src)
    /\ Quiet /\ UNCHANGED <<cast, weakRefs, walks>>

GoForOf ==
    /\ CanCall
    /\ \E src \in Sources : src.kind # "nonext" /\ go' = Append(go, Frame("forOf", 0, TRUE, src))
    /\ Quiet /\ UNCHANGED <<cast, colls, weakRefs, walks, added>>

\* The source has an item, or is exhausted.
Gives(f, item) == Put(To([f EXCEPT !.at = @ + 1, !.got = Append(IF f.own THEN <<>> ELSE @, item)], "native", "item"))
Exhausted(f) == Ends([f EXCEPT !.src.state = "ended"], "returned")
\* A constructor that returns gives its object to the user.
Reaching == colls' = IF F.op = "construct" /\ last' # <<>> /\ last'[2] = "returned" THEN [colls EXCEPT ![F.c].reached = TRUE] ELSE colls
\* Bound: the items a foreign iterator gives
More == F.at < MaxItems

\* A foreign iterator is asked: the call shows when it was closed or exhausted before.
Asks(f) == IF f.src.state = "open" THEN To(f, "user", "next") ELSE [To(f, "user", "next") EXCEPT !.src.state = "misused"]

\* [runtime.go iteratorRecord.iterate] [runtime.go iteratorRecord.step]
AsksSource ==
    /\ Native("next") /\ F.op # "forEach"
    /\ \/ F.src.kind = "foreign" /\ Put(Asks(F)) /\ UNCHANGED walks
       \/ F.src.kind = "nonext" /\ Ends(F, "threw") /\ UNCHANGED walks
       \/ /\ F.src.kind = "array" /\ UNCHANGED walks
          /\ IF F.at = Len(F.src.items) THEN Exhausted(F) ELSE Gives(F, F.src.items[F.at + 1])
       \/ /\ F.src.kind = "walk"
          /\ LET r == Nexts(walks[F.src.walk])
             IN /\ walks' = [walks EXCEPT ![F.src.walk] = Said(r)]
                /\ IF r.item = <<>> THEN Exhausted(F) ELSE Gives(F, r.item)
    /\ Reaching /\ UNCHANGED <<cast, weakRefs, added>>

\* [runtime.go iteratorComplete..iteratorValue] next throws or returns something that is not an object, an object that says that it is done, or one with an item
SourceAnswers ==
    /\ InUser("next")
    /\ \/ Ends([F EXCEPT !.src.state = "ended"], "threw")
       \/ Exhausted(F)
       \/ More /\ \E item \in Items : (F.op = "construct" => Fits(colls[F.c].kind, item)) /\ Gives(F, item)
    /\ Reaching /\ UNCHANGED <<cast, weakRefs, walks, added>>

\* Mutant: a step that fails leaves the source open.
ReturnNever(f, how) == Ends([f EXCEPT !.failed = TRUE], how)

\* [runtime.go iteratorRecord.returnIter..iteratorRecord.close]
returnIter(f, how) ==
    LET g == [f EXCEPT !.failed = TRUE, !.how = how]
    IN IF f.src.has
       THEN Put([To(g, "user", "return") EXCEPT !.src.returns = @ + 1, !.src.state = IF @ = "open" THEN "closed" ELSE "misused"])
       ELSE Ends(g, how)

Threw == returnIter(F, "threw")

\* The steps of the constructors with the adders of the prototypes, called without a look at the prototype again
Kind == colls[F.c].kind
Item == Last(F.got)
Key == Entry(Kind, Item)[1]
Value == Entry(Kind, Item)[2]
Rejects == CASE Kind = "Map" -> ~IsObject(Item)
             [] Kind = "Set" -> FALSE
             [] Kind = "WeakMap" -> ~IsObject(Item) \/ Key \notin Objects
             [] Kind = "WeakSet" -> Key \notin Objects

AddsItem ==
    /\ Native("item") /\ F.op = "construct" /\ ~F.own
    /\ \/ Rejects /\ Threw /\ UNCHANGED <<cast, colls, weakRefs, added>>
       \/ /\ ~Rejects /\ Put(To(F, "native", "next"))
          /\ IF Weak(Kind)
             THEN /\ weakRefs' = Attach(weakRefs, colls[F.c].id, Key, Value)
                  /\ added' = [added EXCEPT ![F.c] = Without(@, Key) \cup {<<Key, Value>>}] /\ UNCHANGED colls
             ELSE colls' = [colls EXCEPT ![F.c].entries = Set(@, Key, Value)] /\ UNCHANGED <<weakRefs, added>>
    /\ UNCHANGED <<cast, walks>>

\* The adder of a subclass has the new object as its receiver.
CallsAdder ==
    /\ Native("item") /\ F.op = "construct" /\ F.own
    /\ \/ Paired(Kind) /\ ~IsObject(Item) /\ Threw /\ UNCHANGED colls
       \/ (Paired(Kind) => IsObject(Item)) /\ Put(To(F, "user", "adder")) /\ colls' = [colls EXCEPT ![F.c].reached = TRUE]
    /\ UNCHANGED <<cast, weakRefs, walks, added>>

\* [runtime.go Runtime.ForOf] the step function continues, stops, or panics
StepsForOf == Native("item") /\ F.op = "forOf" /\ Put(To(F, "user", "step")) /\ UNCHANGED <<cast, colls, weakRefs, walks, added>>

StepReturns ==
    /\ InUser("adder") \/ InUser("step")
    /\ Put([To(F, "native", "next") EXCEPT !.got = IF F.own THEN <<>> ELSE @]) /\ UNCHANGED <<cast, colls, weakRefs, walks, added>>
StepThrows ==
    /\ InUser("adder") \/ InUser("step")
    /\ Threw /\ UNCHANGED <<cast, colls, weakRefs, walks, added>>
StepStops == InUser("step") /\ returnIter(F, "stopped") /\ UNCHANGED <<cast, colls, weakRefs, walks, added>>

\* What return throws is lost in a constructor, and replaces the result of ForOf.
SourceReturns ==
    /\ InUser("return")
    /\ \/ Ends(F, F.how)
       \/ Ends(F, "threw")
    /\ UNCHANGED <<cast, colls, weakRefs, walks, added>>

\* [builtin_map.go mapProto_forEach]
mapForEach(c) == Frame("forEach", c, TRUE, Source("map", <<>>, 0, FALSE))
\* [builtin_set.go setProto_forEach]
setForEach(c) == Frame("forEach", c, TRUE, Source("set", <<>>, 0, FALSE))
ForEach ==
    /\ CanCall
    /\ \/ \E c \in Reached("Map") : go' = Append(go, mapForEach(c))
       \/ \E c \in Reached("Set") : go' = Append(go, setForEach(c))
    /\ Quiet /\ UNCHANGED <<cast, colls, weakRefs, walks, added>>

Visits ==
    /\ Native("next") /\ F.op = "forEach"
    /\ LET at == Behind(colls[F.c].entries, F.at)
       IN IF at = 0 THEN Ends(F, "returned") ELSE Put(To([F EXCEPT !.at = at], "user", "callback"))
    /\ UNCHANGED <<cast, colls, weakRefs, walks, added>>
CallbackReturns == InUser("callback") /\ Put(To(F, "native", "next")) /\ UNCHANGED <<cast, colls, weakRefs, walks, added>>
CallbackThrows == InUser("callback") /\ Ends(F, "threw") /\ UNCHANGED <<cast, colls, weakRefs, walks, added>>

CollectionsInit ==
    /\ cast \in CollectionCasts /\ colls = <<>> /\ weakRefs = [o \in Objects |-> <<>>] /\ walks = <<>>
    /\ go = <<>> /\ last = <<>> /\ answer = <<>> /\ added = <<>>

CollectionsNext ==
    \/ CallMap \/ CallSet \/ CallWeakMap \/ CallWeakSet \/ Iterates \/ CallNext
    \/ New \/ GoForOf \/ AsksSource \/ SourceAnswers \/ AddsItem \/ CallsAdder \/ StepsForOf
    \/ StepReturns \/ StepThrows \/ StepStops \/ SourceReturns
    \/ ForEach \/ Visits \/ CallbackReturns \/ CallbackThrows

CollectionsSpec == CollectionsInit /\ [][CollectionsNext]_collectionVars

(***************************************************************************)
(* Properties.                                                             *)
(***************************************************************************)
Frames == ToSet(go) \cup (IF last = <<>> THEN {} ELSE {last[1]})

Taken(f) == IF f.failed \/ f.in = "item" THEN Front(f.got) ELSE f.got
Pairs(f) == LET kind == colls[f.c].kind IN [i \in DOMAIN Taken(f) |-> Entry(kind, Taken(f)[i])]
\* The entries are what the pairs make: every key, with the value that came last, in the order in which the keys came first.
MadeOf(entries, pairs) ==
    /\ \A i \in DOMAIN pairs : \E e \in Alive(entries) : entries[e].key = pairs[i][1]
    /\ \A e \in Alive(entries) : \E i \in DOMAIN pairs :
          /\ pairs[i][1] = entries[e].key /\ pairs[i][2] = entries[e].value
          /\ \A j \in DOMAIN pairs : i < j => pairs[j][1] # entries[e].key
    /\ \A d, e \in Alive(entries) : d < e => \E i \in DOMAIN pairs :
          pairs[i][1] = entries[d].key /\ \A j \in DOMAIN pairs : j <= i => pairs[j][1] # entries[e].key

\* A constructor or ForOf never asks its source again after it failed, said that it is done or was closed, and closes it exactly once, if
\* its step failed or stopped, and not otherwise; and a constructor whose adder is that of the prototype has put into the new
\* Map or Set what the source gave, in its order, before and after a failure (runtime.go iterate, step, returnIter).
SourcesConsumed ==
    /\ \A f \in Frames :
         /\ f.src.state # "misused"
         /\ f.op = "construct" /\ ~f.own /\ ~Weak(colls[f.c].kind) =>
               MadeOf(colls[f.c].entries, Pairs(f))
    /\ last # <<>> /\ last[1].src.kind = "foreign" =>
         LET f == last[1] IN f.src.returns = (IF f.failed /\ f.src.has THEN 1 ELSE 0) /\ (last[2] = "returned" => f.src.state = "ended" /\ ~f.failed)

\* What the methods of a weak collection find in it
Found(c) ==
    IF colls[c].kind = "WeakMap"
    THEN {<<o, WeakMapMethod(colls[c].id, "get", o, "").answer[2]>> : o \in {k \in Keys : WeakMapMethod(colls[c].id, "has", k, "").answer[2]}}
    ELSE {<<o, "nil">> : o \in {k \in Keys : WeakSetMethod(colls[c].id, "has", k).answer[2]}}

\* Weak collections that share keys, although all store their entries on the keys, do not see each other's entries, whoever made them and in
\* whatever order (builtin_weakmap.go weakMapSequence); and an iterator of a Map or Set that has said that it is done says so for ever, whatever
\* is added to the collection afterwards (builtin_map.go mapIterObject.next).
HandlesApart ==
    /\ \A c \in DOMAIN colls : Weak(colls[c].kind) => Found(c) = added[c]
    /\ answer # <<>> /\ answer[2] => answer[3] = <<>>
=============================================================================
