------------------------------- MODULE Arrays -------------------------------
(***************************************************************************)
(* Array objects (array.go, array_sparse.go) and the methods of            *)
(* Array.prototype (builtin_array.go).  An array is dense, a Go slice with *)
(* spare capacity behind it, or sparse, a sorted list of items; writing    *)
(* far beyond the end makes it sparse, filling it up makes it dense again. *)
(* Most methods have a fast path on the slice, taken when checkStdArrayObj *)
(* finds the counters of the array in order, and a generic path.           *)
(***************************************************************************)
EXTENDS PropertyDesc, Integers, Sequences, FiniteSets, FiniteSetsExt, SequencesExt

CONSTANTS
    Values,        \* values of elements; "u" is undefined
    MaxLen,        \* bound: largest length
    MaxCount,      \* bound: largest objCount, which redefinitions make grow
    SwitchIdx,     \* 4096 in the code: no index up to it makes an array sparse
    SwitchRatio,   \* 10: a sparser array than this becomes sparse
    DenseMin,      \* 1024: fewer items never become dense
    DenseRatio,    \* 8: a denser array than this becomes dense
    ShrinkMin      \* 16: a shorter slice is never reallocated on truncation

ASSUME BoundsNat == {MaxLen, MaxCount, SwitchIdx, SwitchRatio, DenseMin, DenseRatio, ShrinkMin} \subseteq Nat

VARIABLES
    arr,     \* the array: rep, values, spare, items, length, objCount, propValueCount, lengthWritable, extensible
    proto    \* what its prototype chain holds at indices: a function from 0..MaxLen-1 to slots

vars == <<arr, proto>>

---------------------------------------------------------------------------
(* Representation. Indices are those of the language, from 0.              *)

Nils(n) == [k \in 1..n |-> Nil]
Upto(m, n) == [k \in 1..(n - m) |-> m + k - 1]              \* m, ..., n-1
Downto(m, n) == [k \in 1..(m - n) |-> m - k]                \* m-1, ..., n
Indices == 0..(MaxLen - 1)

\* [builtin_array.go newArray..setArrayValues] objCount is the number of values, holes included.
newArrayValues(vs) ==
    [rep |-> "dense", values |-> vs, spare |-> <<>>, items |-> <<>>, length |-> Len(vs),
     objCount |-> Len(vs), propValueCount |-> 0, lengthWritable |-> TRUE, extensible |-> TRUE]

Cap(a) == Len(a.values) + Len(a.spare)

\* [array_sparse.go findIdx] sort.Search among items in ascending order.
findIdx(a, i) == Cardinality({k \in DOMAIN a.items : a.items[k].idx < i}) + 1

HasItem(a, i) == findIdx(a, i) <= Len(a.items) /\ a.items[findIdx(a, i)].idx = i

\* [array_sparse.go _getIdx..getOwnPropIdx] and its dense twin in array.go
getOwnPropIdx(a, i) ==
    IF a.rep = "dense" THEN IF i < Len(a.values) THEN a.values[i + 1] ELSE Nil
    ELSE IF HasItem(a, i) THEN a.items[findIdx(a, i)].value ELSE Nil

\* [array.go getIdx..getOwnPropIdx] own slot, else the prototype's; "nil" is absence.
getIdx(a, i) ==
    LET own == getOwnPropIdx(a, i)
        p   == IF own = Nil /\ i \in Indices THEN proto[i] ELSE own
    IN IF p = Nil THEN "nil" ELSE p.v

nilSafe(v) == IF v = "nil" THEN "u" ELSE v

\* [array.go hasOwnPropertyStr..hasPropertyIdx]
hasPropertyIdx(a, i) == getOwnPropIdx(a, i) # Nil \/ (i \in Indices /\ proto[i] # Nil)

\* [runtime.go growCap] the doubling of slices shorter than 1024
growCap(newSize, oldCap) == IF newSize > 2 * oldCap THEN newSize ELSE 2 * oldCap

\* [array_sparse.go setValues]
setValues(values) ==
    LET at == SetToSortSeq({k \in DOMAIN values : values[k] # Nil}, <)
    IN [j \in DOMAIN at |-> [idx |-> at[j] - 1, value |-> values[at[j]]]]

\* [array.go expand] of a dense array: FALSE means that it has become sparse.
expand(a, i) ==
    LET n == i + 1
        grow == growCap(n, Cap(a))
        far  == i > SwitchIdx /\ (a.objCount = 0 \/ (a.objCount > 0 /\ i \div a.objCount > SwitchRatio))
    IN  IF n <= Len(a.values) THEN [ok |-> TRUE, a |-> a]
        ELSE IF n < Cap(a) THEN
            [ok |-> TRUE, a |-> [a EXCEPT !.values = @ \o SubSeq(a.spare, 1, n - Len(@)),
                                          !.spare = SubSeq(@, n - Len(a.values) + 1, Len(@))]]
        ELSE IF far THEN
            [ok |-> FALSE, a |-> [a EXCEPT !.rep = "sparse", !.items = setValues(a.values),
                                           !.values = <<>>, !.spare = <<>>, !.objCount = 0]]
        ELSE [ok |-> TRUE, a |-> [a EXCEPT !.values = @ \o Nils(n - Len(@)), !.spare = Nils(grow - n)]]

\* [array.go setValuesFromSparse]
setValuesFromSparse(items, maxIdx) ==
    [k \in 1..(maxIdx + 1) |->
        IF \E j \in DOMAIN items : items[j].idx = k - 1
        THEN items[CHOOSE j \in DOMAIN items : items[j].idx = k - 1].value ELSE Nil]

\* [array_sparse.go expand] of a sparse array: FALSE means that it has become dense.
expandSparse(a, i) ==
    LET n == Len(a.items)
        top == IF n > 0 /\ a.items[n].idx > i THEN a.items[n].idx ELSE i
    IN  IF n >= DenseMin /\ top \div DenseRatio < n
        THEN [ok |-> FALSE, a |-> [a EXCEPT !.rep = "dense", !.values = setValuesFromSparse(a.items, top),
                                            !.items = <<>>, !.objCount = n]]
        ELSE [ok |-> TRUE, a |-> a]

\* [array_sparse.go add]
addItem(a, i, p) == [a EXCEPT !.items = InsertAt(@, findIdx(a, i), [idx |-> i, value |-> p])]

---------------------------------------------------------------------------
(* Length.                                                                 *)

Result(a, ok) == [a |-> a, ok |-> ok]

IsProp(p) == p.t = "prop"

\* [array.go _setLengthInt] of a dense array
setLengthDense(a, l) ==
    LET fixed == {i \in l..(Len(a.values) - 1) : IsProp(a.values[i + 1]) /\ ~a.values[i + 1].c}
        stop  == l <= a.length /\ a.propValueCount > 0 /\ fixed # {}
        n     == IF stop THEN Max(fixed) + 1 ELSE l
        gone  == {i \in n..(Len(a.values) - 1) : IsProp(a.values[i + 1])}
        cut   == IF n >= ShrinkMin /\ n < Cap(a) \div 4
                 THEN [a EXCEPT !.values = SubSeq(@, 1, n), !.spare = <<>>]
                 ELSE [a EXCEPT !.values = SubSeq(@, 1, n), !.spare = Nils(Len(a.values) - n) \o @]
        b     == IF n <= Len(a.values) THEN cut ELSE a
        count == IF l <= a.length /\ a.propValueCount > 0 THEN Cardinality(gone) ELSE 0
    IN Result([b EXCEPT !.length = n, !.propValueCount = @ - count], ~stop)

\* [array_sparse.go _setLengthInt] of a sparse array: the walk down stops at items up to the new length.
setLengthSparse(a, l) ==
    LET scanned == {k \in DOMAIN a.items : a.items[k].idx > l}
        fixed == {k \in scanned : IsProp(a.items[k].value) /\ ~a.items[k].value.c}
        slow  == l <= a.length /\ a.propValueCount > 0
        stop  == slow /\ fixed # {}
        n     == IF stop THEN a.items[Max(fixed)].idx + 1 ELSE l
        count == Cardinality({k \in scanned : IsProp(a.items[k].value) /\ (stop => k > Max(fixed))})
    IN Result([a EXCEPT !.items = SubSeq(@, 1, findIdx(a, n) - 1), !.length = n,
                        !.propValueCount = IF slow THEN @ - count ELSE @], ~stop)

SetLengthInt(a, l) == IF a.rep = "dense" THEN setLengthDense(a, l) ELSE setLengthSparse(a, l)

\* [array.go setLength]
setLength(a, l) == IF a.lengthWritable THEN SetLengthInt(a, l) ELSE Result(a, FALSE)

\* [array.go setLengthInt]
setLengthInt(a, l) == IF l = a.length THEN Result(a, TRUE) ELSE setLength(a, l)

\* [array.go defineArrayLength], for descriptors with a value, a writable flag or both
defineArrayLength(a, hasValue, l, w) ==
    LET freeze(s) == IF w = NotSet THEN s
                     ELSE IF s.a.lengthWritable THEN Result([s.a EXCEPT !.lengthWritable = w = "T"], s.ok)
                     ELSE Result(s.a, s.ok /\ w = "F")
    IN freeze(IF ~hasValue \/ l = a.length THEN Result(a, TRUE) ELSE setLength(a, l))

---------------------------------------------------------------------------
(* Elements.                                                               *)

\* [object.go _setForeignIdx] an inherited read-only element refuses the assignment.
Foreign(i) == IF i \in Indices /\ proto[i] # Nil /\ ~isWritable(proto[i]) THEN "refused" ELSE "own"

\* The new element of _setOwnIdx in a dense array [array.go:218-240 _setOwnIdx], once the length covers it
putNew(a, i, v) ==
    LET x == expand(a, i)
    IN IF x.ok THEN [x.a EXCEPT !.values[i + 1] = Plain(v), !.objCount = @ + 1] ELSE addItem(x.a, i, Plain(v))

\* The new element of _setOwnIdx in a sparse array [array_sparse.go _setOwnIdx..setOwnIdx]
putNewSparse(a, i, v) ==
    LET x == expandSparse(a, i)
    IN IF x.ok THEN addItem(a, i, Plain(v)) ELSE [x.a EXCEPT !.values[i + 1] = Plain(v), !.objCount = @ + 1]

\* Store a slot over one that exists.
Overwrite(a, i, p) ==
    IF a.rep = "dense" THEN [a EXCEPT !.values[i + 1] = p] ELSE [a EXCEPT !.items[findIdx(a, i)].value = p]

\* A new element is first given room below the length.
WithRoom(a, i) == IF i >= a.length THEN setLengthInt(a, i + 1) ELSE Result(a, TRUE)

\* [array.go setOwnIdx..setOwnStr], both representations
setOwnIdx(a, i, v) ==
    LET p == getOwnPropIdx(a, i)
        put(l) == IF ~l.ok THEN Result(a, FALSE)
                  ELSE Result(IF a.rep = "dense" THEN putNew(l.a, i, v) ELSE putNewSparse(l.a, i, v), TRUE)
    IN  IF p = Nil THEN IF Foreign(i) = "refused" \/ ~a.extensible THEN Result(a, FALSE) ELSE put(WithRoom(a, i))
        ELSE IF ~IsProp(p) THEN Result(Overwrite(a, i, Plain(v)), TRUE)
        ELSE IF isWritable(p) THEN Result(Overwrite(a, i, [p EXCEPT !.v = v]), TRUE)
        ELSE Result(a, FALSE)

\* [array.go _defineIdxProperty] of a dense array: both counters grow whether or not the slot was there.
defineDense(a, i, p) ==
    LET x == expand(a, i)
    IN  IF x.ok THEN [x.a EXCEPT !.values[i + 1] = p, !.objCount = @ + 1,
                                 !.propValueCount = IF IsProp(p) THEN @ + 1 ELSE @]
        ELSE addItem(x.a, i, p)

\* [array_sparse.go _defineIdxProperty] of a sparse array: after a switch to dense it is the
\* counter of the abandoned sparse array that grows.
defineSparse(a, i, p) ==
    LET x == expandSparse(a, i)
        n == IF IsProp(p) THEN 1 ELSE 0
    IN  IF HasItem(a, i) THEN [Overwrite(a, i, p) EXCEPT !.propValueCount = @ + n]
        ELSE IF x.ok THEN [addItem(a, i, p) EXCEPT !.propValueCount = @ + n]
        ELSE [x.a EXCEPT !.values[i + 1] = p]

\* [array.go defineOwnPropertyStr..defineOwnPropertyIdx]
defineOwnPropertyIdx(a, i, d) ==
    LET put(r, l) == IF ~r.ok \/ ~l.ok THEN Result(a, FALSE)
                     ELSE Result(IF a.rep = "dense" THEN defineDense(l.a, i, r.p) ELSE defineSparse(l.a, i, r.p), TRUE)
    IN put(DefineOwnProperty(getOwnPropIdx(a, i), d, a.extensible), WithRoom(a, i))

\* [array_sparse.go _deleteIdxProp..deleteIdx] of a sparse array
deleteSparse(a, i, n) == [a EXCEPT !.items = RemoveAt(@, findIdx(a, i)), !.propValueCount = @ - n]

\* Mutant: the configurable attribute of a property is not looked at.
DeleteAnyway(a, i) ==
    IF getOwnPropIdx(a, i) = Nil THEN Result(a, TRUE)
    ELSE IF a.rep = "sparse" THEN Result(deleteSparse(a, i, 0), TRUE)
    ELSE Result([a EXCEPT !.values[i + 1] = Nil, !.objCount = @ - 1], TRUE)

\* [array.go _deleteIdxProp..deleteIdx]
deleteIdx(a, i) ==
    LET p == getOwnPropIdx(a, i)
        n == IF IsProp(p) THEN 1 ELSE 0
    IN  IF p = Nil THEN Result(a, TRUE)
        ELSE IF ~p.c THEN Result(a, FALSE)
        ELSE IF a.rep = "sparse" THEN Result(deleteSparse(a, i, n), TRUE)
        ELSE Result([a EXCEPT !.values[i + 1] = Nil, !.objCount = @ - 1, !.propValueCount = @ - n], TRUE)

\* [array_sparse.go sparseArrayPropIter..stringKeys] of a sparse array
sparseKeys(a) == [k \in DOMAIN a.items |-> a.items[k].idx]

\* [array.go arrayPropIter..stringKeys]: the indices of all slots, in order
stringKeys(a) ==
    IF a.rep = "sparse" THEN sparseKeys(a) ELSE [k \in DOMAIN setValues(a.values) |-> setValues(a.values)[k].idx]

\* [array_sparse.go export..exportToArrayOrSlice] of a sparse array
exportSparse(a) == [k \in 1..a.length |-> getIdx(a, k - 1)]

\* [array.go export..exportToArrayOrSlice]: the Go slice that an embedder gets
export(a) ==
    IF a.rep = "sparse" THEN exportSparse(a)
    ELSE IF a.propValueCount = 0 /\ a.length = Len(a.values) /\ a.objCount = a.length
    THEN [k \in 1..a.length |-> IF a.values[k] = Nil THEN "nil" ELSE a.values[k].v]
    ELSE [k \in 1..a.length |-> getIdx(a, k - 1)]

---------------------------------------------------------------------------
(* Methods: the array afterwards, whether the call completed, what it      *)
(* returned.  A generic path stops where an assignment is refused.         *)

Return(x, r) == [a |-> x.a, ok |-> x.ok, ret |-> r]
Loop(Op(_, _), a, ks) == FoldLeft(LAMBDA x, k : IF x.ok THEN Op(x.a, k) ELSE x, Result(a, TRUE), ks)
Then(x, Op(_)) == IF x.ok THEN Op(x.a) ELSE x

\* [builtin_array.go checkStdArrayObj]
checkStdArrayObj(a) ==
    a.rep = "dense" /\ a.propValueCount = 0 /\ a.length = Len(a.values) /\ a.objCount = a.length

\* [builtin_array.go checkStdArrayObjWithProto]
checkStdArrayObjWithProto(a) == checkStdArrayObj(a) /\ \A i \in Indices : ~IsProp(proto[i])

\* [builtin_array.go relToIdx]
relToIdx(rel, l) == IF rel >= 0 THEN Min({rel, l}) ELSE Max({l + rel, 0})

\* [builtin_array.go setArrayLength..arraySpeciesCreate] on a fresh array; a constructor's Symbol.species is user code and left out
newArrayLength(l) == setLength(newArrayValues(<<>>), l).a

\* [runtime.go createDataPropertyOrThrow] a Go nil leaves the descriptor without value.
createDataProperty(a, i, v) == defineOwnPropertyIdx(a, i, DataDescr(IF v = "nil" THEN NotSet ELSE v))

\* An element of the slice as the fast paths read it, a Go nil where there is a hole
Raw(a, k) == IF a.values[k + 1] = Nil THEN "nil" ELSE a.values[k + 1].v

\* The step of all generic paths that move elements
Move(a, from, to) ==
    IF hasPropertyIdx(a, from) THEN setOwnIdx(a, to, nilSafe(getIdx(a, from))) ELSE deleteIdx(a, to)

\* Slots of a slice after a reslice to n with the spare capacity, or in a new slice
Resized(a, vs) ==
    IF Cap(a) >= Len(vs)
    THEN [a EXCEPT !.values = vs, !.spare = SubSeq(a.values \o a.spare, Len(vs) + 1, Cap(a))]
    ELSE [a EXCEPT !.values = vs, !.spare = <<>>]

\* copy() over the front of a slice, and the emptied tail going back to the spare capacity
Shortened(a, vs) == [a EXCEPT !.values = vs, !.spare = Nils(Len(a.values) - Len(vs)) \o @]

\* [builtin_array.go generic_push..arrayproto_push]
push(a, vs) ==
    LET l == a.length
        x == Loop(LAMBDA b, k : setOwnIdx(b, l + k - 1, vs[k]), a, Upto(1, Len(vs) + 1))
    IN Return(Then(x, LAMBDA b : setLength(b, l + Len(vs))), l + Len(vs))

\* [builtin_array.go arrayproto_pop_generic]
popGeneric(a) ==
    LET l == a.length - 1
    IN  IF a.length = 0 THEN Return(setLength(a, 0), "u")
        ELSE Return(Then(deleteIdx(a, l), LAMBDA b : setLength(b, l)), nilSafe(getIdx(a, l)))

\* Mutant: the popped value stays in the capacity.
PopLeavesValue(a) ==
    LET l == a.length - 1
    IN  IF a.rep = "sparse" \/ a.length = 0 THEN popGeneric(a)
        ELSE IF getOwnPropIdx(a, l).t # "val" THEN popGeneric(a)
        ELSE Return(Result([a EXCEPT !.values = SubSeq(@, 1, l), !.spare = <<a.values[l + 1]>> \o @, !.length = l], TRUE), a.values[l + 1].v)

\* [builtin_array.go arrayproto_pop]
pop(a) ==
    LET l == a.length - 1
        p == getOwnPropIdx(a, l)
        b == Shortened(a, SubSeq(a.values, 1, l))
    IN  IF a.rep = "sparse" \/ (a.length > 0 /\ p.t # "val") THEN popGeneric(a)
        ELSE IF a.length = 0 THEN Return(Result(a, a.lengthWritable), "u")
        ELSE Return(Result(IF a.lengthWritable THEN [b EXCEPT !.length = l] ELSE b, a.lengthWritable), p.v)

\* The generic path of [builtin_array.go:1015-1035 arrayproto_shift]
shiftGeneric(a) ==
    LET l == a.length
        x == Loop(LAMBDA b, k : Move(b, k, k - 1), a, Upto(1, l))
    IN  IF l = 0 THEN Return(setLength(a, 0), "u")
        ELSE Return(Then(Then(x, LAMBDA b : deleteIdx(b, l - 1)), LAMBDA b : setLength(b, l - 1)),
                    nilSafe(getIdx(a, 0)))

\* [builtin_array.go:998-1014 arrayproto_shift]
shift(a) ==
    IF ~checkStdArrayObjWithProto(a) THEN shiftGeneric(a)
    ELSE IF a.values = <<>> THEN Return(Result(a, a.lengthWritable), "u")
    ELSE Return(Result([Shortened(a, Tail(a.values)) EXCEPT !.length = @ - 1], TRUE), a.values[1].v)

\* [builtin_array.go arrayproto_unshift] the counter is set from the length of before.
unshift(a, vs) ==
    LET n == Len(vs)
        new == [k \in 1..n |-> Plain(vs[k])]
        fast == Result([Resized(a, new \o a.values) EXCEPT !.objCount = a.length], TRUE)
        moved == Loop(LAMBDA b, k : Move(b, k, k + n), a, Downto(a.length, 0))
        slow == Then(moved, LAMBDA c : Loop(LAMBDA b, k : setOwnIdx(b, k - 1, vs[k]), c, Upto(1, n + 1)))
        x == IF n = 0 THEN Result(a, TRUE) ELSE IF checkStdArrayObjWithProto(a) THEN fast ELSE slow
    IN Return(Then(x, LAMBDA b : setLength(b, a.length + n)), a.length + n)

\* The fast path of [builtin_array.go:460-486 arrayproto_splice]
spliceFast(a, start, del, vs) ==
    LET new == [k \in DOMAIN vs |-> Plain(vs[k])]
        all == SubSeq(a.values, 1, start) \o new \o SubSeq(a.values, start + del + 1, a.length)
        b   == IF Len(vs) < del THEN Shortened(a, all) ELSE Resized(a, all)
    IN Result([b EXCEPT !.objCount = Len(all)], TRUE)

\* The generic path of [builtin_array.go:487-525 arrayproto_splice]
spliceGeneric(a, start, del, vs) ==
    LET n == Len(vs)
        l == a.length
        closed == Then(Loop(LAMBDA b, k : Move(b, k + del, k + n), a, Upto(start, l - del)),
                       LAMBDA c : Loop(LAMBDA b, k : deleteIdx(b, k), c, Downto(l, l - del + n)))
        opened == Loop(LAMBDA b, k : Move(b, k + del, k + n), a, Downto(l - del, start))
        moved  == IF n < del THEN closed ELSE IF n > del THEN opened ELSE Result(a, TRUE)
    IN Then(moved, LAMBDA c : Loop(LAMBDA b, k : setOwnIdx(b, start + k - 1, vs[k]), c, Upto(1, n + 1)))

\* The elements from m to n-1 copied into a new array, as slice and splice do on their generic paths:
\* holes stay holes.
copyRange(a, m, n) ==
    Loop(LAMBDA b, k : IF hasPropertyIdx(a, k) THEN createDataProperty(b, k - m, nilSafe(getIdx(a, k))) ELSE Result(b, TRUE),
         newArrayLength(n - m), Upto(m, n)).a

\* The deleted elements on the fast path [builtin_array.go:449-459 arrayproto_splice].  A new array of a length above 0 has
\* no values yet, so checkStdArrayObjWithProto refuses it and its elements are defined one by one.
copyRaw(a, m, n) ==
    Loop(LAMBDA b, k : createDataProperty(b, k - m, Raw(a, k)), newArrayLength(n - m), Upto(m, n)).a

\* [builtin_array.go arrayproto_splice] with a start, a delete count and items
splice(a, from, count, vs) ==
    LET start == relToIdx(from, a.length)
        del   == Min({Max({count, 0}), a.length - start})
        std   == checkStdArrayObj(a)
        gone  == IF std THEN copyRaw(a, start, start + del) ELSE copyRange(a, start, start + del)
        x     == IF std THEN spliceFast(a, start, del, vs) ELSE spliceGeneric(a, start, del, vs)
    IN Return(Then(x, LAMBDA b : setLength(b, a.length - del + Len(vs))), gone)

\* [builtin_array.go arrayproto_slice]
slice(a, from, to) ==
    LET m == relToIdx(from, a.length)
        n == relToIdx(to, a.length)
    IN copyRange(a, m, Max({m, n}))

\* [builtin_array.go isConcatSpreadable..arrayproto_concat] the receiver and an array argument
concat(a, b) ==
    LET append(c, x) == Then(Loop(LAMBDA d, k : IF getIdx(x, k) = "nil" THEN Result(d, TRUE)
                                                ELSE createDataProperty(d, c.length + k, getIdx(x, k)),
                                  c, Upto(0, x.length)),
                             LAMBDA d : setLength(d, c.length + x.length)).a
    IN append(append(newArrayValues(<<>>), a), b)

\* [builtin_array.go sortable..Swap] without a comparison function: holes last, undefined before
\* them, the rest by their strings, whose order Rank gives.
Rank(v) == CASE v = "nil" -> 99 [] v = "u" -> 98 [] v = "x" -> 1 [] v = "y" -> 2 [] OTHER -> 3
Sorted(vs) == SortSeq(vs, LAMBDA v, w : Rank(v) < Rank(w))

\* [builtin_array.go arrayproto_sort]
sort(a) ==
    LET std == checkStdArrayObj(a)
        fast == Sorted([k \in 1..a.length |-> Raw(a, k - 1)])
        vs == Sorted([k \in 1..Cardinality({i \in 0..(a.length - 1) : hasPropertyIdx(a, i)}) |->
                  nilSafe(getIdx(a, SetToSortSeq({i \in 0..(a.length - 1) : hasPropertyIdx(a, i)}, <)[k]))])
        slow == Then(Loop(LAMBDA b, k : setOwnIdx(b, k - 1, vs[k]), a, Upto(1, Len(vs) + 1)),
                     LAMBDA c : Loop(LAMBDA b, k : deleteIdx(b, k), c, Upto(Len(vs), a.length)))
    IN  IF std THEN Result([a EXCEPT !.values = [k \in DOMAIN fast |-> IF fast[k] = "nil" THEN Nil ELSE Plain(fast[k])]], TRUE)
        ELSE slow

\* [builtin_array.go arrayproto_reverse_generic_step]
reverseStep(a, lo, hi) ==
    LET low  == nilSafe(getIdx(a, lo))
        high == nilSafe(getIdx(a, hi))
        hasLow  == hasPropertyIdx(a, lo)
        hasHigh == hasPropertyIdx(a, hi)
    IN  CASE hasLow /\ hasHigh  -> Then(setOwnIdx(a, lo, high), LAMBDA b : setOwnIdx(b, hi, low))
          [] ~hasLow /\ hasHigh -> Then(setOwnIdx(a, lo, high), LAMBDA b : deleteIdx(b, hi))
          [] hasLow /\ ~hasHigh -> Then(deleteIdx(a, lo), LAMBDA b : setOwnIdx(b, hi, low))
          [] OTHER -> Result(a, TRUE)

\* [builtin_array.go arrayproto_reverse_generic..arrayproto_reverse]
reverse(a) ==
    IF checkStdArrayObj(a) THEN Result([a EXCEPT !.values = Reverse(@)], TRUE)
    ELSE Loop(LAMBDA b, k : reverseStep(b, k, a.length - k - 1), a, Upto(0, a.length \div 2))

\* [builtin_array.go arrayproto_copyWithin]
copyWithin(a, target, start, end) ==
    LET to    == relToIdx(target, a.length)
        from  == relToIdx(start, a.length)
        count == Max({Min({relToIdx(end, a.length) - from, a.length - to}), 0})
        back  == from < to /\ to < from + count
    IN  IF checkStdArrayObj(a)
        THEN Result([a EXCEPT !.values = [k \in DOMAIN @ |->
                        IF k - 1 \in to..(to + count - 1) THEN @[k - to + from] ELSE @[k]]], TRUE)
        ELSE Loop(LAMBDA b, k : Move(b, from + k, to + k), a, IF back THEN Downto(count, 0) ELSE Upto(0, count))

\* [builtin_array.go arrayproto_fill]
fill(a, v, start, end) ==
    LET m == relToIdx(start, a.length)
        n == relToIdx(end, a.length)
    IN  IF checkStdArrayObj(a)
        THEN Result([a EXCEPT !.values = [k \in DOMAIN @ |-> IF k - 1 \in m..(n - 1) THEN Plain(v) ELSE @[k]]], TRUE)
        ELSE Loop(LAMBDA b, k : setOwnIdx(b, k, v), a, Upto(m, n))

First(S) == IF S = {} THEN -1 ELSE Min(S)

\* [builtin_array.go arrayproto_indexOf] undefined is not strictly equal to a Go nil.
indexOf(a, v, from) ==
    LET n == IF from < 0 THEN Max({a.length + from, 0}) ELSE from
        at(i) == IF checkStdArrayObj(a) THEN Raw(a, i) ELSE getIdx(a, i)
    IN First({i \in n..(a.length - 1) : at(i) = v})

\* [builtin_array.go arrayproto_lastIndexOf]
lastIndexOf(a, v, from) ==
    LET n == IF from >= 0 THEN Min({from, a.length - 1}) ELSE from + a.length
        at(i) == IF checkStdArrayObj(a) THEN Raw(a, i) ELSE getIdx(a, i)
        S == {i \in 0..n : at(i) = v}
    IN IF S = {} THEN -1 ELSE Max(S)

\* [builtin_array.go arrayproto_includes]
includes(a, v, from) ==
    LET n == IF from < 0 THEN Max({a.length + from, 0}) ELSE from
        at(i) == IF checkStdArrayObj(a) THEN Raw(a, i) ELSE nilSafe(getIdx(a, i))
    IN \E i \in n..(a.length - 1) : at(i) = v

\* [builtin_array.go arrayproto_at]
at(a, i) ==
    LET k == IF i < 0 THEN a.length + i ELSE i
    IN IF k >= a.length \/ k < 0 \/ ~hasPropertyIdx(a, k) THEN "u" ELSE getIdx(a, k)

\* [builtin_array.go arrayproto_with], for an index in range
with(a, i, v) ==
    LET n == IF i >= 0 THEN i ELSE a.length + i
    IN  IF checkStdArrayObj(a) THEN newArrayValues([a.values EXCEPT ![n + 1] = Plain(v)])
        ELSE Loop(LAMBDA b, k : createDataProperty(b, k, IF k = n THEN v ELSE getIdx(a, k)),
                  newArrayLength(a.length), Upto(0, a.length)).a

\* [builtin_array.go arrayproto_toReversed]
toReversed(a) ==
    IF checkStdArrayObj(a) THEN newArrayValues(Reverse(a.values))
    ELSE Loop(LAMBDA b, k : createDataProperty(b, k, getIdx(a, a.length - k - 1)),
              newArrayLength(a.length), Upto(0, a.length)).a

\* [builtin_array.go arrayproto_toSorted]
toSorted(a) ==
    LET vs == Sorted([k \in 1..a.length |-> IF checkStdArrayObj(a) THEN Raw(a, k - 1) ELSE nilSafe(getIdx(a, k - 1))])
    IN newArrayValues([k \in DOMAIN vs |-> IF vs[k] = "nil" THEN Nil ELSE Plain(vs[k])])

\* [builtin_array.go arrayproto_toSpliced]
toSpliced(a, from, count, vs) ==
    LET start == relToIdx(from, a.length)
        skip  == Min({Max({count, 0}), a.length - start})
        new   == [k \in DOMAIN vs |-> Plain(vs[k])]
        get(k) == nilSafe(getIdx(a, k))
        all   == [k \in 1..start |-> get(k - 1)] \o vs
                 \o [k \in 1..(a.length - start - skip) |-> get(start + skip + k - 1)]
    IN  IF checkStdArrayObj(a)
        THEN newArrayValues(SubSeq(a.values, 1, start) \o new \o SubSeq(a.values, start + skip + 1, a.length))
        ELSE Loop(LAMBDA b, k : createDataProperty(b, k - 1, all[k]), newArrayLength(Len(all)), Upto(1, Len(all) + 1)).a

\* What a callback does to the array it is called about: nothing, or a call of its own.
Callback(a, k, effect) ==
    CASE effect = "truncate" -> setLength(a, k).a
      [] effect = "append"   -> IF a.length < MaxLen THEN push(a, <<"x">>).a ELSE a
      [] effect = "delete"   -> deleteIdx(a, k + 1).a
      [] OTHER -> a

\* Mutant: the elements are those that were there before the callbacks ran.
VisitSnapshot(a, effect) ==
    FoldLeft(LAMBDA x, k : IF getIdx(a, k) = "nil" THEN x
                           ELSE [a |-> Callback(x.a, k, effect), seen |-> Append(x.seen, [k |-> k, v |-> getIdx(a, k)])],
             [a |-> a, seen |-> <<>>], Upto(0, a.length))

\* [builtin_array.go arrayproto_every..arrayproto_forEach], the loop of map, filter and reduce too: the length is read
\* once, each element when it is reached; elements that are gone by then are not visited.
visit(a, effect) ==
    FoldLeft(LAMBDA x, k : IF getIdx(x.a, k) = "nil" THEN x
                           ELSE [a |-> Callback(x.a, k, effect), seen |-> Append(x.seen, [k |-> k, v |-> getIdx(x.a, k)])],
             [a |-> a, seen |-> <<>>], Upto(0, a.length))

\* The array that map builds of what its callback was given, and returned
Mapped(a, seen) ==
    LET got(k) == {seen[j].v : j \in {j \in DOMAIN seen : seen[j].k = k}}
        one(b, s) == createDataProperty(b, s.k, s.v)
    IN  IF a.rep = "sparse" THEN Loop(one, newArrayLength(a.length), seen).a
        ELSE newArrayValues([k \in 1..a.length |-> IF \E v \in got(k - 1) : TRUE
                                                  THEN Plain(CHOOSE v \in got(k - 1) : TRUE) ELSE Nil])

\* [builtin_array.go arrayproto_map] with a callback that returns its argument
map(a, effect) ==
    LET finish(r) == [a |-> r.a, ok |-> TRUE, ret |-> Mapped(a, r.seen)] IN finish(visit(a, effect))

\* [builtin_array.go arrayproto_filter] with a callback that accepts the value v
filter(a, v, effect) ==
    LET kept(seen) == SelectSeq(seen, LAMBDA s : s.v = v)
        finish(r) == [a |-> r.a, ok |-> TRUE,
                      ret |-> newArrayValues([k \in DOMAIN kept(r.seen) |-> Plain(v)])]
    IN finish(visit(a, effect))

\* [builtin_array.go arrayproto_reduce..arrayproto_reduceRight] with a callback that returns its second argument:
\* the value of the last element visited from one side
reduce(a, right) ==
    LET present == {k \in 0..(a.length - 1) : getIdx(a, k) # "nil"}
    IN IF present = {} THEN "nil" ELSE getIdx(a, IF right THEN Min(present) ELSE Max(present))

\* [builtin_array.go arrayproto_find..arrayproto_findLastIndex]: holes are visited too.
find(a, v, fromEnd) ==
    LET found == {k \in 0..(a.length - 1) : nilSafe(getIdx(a, k)) = v}
    IN IF found = {} THEN -1 ELSE IF fromEnd THEN Max(found) ELSE Min(found)

\* [builtin_array.go arrayproto_flat..arrayproto_flatMap] of an array whose elements are no arrays: holes are dropped.
flat(a) ==
    LET present == SetToSortSeq({k \in 0..(a.length - 1) : hasPropertyIdx(a, k)}, <)
    IN Loop(LAMBDA b, j : createDataProperty(b, j - 1, nilSafe(getIdx(a, present[j]))),
            newArrayValues(<<>>), Upto(1, Len(present) + 1)).a

\* [array.go arrayIterObject..createArrayIterator]: what an iterator yields, the length read anew at every step,
\* while the loop over it does something to the array
iterate(a, effect) ==
    FoldLeft(LAMBDA x, k : IF k >= x.a.length THEN x
                           ELSE [a |-> Callback(x.a, k, effect), seen |-> Append(x.seen, nilSafe(getIdx(x.a, k)))],
             [a |-> a, seen |-> <<>>], Upto(0, MaxLen)).seen

\* [builtin_array.go array_from] on an array: the fast copy, or the values an iterator yields
array_from(a) ==
    IF checkStdArrayObj(a) THEN newArrayValues(a.values)
    ELSE newArrayValues([k \in 1..a.length |-> Plain(nilSafe(getIdx(a, k - 1)))])

---------------------------------------------------------------------------
(* The specification: any sequence of calls on one array.  Methods are     *)
(* called on arrays with a writable length.                                *)

NoProto == [i \in Indices |-> Nil]

Init ==
    /\ arr \in {newArrayValues(<<>>), newArrayValues(<<Plain("x"), Plain("y")>>), newArrayLength(MaxLen)}
    /\ proto \in {NoProto, [NoProto EXCEPT ![1] = valueProp("y", FALSE, TRUE, TRUE)]}

\* Bounds of the exploration.  An array is fixed in length, or not extensible, or inherits an element, one at a time.
Bounded(a) ==
    /\ \/ a.extensible /\ a.lengthWritable
       \/ (a.extensible \/ a.lengthWritable) /\ proto = NoProto
    /\ a.length <= MaxLen /\ a.objCount \in 0..MaxCount /\ a.propValueCount \in 0..2

Becomes(a) == Bounded(a) /\ arr' = a /\ UNCHANGED proto

\* Descriptors a script may pass to Object.defineProperty for an element
ElementDescrs == {DataDescr("x"), Descr("x", "F", "F", "F"), Descr("x", "F", "T", "T")}

SetElement == \E i \in Indices, v \in Values : Becomes(setOwnIdx(arr, i, v).a)
DefineElement == \E i \in Indices, d \in ElementDescrs : Becomes(defineOwnPropertyIdx(arr, i, d).a)
DeleteElement == \E i \in Indices : Becomes(deleteIdx(arr, i).a)
SetLength == \E l \in 0..MaxLen : Becomes(setLength(arr, l).a)
DefineLength == \E l \in 0..MaxLen : Becomes(defineArrayLength(arr, TRUE, l, "F").a)
PreventExtensions == Becomes([arr EXCEPT !.extensible = FALSE])

Method(a) == arr.lengthWritable /\ Becomes(a)

Push == \E v \in Values : Method(push(arr, <<v>>).a)
Pop == Method(pop(arr).a)
Shift == Method(shift(arr).a)
Unshift == arr.length < MaxLen /\ \E v \in Values : Method(unshift(arr, <<v>>).a)
Splice == arr.lengthWritable /\ \E m \in 0..arr.length, n \in 0..2, vs \in {<<>>, <<"x", "y">>} :
              n # Len(vs) /\ m + n <= arr.length /\ arr.length - n + Len(vs) <= MaxLen /\ Method(splice(arr, m, n, vs).a)
Sort == Method(sort(arr).a)
ReverseInPlace == Method(reverse(arr).a)
CopyWithin == arr.lengthWritable /\ \E m \in 0..1 : Method(copyWithin(arr, m, 1 - m, arr.length).a)
Fill == \E m \in 0..1 : Method(fill(arr, "y", m, arr.length).a)
UseMapResult == arr.lengthWritable /\ \E effect \in {"none", "truncate"} : Method(map(arr, effect).ret)
UseNewArray == \E a \in {slice(arr, -2, arr.length), toReversed(arr), flat(arr)} : Method(a)

Next ==
    \/ SetElement \/ DefineElement \/ DeleteElement \/ SetLength \/ DefineLength \/ PreventExtensions
    \/ Push \/ Pop \/ Shift \/ Unshift \/ Splice \/ Sort \/ ReverseInPlace \/ CopyWithin \/ Fill
    \/ UseMapResult \/ UseNewArray

Spec == Init /\ [][Next]_vars

---------------------------------------------------------------------------
(* The array as the language defines it: attributes and values by index.   *)

Abs(a) == [el |-> [i \in Indices |-> IF getOwnPropIdx(a, i) = Nil THEN Nil
                                     ELSE [getOwnPropIdx(a, i) EXCEPT !.t = "val"]],
           len |-> a.length]

\* The values, with "nil" for holes
View(a) == [k \in 1..a.length |-> IF getOwnPropIdx(a, k - 1) = Nil THEN "nil" ELSE getOwnPropIdx(a, k - 1).v]

\* Holes that the counters deny: a truncation or a redefinition leaves objCount too high, map counts holes.
Miscounted(a) == checkStdArrayObj(a) /\ \E k \in DOMAIN a.values : a.values[k] = Nil

\* A property that the counter denies: a switch of the representation that goes with its definition is not counted.
Hidden(a) == a.propValueCount <= 0 /\ \E i \in Indices : IsProp(getOwnPropIdx(a, i))

\* Structure of both representations: items ascend and are not empty; nothing lies beyond the length;
\* and the capacity behind the slice holds no stale values that a later expand() would bring back.
\* Of objCount and propValueCount it says nothing: they drift (Miscounted and Hidden above).
Structure ==
    /\ \A k \in DOMAIN arr.items : /\ arr.items[k].value # Nil
                                   /\ arr.items[k].idx < arr.length
                                   /\ \A j \in 1..(k - 1) : arr.items[j].idx < arr.items[k].idx
    /\ Len(arr.values) <= arr.length
    /\ \A k \in DOMAIN arr.spare : arr.spare[k] = Nil
    /\ arr.rep = "dense" => arr.items = <<>>
    /\ arr.rep = "sparse" => arr.values = <<>> /\ arr.spare = <<>>

---------------------------------------------------------------------------
(* What ECMAScript requires of element accesses.                           *)

Longer(s, i) == Max({s.len, i + 1})

RefSet(s, i, v) ==
    LET p == s.el[i]
        inherited == proto[i] # Nil /\ ~proto[i].w
        fits == i < s.len \/ arr.lengthWritable
    IN  IF p = Nil THEN IF inherited \/ ~arr.extensible \/ ~fits THEN s
                        ELSE [el |-> [s.el EXCEPT ![i] = Plain(v)], len |-> Longer(s, i)]
        ELSE IF p.w THEN [s EXCEPT !.el[i].v = v] ELSE s

RefDelete(s, i) == IF s.el[i] # Nil /\ s.el[i].c THEN [s EXCEPT !.el[i] = Nil] ELSE s

RefSetLength(s, l) ==
    LET fixed == {i \in l..(MaxLen - 1) : s.el[i] # Nil /\ ~s.el[i].c}
        n == IF fixed = {} THEN l ELSE Max(fixed) + 1
    IN  IF ~arr.lengthWritable THEN s
        ELSE [el |-> [i \in Indices |-> IF i >= n THEN Nil ELSE s.el[i]], len |-> n]

\* Assigning, deleting and truncating have the effect ECMAScript gives them whatever the representation, the
\* capacity and the counters are, across switches between the representations (array.go, array_sparse.go).
\* Excepted are the two known slips: a truncation to exactly the index of a fixed element of a sparse array,
\* and of an array whose property counter a switch has left at 0.
ElementsAgree ==
    /\ \A i \in Indices : \A v \in Values : Abs(setOwnIdx(arr, i, v).a) = RefSet(Abs(arr), i, v)
    /\ \A i \in Indices : Abs(deleteIdx(arr, i).a) = RefDelete(Abs(arr), i)
    /\ \A l \in 0..MaxLen :
          LET slip == \/ arr.rep = "sparse" /\ getOwnPropIdx(arr, l) # Nil /\ ~getOwnPropIdx(arr, l).c
                      \/ Hidden(arr)
          IN slip \/ Abs(setLength(arr, l).a) = RefSetLength(Abs(arr), l)

---------------------------------------------------------------------------
(* What ECMAScript requires of the methods, on sequences with holes.       *)

Dense(S) == [k \in DOMAIN S |-> nilSafe(S[k])]
Part(S, m, n) == SubSeq(S, m + 1, n)
SpliceRef(S, m, n, vs) == Part(S, 0, m) \o vs \o Part(S, m + n, Len(S))
HolesLast(S) == SelectSeq(S, LAMBDA v : v # "nil") \o SelectSeq(S, LAMBDA v : v = "nil")

\* What the callback sees, defined on the sequence alone
RECURSIVE RefVisit(_, _, _, _)
RefVisit(S, k, n, effect) ==
    IF k >= n THEN <<>>
    ELSE IF k >= Len(S) \/ S[k + 1] = "nil" THEN RefVisit(S, k + 1, n, effect)
    ELSE LET T == CASE effect = "truncate" -> Part(S, 0, k)
                    [] effect = "append"   -> IF Len(S) < MaxLen THEN Append(S, "x") ELSE S
                    [] effect = "delete"   -> IF k + 1 < Len(S) THEN [S EXCEPT ![k + 2] = "nil"] ELSE S
                    [] OTHER -> S
         IN <<[k |-> k, v |-> S[k + 1]]>> \o RefVisit(T, k + 1, n, effect)

PlainOnly == /\ arr.lengthWritable /\ arr.extensible /\ proto = NoProto
             /\ \A i \in Indices : getOwnPropIdx(arr, i).t # "prop"

\* Every method that changes the array has the effect of its ECMAScript definition, on its fast path and on its
\* generic one: nobody can tell which was taken (builtin_array.go).  Arrays that the counters misjudge are excepted.
MutatorsAgree ==
    LET S == View(arr)
        n == arr.length
    IN PlainOnly /\ ~Miscounted(arr) =>
       /\ n < MaxLen => View(push(arr, <<"y">>).a) = Append(S, "y") /\ View(unshift(arr, <<"y">>).a) = <<"y">> \o S
       /\ n > 0 => /\ View(pop(arr).a) = Part(S, 0, n - 1) /\ pop(arr).ret = nilSafe(S[n])
                   /\ View(shift(arr).a) = Tail(S) /\ shift(arr).ret = nilSafe(S[1])
       /\ \A m \in 0..n : \A c \in 0..2 : \A vs \in {<<>>, <<"x", "y">>} :
             LET d == Min({c, n - m})
             IN n - d + Len(vs) <= MaxLen =>
                   /\ View(splice(arr, m, c, vs).a) = SpliceRef(S, m, d, vs)
                   /\ View(splice(arr, m, c, vs).ret) = Part(S, m, m + d)
       /\ View(reverse(arr).a) = Reverse(S)
       /\ View(sort(arr).a) = HolesLast(Sorted(S))
       /\ \A m, p \in 0..n : View(copyWithin(arr, m, p, n).a) =
             [k \in 1..n |-> IF k - 1 \in m..(m + Min({n - p, n - m}) - 1) THEN S[k - m + p] ELSE S[k]]
       /\ \A m \in 0..n : View(fill(arr, "y", m, n).a) = [k \in 1..n |-> IF k > m THEN "y" ELSE S[k]]

\* Every method that only reads the array gives what its ECMAScript definition gives, fast path or not, also when
\* its callback changes the array under it (builtin_array.go).
ReadersAgree ==
    LET S == View(arr)
        n == arr.length
    IN PlainOnly /\ ~Miscounted(arr) =>
       /\ \A m \in -n..n : \A p \in {-1, 1, n} : View(slice(arr, m, p)) = Part(S, relToIdx(m, n), relToIdx(p, n))
       /\ View(concat(arr, arr)) = S \o S
       /\ View(toReversed(arr)) = Reverse(Dense(S))
       /\ View(toSorted(arr)) = Sorted(Dense(S))
       /\ View(array_from(arr)) = Dense(S)
       /\ View(flat(arr)) = SelectSeq(S, LAMBDA v : v # "nil")
       /\ \A i \in 0..(n - 1) : View(with(arr, i, "y")) = [Dense(S) EXCEPT ![i + 1] = "y"]
       /\ \A m \in 0..n : \A vs \in {<<>>, <<"y">>} :
             View(toSpliced(arr, m, 1, vs)) = SpliceRef(Dense(S), m, Min({1, n - m}), vs)
       /\ \A v \in Values : \A m \in -n..n :
             LET from == IF m < 0 THEN n + m ELSE m
             IN  /\ indexOf(arr, v, m) = First({i \in from..(n - 1) : S[i + 1] = v})
                 /\ includes(arr, v, m) = \E i \in from..(n - 1) : Dense(S)[i + 1] = v
                 /\ n > 0 => lastIndexOf(arr, v, m) = Max({-1} \cup {i \in 0..Min({from, n - 1}) : S[i + 1] = v})
                 /\ find(arr, v, m > 0) = IF m > 0 THEN Max({-1} \cup {i \in 0..(n - 1) : Dense(S)[i + 1] = v})
                                          ELSE First({i \in 0..(n - 1) : Dense(S)[i + 1] = v})
       /\ \A i \in 0..(n - 1) : at(arr, i) = Dense(S)[i + 1] /\ at(arr, i - n) = Dense(S)[i + 1]
       /\ export(arr) = S /\ stringKeys(arr) = SetToSortSeq({i \in 0..(n - 1) : S[i + 1] # "nil"}, <)
       /\ \A effect \in {"none", "truncate", "append", "delete"} :
             LET seen == RefVisit(S, 0, n, effect)
             IN  /\ View(map(arr, effect).ret) =
                       [k \in 1..n |-> IF \E j \in DOMAIN seen : seen[j].k = k - 1 THEN S[k] ELSE "nil"]
                 /\ View(filter(arr, "x", effect).ret) =
                       [k \in DOMAIN SelectSeq(seen, LAMBDA s : s.v = "x") |-> "x"]
       /\ iterate(arr, "none") = Dense(S)
       /\ reduce(arr, FALSE) = IF SelectSeq(S, LAMBDA v : v # "nil") = <<>> THEN "nil"
                               ELSE Last(SelectSeq(S, LAMBDA v : v # "nil"))

\* An element that is not configurable stays, with its attributes, as long as the array exists: the test
\* TestSparseArraySetLengthWithPropItems expects a TypeError and the length kept (array_sparse_test.go:13-19).
FixedElementsStay ==
    [][\A i \in Indices :
          LET p == getOwnPropIdx(arr, i) IN p # Nil /\ ~p.c /\ ~UseMapResult /\ ~UseNewArray => getOwnPropIdx(arr', i) # Nil]_vars

\* Every method of Array.prototype: MutatorsAgree and ReadersAgree.
CallsAgree == MutatorsAgree /\ ReadersAgree
=============================================================================
