----------------------------- MODULE PropNames -----------------------------
(***************************************************************************)
(* The list of property names of an object and the iterations over it      *)
(* (object.go).  The list is a Go slice.  An iteration keeps the slice it  *)
(* started with and marks it "copy on write" by a marker in the last cell  *)
(* of its capacity; puts behind its end may still share the array, while   *)
(* deletions and the sorting of index names copy a marked one.  The end of *)
(* an iteration takes the marker away; an abandoned one leaves it.         *)
(***************************************************************************)
EXTENDS Integers, Sequences, FiniteSets, SequencesExt, FiniteSetsExt

CONSTANTS
    Names,         \* property names: positive numbers, and possibly the name that is equal to the marker
    IdxNames,      \* those that are array indices, in the order of the numbers
    Iters,         \* iterations that may be under way
    MaxCap         \* bound: capacity of an array

Blank == 0         \* the empty string
Marker == -1       \* copyMarker

ASSUME NamesAssumption == /\ Names \subseteq (Nat \ {Blank}) \cup {Marker}
                          /\ IdxNames \subseteq Names \ {Marker}
                          /\ MaxCap \in Nat

VARIABLES
    arrays,        \* the arrays behind slices: the cells up to the capacity
    list,          \* propNames: [arr, len]
    sorted,        \* lastSortedPropLen
    idxCount,      \* idxPropCount
    held,        \* the names that have a property
    iters          \* iterations: the slice, the next cell, and (history) the names the slice had at the start

namesVars == <<arrays, list, sorted, idxCount, held, iters>>

ArrayIds == 0..(Cardinality(Iters) + 1)
Idle == [on |-> FALSE, arr |-> 0, len |-> 0, idx |-> 0, snap |-> <<>>]

Cap(a, s) == Len(a[s.arr])
Cells(a, s) == SubSeq(a[s.arr], 1, s.len)
Used(l, its) == {l.arr} \cup {its[i].arr : i \in {j \in Iters : its[j].on}}
Free == Min(ArrayIds \ Used(list, iters))

\* [external Go garbage collector] what no slice refers to any more is gone
Collect(a, l, its) == [id \in ArrayIds |-> IF id \in Used(l, its) THEN a[id] ELSE <<>>]

\* [runtime.go shrinkCap]
shrinkCap(newSize, oldCap) == IF oldCap > 8 /\ oldCap \div 2 >= newSize THEN oldCap \div 2 ELSE oldCap

\* [runtime.go growCap] below 1024 elements
growCap(newSize, oldCap) == IF newSize > 2 * oldCap THEN newSize ELSE 2 * oldCap

\* [object.go namesMarkedForCopy]
namesMarkedForCopy(a, s) == Cap(a, s) > s.len /\ a[s.arr][Cap(a, s)] = Marker

\* a slice with given cells in an array of its own
Filled(cells, cap) == cells \o [j \in 1..(cap - Len(cells)) |-> Blank]
Fresh(a, cells, cap) == [a |-> [a EXCEPT ![Free] = Filled(cells, cap)], s |-> [arr |-> Free, len |-> Len(cells)]]

\* [object.go copyNamesIfNeeded] for one more name
copyNamesIfNeeded(a, s) ==
    IF namesMarkedForCopy(a, s) /\ s.len + 1 >= Cap(a, s)
    THEN Fresh(a, Cells(a, s), IF s.len + 2 > Cap(a, s) THEN growCap(s.len + 2, Cap(a, s)) ELSE Cap(a, s))
    ELSE [a |-> a, s |-> s]

\* Go's append: behind the end, in place while the capacity lasts
AppendName(r, n) ==
    IF r.s.len < Cap(r.a, r.s)
    THEN [a |-> [r.a EXCEPT ![r.s.arr][r.s.len + 1] = n], s |-> [r.s EXCEPT !.len = @ + 1]]
    ELSE Fresh(r.a, Append(Cells(r.a, r.s), n), growCap(r.s.len + 1, Cap(r.a, r.s)))

\* [object.go prepareNamesForCopy]
prepareNamesForCopy(a, s) ==
    LET full == Cap(a, s) = s.len
        cap == IF full THEN growCap(s.len + 1, Cap(a, s)) ELSE Cap(a, s)
        r == IF namesMarkedForCopy(a, s) \/ full THEN Fresh(a, Cells(a, s), cap) ELSE [a |-> a, s |-> s]
    IN IF s.len = 0 THEN [a |-> a, s |-> s] ELSE [r EXCEPT !.a[r.s.arr][cap] = Marker]

\* [object.go clearNamesCopyMarker]
clearNamesCopyMarker(a, s) == IF Cap(a, s) > s.len THEN [a EXCEPT ![s.arr][Cap(a, s)] = Blank] ELSE a

---------------------------------------------------------------------------
(* The list.                                                               *)

\* [object.go baseObject._put]
Put(n) ==
    LET r == AppendName(copyNamesIfNeeded(arrays, list), n) IN
    /\ n \notin held
    /\ Cap(r.a, r.s) <= MaxCap
    /\ held' = held \cup {n}
    /\ arrays' = Collect(r.a, r.s, iters) /\ list' = r.s
    /\ UNCHANGED <<sorted, idxCount, iters>>

\* [object.go baseObject._delete]
Delete(n) ==
    LET i == CHOOSE j \in 1..list.len : Cells(arrays, list)[j] = n
        rest == RemoveAt(Cells(arrays, list), i)
        copied == Fresh(arrays, rest, shrinkCap(list.len, Cap(arrays, list)))
    IN
    /\ n \in held
    /\ held' = held \ {n}
    /\ IF namesMarkedForCopy(arrays, list)
       THEN arrays' = Collect(copied.a, copied.s, iters) /\ list' = copied.s
       ELSE /\ arrays' = [arrays EXCEPT ![list.arr] = rest \o <<Blank>> \o SubSeq(@, list.len + 1, Len(@))]
            /\ list' = [list EXCEPT !.len = @ - 1]
    /\ sorted' = IF i <= sorted THEN sorted - 1 ELSE sorted
    /\ idxCount' = IF i <= sorted /\ i <= idxCount THEN idxCount - 1 ELSE idxCount
    /\ UNCHANGED iters

\* One name of the unsorted part: [cells, count of index names in front, has anything moved]
PlaceName(acc, i) ==
    LET n == acc.cells[i]
        k == Cardinality({j \in 1..acc.count : acc.cells[j] < n}) + 1
    IN IF n \notin IdxNames THEN acc
       ELSE [cells |-> IF k < i THEN SubSeq(acc.cells, 1, k - 1) \o <<n>> \o SubSeq(acc.cells, k, i - 1)
                                     \o SubSeq(acc.cells, i + 1, Len(acc.cells)) ELSE acc.cells,
             count |-> acc.count + 1, moved |-> acc.moved \/ k < i]

\* The marker is not looked at while the names are sorted.
FixInPlace(a, s) ==
    LET r == FoldLeft(PlaceName, [cells |-> Cells(a, s), count |-> idxCount, moved |-> FALSE],
                      [j \in 1..(s.len - sorted) |-> sorted + j])
    IN [count |-> r.count, r |-> [a |-> [a EXCEPT ![s.arr] = r.cells \o SubSeq(@, s.len + 1, Len(@))], s |-> s]]

\* [object.go baseObject.fixPropOrder]
fixPropOrder(a, s) ==
    LET r == FoldLeft(PlaceName, [cells |-> Cells(a, s), count |-> idxCount, moved |-> FALSE],
                      [j \in 1..(s.len - sorted) |-> sorted + j])
        copied == Fresh(a, r.cells, Cap(a, s))
    IN [count |-> r.count,
        r |-> IF r.moved /\ namesMarkedForCopy(a, s) THEN copied
              ELSE [a |-> [a EXCEPT ![s.arr] = r.cells \o SubSeq(@, s.len + 1, Len(@))], s |-> s]]

\* [object.go baseObject.ensurePropOrder..baseObject.stringKeys]
sortNames ==
    LET f == fixPropOrder(arrays, list) IN
    /\ sorted < list.len
    /\ arrays' = Collect(f.r.a, f.r.s, iters) /\ list' = f.r.s
    /\ sorted' = list.len /\ idxCount' = f.count
    /\ UNCHANGED <<held, iters>>

---------------------------------------------------------------------------
(* Iterations.                                                             *)

\* [object.go objectPropIter.next] the names that are gone are passed over; the end takes the marker away.
NextOf(a, it) ==
    LET left == {j \in it.idx + 1..it.len : a[it.arr][j] \in held} IN
    IF left = {} THEN [it |-> Idle, a |-> clearNamesCopyMarker(a, it)] ELSE [it |-> [it EXCEPT !.idx = Min(left)], a |-> a]

\* [object.go baseObject.iterateStringKeys] The first name is asked for at once.
iterateStringKeys(i) ==
    LET f == IF sorted < list.len THEN fixPropOrder(arrays, list)
             ELSE [count |-> idxCount, r |-> [a |-> arrays, s |-> list]]
        first(p) == NextOf(p.a, [on |-> TRUE, arr |-> p.s.arr, len |-> p.s.len, idx |-> 0, snap |-> Cells(p.a, p.s)])
    IN
    /\ ~iters[i].on
    /\ sorted' = list.len /\ idxCount' = f.count
    /\ \E p \in {prepareNamesForCopy(f.r.a, f.r.s)} : \E n \in {first(p)} :
         /\ Cap(p.a, p.s) <= MaxCap
         /\ list' = p.s
         /\ iters' = [iters EXCEPT ![i] = n.it]
         /\ arrays' = Collect(n.a, list', iters')
    /\ UNCHANGED held

\* [object.go objectPropIter..enumerableIter] the next name of an iteration under way
Continue(i) ==
    LET n == NextOf(arrays, iters[i]) IN
    /\ iters[i].on
    /\ iters' = [iters EXCEPT ![i] = n.it]
    /\ arrays' = Collect(n.a, list, iters')
    /\ UNCHANGED <<list, sorted, idxCount, held>>

\* A loop is left before its end: there is no way to close an iteration.
Abandon(i) ==
    /\ iters[i].on
    /\ iters' = [iters EXCEPT ![i] = Idle]
    /\ arrays' = Collect(arrays, list, iters')
    /\ UNCHANGED <<list, sorted, idxCount, held>>

NamesInit ==
    /\ arrays = [a \in ArrayIds |-> <<>>]
    /\ list = [arr |-> 0, len |-> 0]
    /\ sorted = 0 /\ idxCount = 0
    /\ held = {}
    /\ iters = [i \in Iters |-> Idle]

NamesNext ==
    \/ \E n \in Names : Put(n) \/ Delete(n)
    \/ sortNames
    \/ \E i \in Iters : iterateStringKeys(i) \/ Continue(i) \/ Abandon(i)

---------------------------------------------------------------------------
(* Properties.                                                             *)

NamesTypeOK ==
    /\ \A a \in ArrayIds : arrays[a] \in Seq(Names \cup {Blank, Marker}) /\ Len(arrays[a]) <= MaxCap
    /\ list.arr \in ArrayIds /\ list.len \in 0..Len(arrays[list.arr])
    /\ sorted \in 0..list.len /\ idxCount \in 0..sorted
    /\ held \subseteq Names
    /\ \A i \in Iters : iters[i].on => iters[i].arr \in ArrayIds /\ iters[i].len \in 1..Len(arrays[iters[i].arr])

\* The list names every property once, its sorted part has the indices in front and in ascending order, and an
\* iteration sees the names of its start for as long as it lasts, whatever is put, deleted, sorted or iterated in
\* between (object.go prepareNamesForCopy and the callers of namesMarkedForCopy).
NamesKept ==
    LET cells == Cells(arrays, list) IN
    /\ ToSet(cells) = held /\ IsInjective(cells)
    /\ \A j \in 1..sorted : (j <= idxCount) = (cells[j] \in IdxNames)
    /\ \A j, k \in 1..idxCount : j < k => cells[j] < cells[k]
    /\ \A i \in Iters : iters[i].on => Cells(arrays, iters[i]) = iters[i].snap

=============================================================================
