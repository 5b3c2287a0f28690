------------------------------ MODULE Buffers ------------------------------
(***************************************************************************)
(* One call of a method on buffers of every content: two array buffers,    *)
(* typed arrays of every kind, offset and length over them, and user code  *)
(* that detaches or changes the first buffer during the call.  The         *)
(* properties compare the outcome with what the method stands for, read    *)
(* off the memory as it was before the call.                               *)
(***************************************************************************)
EXTENDS NodeBuffer

CONSTANTS
    Contents,      \* contents of the first buffer
    MaxVisit,      \* bound: elements of an array given to a method with a callback
    MaxIndex       \* bound: absolute value of an index argument

ASSUME BoundsNat == MaxVisit \in Nat /\ MaxIndex \in Nat

VARIABLES
    mem,           \* the buffers
    done           \* the calls made: none, or one with its arguments and outcome

vars == <<mem, done>>

Starts == {0, 1, 2, 5}                     \* offsets of the views, in elements
ViewsOf(b, kinds) ==
    {v \in [kind : kinds, buf : {b}, off : Starts, len : 0..3] : (v.off + v.len) * v.kind.size <= Len(mem[b].data)}

\* A detached buffer keeps its views.
Detachable(kinds) == ViewsOf(1, kinds) \cup
    IF mem[1].detached THEN {View(k, 1, 0, n) : k \in kinds, n \in 0..2} ELSE {}

Effects == {NoEffect} \cup [at : 1..3, do : {"detach", "write"}, buf : {1}]
Detaching == {x \in Effects : x.do # "write"}
Indices == -MaxIndex..MaxIndex
OptIndices == {<<>>} \cup {<<i>> : i \in Indices}

Ints == {Uint8, Int8, Uint16, Int32}
Sample == {Uint8, Uint8Clamped, Int16, Float32, Float64, BigInt64, BigUint64}
Vals(k) == IF k.conv = "big" THEN {Big(-3), Big(3), Big(Range0(k) + 3), Num(2)}
           ELSE {Num(0), Num(2), Num(3), Num(5), Num(-3), Num(99), NaN, NegZero, Undef, Big(1)}
FewVals(k) == IF k.conv = "big" THEN {Big(-3), Num(2)} ELSE {Num(5), Big(1)}

Done(op, v, a, e, s) ==
    /\ done' = <<[op |-> op, v |-> v, a |-> a, e |-> e, s |-> s, before |-> mem]>>
    /\ mem' = s.m

---------------------------------------------------------------------------
(* Calls.                                                                  *)

CallSet ==
    \E v \in ViewsOf(1, Ints \cup {Uint32, BigInt64}), at0 \in 0..2, far \in {-9, 9} :
      \E src \in ViewsOf(1, Ints \cup {BigInt64}) \cup (IF v.off = 0 THEN ViewsOf(2, {Uint8, Uint16}) ELSE {}) :
        /\ (far = 9 => src.buf = 2)
        /\ Done("set", v, <<src, at0>>, NoEffect, typedArraySet(mem, v, <<"view", src>>, at0, far, NoEffect))

CallSetList ==
    \E v \in Detachable({Uint8, Float64, BigInt64}), at0 \in -1..2, e \in Detaching :
      \E x \in Vals(v.kind), y \in FewVals(v.kind) :
        Done("setList", v, <<<<x, y>>, at0>>, e, typedArraySet(mem, v, <<"list", <<x, y>>>>, at0, 0, e))

CallCopyWithin ==
    \E v \in Detachable({Uint8, Int16}), t \in Indices, f \in Indices, end \in OptIndices, e \in Detaching :
        /\ (e # NoEffect => end = <<>> /\ t >= 0)
        /\ Done("copyWithin", v, <<t, f, end>>, e, copyWithin(mem, v, t, f, end, e))

CallFill ==
    \E v \in Detachable(Sample), f \in Indices, end \in OptIndices, e \in Effects :
      \E x \in IF f = 0 /\ end = <<>> THEN Vals(v.kind) ELSE FewVals(v.kind) :
        /\ (e # NoEffect => end = <<>> /\ f = 0)
        /\ Done("fill", v, <<x, f, end>>, e, fill(mem, v, x, f, end, e))

CallReverse == \E v \in Detachable(Sample) : Done("reverse", v, <<>>, NoEffect, reverse(mem, v))

CallSlice ==
    \E v \in Detachable({Uint8, Int16}), f \in Indices, end \in OptIndices, e \in Detaching :
      \E dst \in ViewsOf(1, {v.kind, Uint8}) \cup {View(v.kind, 2, 0, Len(mem[2].data) \div v.kind.size)} :
        /\ (dst.buf = 1 => f \in 0..1 /\ end \in {<<>>, <<2>>}) /\ (e # NoEffect => f = 0)
        /\ Done("slice", v, <<f, end, dst>>, e, slice(mem, v, f, end, dst, e))

Hows == {"none", "up", "down", "equal"}
CallSort ==
    \E v \in Detachable(Sample), e \in Effects, how \in Hows :
        /\ (how = "none" => e = NoEffect)
        /\ \/ Done("sort", v, <<how>>, e, sort(mem, v, how, e))
           \/ Done("toSorted", v, <<how>>, e, toSorted(mem, v, how, e))

CallCopying ==
    \E v \in Detachable(Sample), e \in Effects :
        \/ e = NoEffect /\ Done("toReversed", v, <<>>, e, toReversed(mem, v))
        \/ \E i \in Indices : \E x \in IF i = 0 THEN Vals(v.kind) ELSE FewVals(v.kind) :
             Done("with", v, <<i, x>>, e, with(mem, v, i, x, e))
        \/ \E f \in Indices, end \in OptIndices : e.at < 2 /\ Done("subarray", v, <<f, end>>, e, subarray(mem, v, f, end, e))

CallNew ==
    \E k \in AllKinds, e \in Detaching :
        \/ \E off \in OptIndices, len \in OptIndices :
             Done("fromBuffer", Undef, <<k, off, len>>, e, newTypedArray(mem, k, <<"buffer", 1>>, off, len, e))
        \/ \E src \in Detachable(Sample) : e = NoEffect /\
             Done("fromView", src, <<k>>, e, newTypedArray(mem, k, <<"view", src>>, <<>>, <<>>, e))
        \/ \E x \in Vals(k), y \in FewVals(k), f \in {"from", "of", "list"} :
             LET s == CASE f = "from" -> typedArray_from(mem, k, <<x, y>>, e) [] f = "of" -> typedArray_of(mem, k, <<x, y>>, e)
                        [] f = "list" -> newTypedArray(mem, k, <<"list", <<x, y>>>>, <<>>, <<>>, e)
             IN Done("fromList", Undef, <<k, <<x, y>>>>, e, s)
        \/ \E n \in Indices : Done("fromLength", Undef, <<k, n>>, NoEffect, newTypedArray(mem, k, <<"length", n>>, <<>>, <<>>, NoEffect))

CallVisit ==
    \E v \in {w \in Detachable({Uint8, Int16, Float32}) : w.len <= MaxVisit}, e \in Effects :
      \/ \E ans \in [1..v.len -> BOOLEAN],
            f \in {"every", "some", "find", "findIndex", "findLast", "findLastIndex", "filter"} :
           LET s == CASE f = "every" -> every(mem, v, ans, e) [] f = "some" -> some(mem, v, ans, e)
                      [] f = "find" -> find(mem, v, ans, e) [] f = "findIndex" -> findIndex(mem, v, ans, e)
                      [] f = "findLast" -> findLast(mem, v, ans, e) [] f = "findLastIndex" -> findLastIndex(mem, v, ans, e)
                      [] f = "filter" -> filter(mem, v, ans, e)
           IN Done(f, v, <<ans>>, e, s)
      \/ Done("forEach", v, <<>>, e, forEach(mem, v, e))
      \/ Done("toLocaleString", v, <<>>, e, toLocaleString(mem, v, e))
      \/ \E init \in {<<>>, <<Num(2)>>} :
            \/ Done("reduce", v, <<init>>, e, reduce(mem, v, init, e))
            \/ Done("reduceRight", v, <<init>>, e, reduceRight(mem, v, init, e))
      \/ \E out \in [1..v.len -> {Num(3), Num(99), Undef}] : Done("map", v, <<out>>, e, map(mem, v, out, e))

CallSearch ==
    \E v \in Detachable(Sample), e \in {x \in Effects : x.at < 2} :
      \/ \E x \in Vals(v.kind) \cup {Num(6)}, n \in -2..2 :
           /\ (e # NoEffect => n \in 0..1)
           /\ \/ Done("includes", v, <<x, n>>, e, includes(mem, v, x, n, e))
              \/ Done("indexOf", v, <<x, n>>, e, indexOf(mem, v, x, n, e))
              \/ Done("lastIndexOf", v, <<x, <<n>>>>, e, lastIndexOf(mem, v, x, <<n>>, e))
              \/ n = 0 /\ Done("lastIndexOf", v, <<x, <<>>>>, e, lastIndexOf(mem, v, x, <<>>, e))
      \/ \E i \in Indices : Done("at", v, <<i>>, e, at(mem, v, i, e))
      \/ Done("join", v, <<>>, e, join(mem, v, e))

CallProperty ==
    \E v \in Detachable(Sample), key \in ({"int"} \X (-1..3)) \cup {<<"num", 0>>}, e \in {x \in Effects : x.at < 2} :
      \/ \E x \in Vals(v.kind) : Done("put", v, <<key, x>>, e, setOwn(mem, v, key, x, e))
      \/ \E d \in [flagFalse : BOOLEAN, value : {<<>>, <<Num(5)>>}] :
           Done("define", v, <<key, d>>, e, defineOwnProperty(mem, v, key, d, e))

CallDataView ==
    \E off \in OptIndices, len \in OptIndices, e \in Detaching :
      LET dv == newDataView(mem, 1, off, len, e) IN
      \/ Done("newDataView", Undef, <<off, len>>, e, dv)
      \/ /\ dv.err = "" /\ e = NoEffect /\ off \in {<<>>, <<1>>} /\ len \in {<<>>, <<2>>, <<3>>}
         /\ \E k \in AllKinds, i \in Indices, little \in BOOLEAN, e2 \in Detaching :
              \E x \in IF e2 = NoEffect THEN Vals(k) \ {Undef} ELSE FewVals(k) :
                Done("dataView", dv.ret, <<k, i, x, little>>, e2, dataViewSet(mem, dv.ret, k, i, x, little, e2))

CallBuffer ==
    \/ \E f \in Indices, end \in OptIndices, e \in Detaching :
         Done("bufferSlice", Undef, <<f, end>>, e, arrayBufferSlice(mem, 1, f, end, e))
    \/ \E v \in Detachable({Uint8, Int8}) : \E text \in SeqOf({-1, 1}, 5) :
         \/ Done("setFromHex", v, text, NoEffect, setFromHex(mem, v, text))
         \/ v.len = 0 /\ Done("fromHex", Undef, text, NoEffect, fromHex(mem, text))

\* The calls of NodeBuffer work on the bytes of the first buffer.
NodeCall(op, a, r) ==
    done' = <<[op |-> op, v |-> Undef, a |-> a, e |-> NoEffect, s |-> r, before |-> mem]>> /\ mem' = mem

Offsets == {<<>>} \cup {<<i>> : i \in -1..8 \cup {MaxInt64}}

CallNode ==
    LET bb == mem[1].data IN
    \/ \E k \in AllKinds \ {Uint8Clamped}, off \in Offsets, little \in BOOLEAN :
         \E x \in {y \in Vals(k) : y # Undef /\ Convertible(y, k)} :
         LET w == IF k.conv = "big" THEN writeBig(bb, k, x, off, little)
                  ELSE IF k.conv = "float" THEN writeFloat(bb, k, x, off, little)
                  ELSE IF k.signed THEN writeInt(bb, k, x, off, little) ELSE writeUInt(bb, k, x, off, little)
         IN NodeCall("nodeWrite", <<k, off, x, little>>, w)
    \/ \E n \in 0..7, off \in Offsets \ {<<>>}, little \in BOOLEAN, signed \in BOOLEAN, x \in {Num(0), Num(-3), Num(5), Num(99)} :
         NodeCall("nodeWriteN", <<n, off, x, little, signed>>, writeIntN(bb, x, off[1], n, signed, little))
    \/ \E raw \in SeqOf({0, 3}, 3), off \in Offsets, len \in OptIndices :
         NodeCall("nodeText", <<raw, off, len>>, write(bb, raw, off, len))
    \/ \E size \in -1..5, fil \in {<<"none", 0>>, <<"num", -5>>, <<"num", 3>>} \cup ({"text"} \X SeqOf({1, 2}, 3)) :
         NodeCall("nodeAlloc", <<size, fil>>, alloc(size, fil))
    \/ \E a \in SeqOf({1, 2}, 2), b \in SeqOf({3}, 2), total \in OptIndices :
         NodeCall("nodeConcat", <<<<a, b>>, total>>, concat(<<a, b>>, total))
    \/ \E f \in -1..9, end \in OptIndices : NodeCall("nodeToString", <<f, end>>, NB(toStringRange(bb, f, end), "", Undef))

Init ==
    /\ \E c \in Contents : \/ mem = <<Buf(c), Buf(<<3, 2, 1, 0>>)>>
                           \/ mem = detach(<<Buf(c), Buf(<<3, 2, 1, 0>>)>>, 1)
    /\ done = <<>>

Next ==
    /\ done = <<>>
    /\ \/ CallSet \/ CallSetList \/ CallCopyWithin \/ CallFill \/ CallReverse \/ CallSlice \/ CallSort \/ CallCopying
       \/ CallNew \/ CallVisit \/ CallSearch \/ CallProperty \/ CallDataView \/ CallBuffer \/ CallNode

Spec == Init /\ [][Next]_vars

---------------------------------------------------------------------------
(* What a call stands for.  The memory a call works on is the memory       *)
(* before it, changed by the user code that ran during it.                 *)

Fired(d) == d.e.at > 0 /\ d.s.n >= d.e.at
World(d) == IF ~Fired(d) THEN d.before ELSE IF d.e.do = "detach" THEN detach(d.before, 1) ELSE Write0(d.before, 1)
Gone(d) == World(d)[1].detached
Poked(m, v, i, raws) ==          \* the memory m with the elements of v from i on replaced
    [m EXCEPT ![v.buf].data = Poke(@, (v.off + i) * v.kind.size, FlattenSeq([j \in DOMAIN raws |-> Digits(raws[j], v.kind.size)]))]
Raws(m, v) == [i \in 1..v.len |-> getRaw(m, v, i - 1)]
ArrayRaws(a) == [i \in 1..(Len(a.data) \div a.kind.size) |-> RawOf(SubSeq(a.data, (i - 1) * a.kind.size + 1, i * a.kind.size))]
Converted(vals, k) == [i \in DOMAIN vals |-> Bits(vals[i], k)]
Fits(m, w) == (w.off + w.len) * w.kind.size <= Len(m[w.buf].data)
Outside(v, data) == [i \in {j \in DOMAIN data : j <= v.off * v.kind.size \/ j > (v.off + v.len) * v.kind.size} |-> data[i]]

Node == {"nodeWrite", "nodeWriteN", "nodeText", "nodeAlloc", "nodeConcat", "nodeToString"}
InPlace == {"set", "setList", "fill", "reverse", "sort", "put", "define", "setFromHex", "copyWithin"}
\* copyWithin limits its source to the array, and its destination only to the buffer.
Spills(d) == d.op = "copyWithin" /\ relToIdx(d.a[1], d.v.len) + relArg(d.a[3], d.v.len) - relToIdx(d.a[2], d.v.len) > d.v.len
\* The three ways of this code to end in a Go panic: the address of an element of an empty rest of a buffer, a
\* descriptor without a value, an offset or a length of the Node Buffer that is not in range.
KnownPanic(d) ==
    \/ d.op = "set" /\ (d.a[1].len = 0 \/ d.v.len = d.a[2])
    \/ d.op = "define" /\ d.a[2].value = <<>>
    \/ d.op \in {"nodeWrite", "nodeWriteN"} /\ d.a[2] = <<MaxInt64>>
    \/ d.op = "nodeText" /\ d.a[3] # <<>> /\ d.a[3][1] < 0

\* No call follows a pointer out of a live buffer, whatever user code detaches in the middle of it; none writes outside
\* its view, makes a view that does not fit, or ends in a Go panic, but in the ways that are listed.
Contained ==
    done # <<>> => LET d == done[1] IN
        /\ d.s.err = "panic" => KnownPanic(d)
        /\ d.op \notin Node => ~d.s.wild
        /\ d.op \in InPlace /\ ~Spills(d) /\ ~mem[1].detached
             => Outside(d.v, mem[1].data) = Outside(d.v, World(d)[1].data) /\ mem[2] = d.before[2]
        /\ d.op \in {"subarray", "fromBuffer"} /\ d.s.err = "" => Fits(mem, d.s.ret)
        /\ d.op = "newDataView" /\ d.s.err = "" => d.s.ret.off + d.s.ret.len <= Len(mem[1].data)
        /\ d.op = "dataView" => d.s.err \in {"", "RangeError", "TypeError"}

\* Buffer.alloc with a text to fill with returns: an empty text is treated as a zero.
AllocReturns == done # <<>> => (done[1].op = "nodeAlloc" => done[1].s.err # "hang")

\* a sort: the order of the elements, ties in the order they had
SortedBy(before, after, k, how) ==
    LET n == Len(before)
        x(i) == valueOf(before[i], k)
        precedes(i, j) == IF how = "down" THEN less(x(j), x(i)) ELSE how # "equal" /\ less(x(i), x(j))
    IN \E p \in Permutations(1..n) :
         /\ \A i \in 1..n : after[i] = before[p[i]]
         /\ \A i, j \in 1..n : i < j => ~precedes(p[j], p[i]) /\ (~precedes(p[i], p[j]) => p[i] < p[j])

Stored(d) == [i \in DOMAIN d.a[1] |-> Bits(d.a[1][i], d.v.kind)]
Bad(vals, k) == {i \in DOMAIN vals : ~Convertible(vals[i], k)}

SetAgrees(d) ==
    LET src == d.a[1]
        vals == Elements(d.before, src)
    IN  d.s.err = "" => mem = Poked(d.before, d.v, d.a[2], IF src.kind = d.v.kind THEN Raws(d.before, src) ELSE Converted(vals, d.v.kind))
SetListAgrees(d) ==
    LET bad == Bad(d.a[1], d.v.kind)
        n == IF bad = {} THEN Len(d.a[1]) ELSE Min(bad) - 1
    IN /\ d.s.err = "" /\ ~Gone(d) => bad = {} /\ mem = Poked(d.before, d.v, d.a[2], Stored(d))
       /\ d.s.err = "TypeError" /\ ~Gone(d) => bad # {} /\ mem = Poked(d.before, d.v, d.a[2], Converted(SubSeq(d.a[1], 1, n), d.v.kind))
CopyWithinAgrees(d) ==
    LET from == relToIdx(d.a[2], d.v.len)
        to == relToIdx(d.a[1], d.v.len)
        n == Least(relArg(d.a[3], d.v.len) - from, d.v.len - to)
    IN d.s.err = "" /\ ~Gone(d) => Raws(mem, d.v) = Raws(Poked(World(d), d.v, to, SubSeq(Raws(World(d), d.v), from + 1, from + n)), d.v)
\* A negative BigInt loses its sign where fill and the searches of a BigInt64Array convert it.
SignLost(x, k) == k = BigInt64 /\ Convertible(x, k) /\ Signed(Bits(x, k), k) < 0
FillAgrees(d) ==
    LET from == relToIdx(d.a[2], d.v.len)
        to == relArg(d.a[3], d.v.len)
    IN d.s.err = "" /\ ~SignLost(d.a[1], d.v.kind) => mem = Poked(World(d), d.v, from, [i \in 1..(to - from) |-> Bits(d.a[1], d.v.kind)])
SliceAgrees(d) ==
    LET dst == d.a[3]
        z == d.v.kind.size
        from == relToIdx(d.a[1], d.v.len)
        n == relArg(d.a[2], d.v.len) - from
        w == World(d)
        sp == (d.v.off + from) * z
        dp == dst.off * z
        byte(i) == w[d.v.buf].data[sp + 1 + (IF dst.buf = d.v.buf /\ dp > sp THEN i % (dp - sp) ELSE i)]
        apart == dst.buf # d.v.buf \/ (dst.off + n) * dst.kind.size <= sp \/ sp + n * z <= dst.off * dst.kind.size
    IN d.s.err = "" /\ n > 0 =>
         /\ dst.kind = d.v.kind => mem[dst.buf].data = Poke(w[dst.buf].data, dp, [i \in 1..(n * z) |-> byte(i - 1)])
         /\ apart /\ dst.kind # d.v.kind
              => mem = Poked(w, dst, 0, Converted(SubSeq(Elements(w, d.v), from + 1, from + n), dst.kind))
HexAgrees(d) ==
    LET n == Len(d.a) \div 2
        byte(i) == (2 * d.a[2 * i - 1] + d.a[2 * i]) % Base
    IN IF d.op = "fromHex" THEN d.s.err = "" => d.s.ret.data = [i \in 1..n |-> byte(i)] /\ -1 \notin ToSet(d.a)
       ELSE d.s.err = "" => LET k == Least(n, d.v.len) IN d.s.ret = <<2 * k, k>> /\ mem = Poked(d.before, d.v, 0, [i \in 1..k |-> byte(i)])

\* Methods that move or build elements have the effect of doing it all at once on a snapshot: overlapping ranges, other
\* element types, conversions that fail half way and buffers that go away included.
MovesAgree ==
    done # <<>> => LET d == done[1] IN
      CASE d.op = "set" -> SetAgrees(d)
        [] d.op = "setList" -> SetListAgrees(d)
        [] d.op = "copyWithin" -> CopyWithinAgrees(d)
        [] d.op = "fill" -> FillAgrees(d)
        [] d.op = "slice" -> SliceAgrees(d)
        [] d.op = "reverse" -> d.s.err = "" => mem = Poked(d.before, d.v, 0, Reverse(Raws(d.before, d.v)))
        [] d.op = "sort" -> d.s.err = "" /\ ~Fired(d) => SortedBy(Raws(d.before, d.v), Raws(mem, d.v), d.v.kind, d.a[1])
        [] d.op = "toSorted" -> d.s.err = "" => SortedBy(Raws(d.before, d.v), ArrayRaws(d.s.ret), d.v.kind, d.a[1]) /\ mem = World(d)
        [] d.op = "toReversed" -> d.s.err = "" => Converted(Reverse(Elements(d.before, d.v)), d.v.kind) = ArrayRaws(d.s.ret)
        [] d.op = "with" -> d.s.err = "" => LET i == IF d.a[1] < 0 THEN d.a[1] + d.v.len ELSE d.a[1] IN
               ArrayRaws(d.s.ret) = [Raws(World(d), d.v) EXCEPT ![i + 1] = Bits(d.a[2], d.v.kind)]
        [] d.op = "subarray" -> d.s.err = "" => LET b == relToIdx(d.a[1], d.v.len) IN
               d.s.ret.len > 0 => Elements(mem, d.s.ret) = SubSeq(Elements(World(d), d.v), b + 1, relArg(d.a[2], d.v.len))
        [] d.op = "fromView" -> d.s.err = "" => ArrayRaws(d.s.ret) =
               IF d.v.kind = d.a[1] THEN Raws(d.before, d.v) ELSE Converted(Elements(d.before, d.v), d.a[1])
        [] d.op = "fromList" -> IF Bad(d.a[2], d.a[1]) = {} THEN ArrayRaws(d.s.ret) = Converted(d.a[2], d.a[1]) ELSE d.s.err = "TypeError"
        [] d.op = "bufferSlice" -> d.s.err = "" /\ ~d.before[1].detached => LET c == World(d)[1].data IN
               d.s.ret # <<>> => d.s.ret = SubSeq(c, relToIdx(d.a[1], Len(c)) + 1, relArg(d.a[2], Len(c)))
        [] d.op \in {"fromHex", "setFromHex"} -> HexAgrees(d)
        [] d.op = "put" -> d.s.err = "" => mem = IF hasProperty(World(d), d.v, d.a[1])
               THEN Poked(World(d), d.v, d.a[1][2], <<Bits(d.a[2], d.v.kind)>>) ELSE World(d)
        [] d.op = "nodeConcat" -> LET all == d.a[1][1] \o d.a[1][2] IN d.s.err = "" =>
               \A i \in DOMAIN d.s.bb : d.s.bb[i] = IF i <= Len(all) THEN all[i] ELSE 0
        [] OTHER -> TRUE

---------------------------------------------------------------------------
Visits == {"every", "some", "find", "findIndex", "findLast", "findLastIndex", "filter", "forEach", "map", "reduce", "reduceRight"}
\* the element the n-th callback must see: the one of that moment, and undefined once the buffer is gone
SeenAt(d, n, k) == LET m == IF d.e.at > 0 /\ n > d.e.at THEN World(d) ELSE d.before IN
                   IF m[1].detached THEN Undef ELSE get(m, d.v, k)
Backwards(d) == d.op \in {"findLast", "findLastIndex", "reduceRight"}
VisitAgrees(d) ==
    LET skip == IF d.op \in {"reduce", "reduceRight"} /\ d.a[1] = <<>> THEN 1 ELSE 0
        idx(n) == IF Backwards(d) THEN d.v.len - n - skip ELSE n - 1 + skip
        stop == CASE d.op = "every" -> {FALSE} [] d.op \in {"some", "find", "findIndex", "findLast", "findLastIndex"} -> {TRUE} [] OTHER -> {}
        hits == {n \in 1..d.v.len : stop # {} /\ d.a[1][n] \in stop}
        calls == IF hits = {} THEN d.v.len - skip ELSE Min(hits)
    IN d.s.err = "" =>
        /\ Len(d.s.seen) = calls
        /\ \A n \in 1..calls : d.s.seen[n][1] = SeenAt(d, n, idx(n)) /\ d.s.seen[n][2] = idx(n)
        /\ CASE d.op = "every" -> d.s.ret = (hits = {})
             [] d.op = "some" -> d.s.ret = (hits # {})
             [] d.op \in {"findIndex", "findLastIndex"} -> d.s.ret = IF hits = {} THEN -1 ELSE idx(calls)
             [] d.op \in {"find", "findLast"} -> d.s.ret = IF hits = {} THEN Undef ELSE SeenAt(d, calls, idx(calls))
             [] d.op = "map" -> ArrayRaws(d.s.ret) = Converted(d.a[1], d.v.kind)
             [] d.op = "filter" -> Len(ArrayRaws(d.s.ret)) = Cardinality({n \in 1..d.v.len : d.a[1][n]})
             [] OTHER -> TRUE

SameValueZero(x, y) == x = y \/ {x, y} = {Num(0), NegZero}
\* Elements are compared as bit patterns: a zero does not find -0, two NaNs may differ, what is looked for in a
\* Float32Array is rounded before it is compared, and a BigInt is cut to 64 bits, without its sign in a BigInt64Array.
BitPatterns(d) ==
    LET x == d.a[1]
        k == d.v.kind
    IN  \/ k.conv = "float" /\ \E i \in 1..d.v.len : get(World(d), d.v, i - 1) \in {NegZero, NaN}
        \/ k = Float32 /\ x[1] = "num" /\ FloatOf(FloatBits(x, k), k) # x
        \/ k.conv = "big" /\ x[1] = "big" /\ valueOf(toRaw(x, k), k) # x
SearchAgrees(d) ==
    LET n == d.v.len
        eq == {k \in 0..(n - 1) : ~Gone(d) /\ SameValueZero(get(World(d), d.v, k), d.a[1])}
        from == relToIdx(d.a[2], n)
        upto == IF d.a[2] = <<>> THEN n - 1 ELSE IF d.a[2][1] < 0 THEN n + d.a[2][1] ELSE d.a[2][1]
        right == {k \in eq : k >= from}
        left == {k \in eq : k <= upto}
    IN d.s.err = "" /\ (Gone(d) \/ ~BitPatterns(d)) =>
        CASE d.op = "includes" -> d.s.ret = (right # {} \/ (Gone(d) /\ n > 0 /\ from < n /\ d.a[1] = Undef))
          [] d.op = "indexOf" -> d.s.ret = IF d.a[1] = NaN \/ right = {} THEN -1 ELSE Min(right)
          [] d.op = "lastIndexOf" -> d.s.ret = IF d.a[1] = NaN \/ left = {} THEN -1 ELSE Max(left)

\* A callback sees each element as it is when it is called, undefined once the buffer is gone, and no more of them than
\* the method needs; a search finds the elements that are equal to the value, not those it would be converted to.
ReadsAgree ==
    done # <<>> => LET d == done[1] IN
      CASE d.op \in Visits -> VisitAgrees(d)
        [] d.op \in {"includes", "indexOf", "lastIndexOf"} -> SearchAgrees(d)
        [] d.op = "at" -> d.s.err = "" => d.s.ret = getIdx(World(d), d.v, <<"int", IF d.a[1] < 0 THEN d.v.len + d.a[1] ELSE d.a[1]>>)
        [] d.op = "join" -> d.s.err = "" => \A i \in 1..d.v.len : d.s.ret[i] = getIdx(World(d), d.v, <<"int", stringKeys(d.v)[i]>>)
        [] d.op = "toLocaleString" -> \A n \in DOMAIN d.s.seen : d.s.seen[n] = SeenAt(d, n, n - 1)
        [] d.op = "put" -> ~deleteOwn(mem, d.v, d.a[1]) => d.a[1][2] < Geometry(mem, d.v).length
        [] d.op = "bufferSlice" -> d.s.err = "" => Len(d.s.ret) <= byteLength(d.before, 1)
        [] OTHER -> TRUE

---------------------------------------------------------------------------
ReadNode(bb, k, little, off) ==
    IF k.conv \in {"big", "float"} THEN readBigOrFloat(bb, k, little, off)
    ELSE IF k.signed THEN readInt(bb, k, little, off) ELSE readUInt(bb, k, little, off)

Backward(raw, n) == RawOf(Reverse(Digits(raw, n)))
Untouched(old, new, pos, n) == \A i \in DOMAIN old : i <= pos \/ i > pos + n => new[i] = old[i]

DataViewAgrees(d) ==
    LET k == d.a[1]
        i == d.a[2]
        raw == Bits(d.a[3], k)
        pos == d.v.off + i
    IN /\ d.s.err = "RangeError" <=> i < 0 \/ (Convertible(d.a[3], k) /\ ~Gone(d) /\ i + k.size > d.v.len)
       /\ d.s.err = "" =>
            /\ dataViewGet(mem, d.v, k, i, d.a[4], NoEffect).ret = valueOf(raw, k)
            /\ dataViewGet(mem, d.v, k, i, ~d.a[4], NoEffect).ret = valueOf(Backward(raw, k.size), k)
            /\ d.a[4] /\ pos % k.size = 0 => get(mem, View(k, 1, pos \div k.size, 1), 0) = valueOf(raw, k)
            /\ Untouched(d.before[1].data, mem[1].data, pos, k.size)

NodeAgrees(d) ==
    LET k == d.a[1]
        off == IF d.a[2] = <<>> THEN 0 ELSE d.a[2][1]
        dv == [buf |-> 1, off |-> 0, len |-> Len(d.s.bb)]
        m == <<Buf(d.s.bb)>>
    IN d.s.err = "" /\ ~(k = BigUint64 /\ d.a[3][2] < 0) =>
        /\ off >= 0 /\ off + k.size <= Len(d.before[1].data)
        /\ ReadNode(d.s.bb, k, d.a[4], d.a[2]).ret = dataViewGet(m, dv, k, off, d.a[4], NoEffect).ret
        /\ ReadNode(d.s.bb, k, d.a[4], d.a[2]).ret = valueOf(Bits(d.a[3], k), k)
        /\ ReadNode(d.s.bb, k, ~d.a[4], d.a[2]).ret = valueOf(Backward(Bits(d.a[3], k), k.size), k)
        /\ d.s.ret = Num(2 * (off + k.size)) /\ Untouched(d.before[1].data, d.s.bb, off, k.size)

NodeNAgrees(d) ==
    LET n == d.a[1]
        o == d.a[2][1]
        read(little) == IF d.a[5] THEN readIntN(d.s.bb, o, n, little) ELSE readUIntN(d.s.bb, o, n, little)
        v == Quot(d.a[3][2], 2)
        raw == v % Base ^ n
    IN d.s.err = "" => /\ read(d.a[4]).ret = Num(2 * v)
                       /\ read(~d.a[4]).ret = Num(2 * Signed(Backward(raw, n), IntKind(n, d.a[5])))
                       /\ Untouched(d.before[1].data, d.s.bb, o, n)

\* What DataView and the Node Buffer write at a position is what both of them and an aligned typed array read back
\* there, reversed in the other byte order; bytes beside it stay, and out of range means a RangeError.  (A negative BigInt
\* written as an unsigned one by the Node Buffer is not refused, and loses its sign.)
RoundTrip ==
    done # <<>> => LET d == done[1] IN
      CASE d.op = "dataView" -> DataViewAgrees(d)
        [] d.op = "nodeWrite" -> NodeAgrees(d)
        [] d.op = "nodeWriteN" -> NodeNAgrees(d)
        [] d.op = "nodeText" -> d.s.err = "" => LET o == IF d.a[2] = <<>> THEN 0 ELSE d.a[2][1] IN
               toStringRange(d.s.bb, o, <<o + d.s.ret[2] \div 2>>) = SubSeq(d.a[1], 1, d.s.ret[2] \div 2)
        [] OTHER -> TRUE

\* What is read is what is there: ReadsAgree and RoundTrip.
ValuesRead == ReadsAgree /\ RoundTrip
=============================================================================
