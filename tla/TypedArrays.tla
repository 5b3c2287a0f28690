---------------------------- MODULE TypedArrays ----------------------------
(***************************************************************************)
(* ArrayBuffer, DataView and the typed arrays (typedarrays.go,             *)
(* builtin_typedarrays.go).  A view reaches the bytes of its buffer with   *)
(* unchecked pointers, so every method has to look whether the buffer is   *)
(* still attached after each call of user code: the conversion of an       *)
(* argument, a callback, a comparison.  An effect says at which of these   *)
(* calls the host detaches a buffer or a script writes to it.              *)
(* Bytes are digits in base Base (256 in the code); numbers are counted in *)
(* halves, so that they have a fraction.                                   *)
(***************************************************************************)
EXTENDS Integers, Sequences, FiniteSets, SequencesExt, FiniteSetsExt

CONSTANT Base        \* 256 in the code: values of a byte

ASSUME BaseEven == Base \in Nat /\ Base > 1 /\ Base % 2 = 0

Num(h) == <<"num", h>>            \* the number h/2
NaN == <<"nan", 0>>
NegZero == <<"nz", 0>>
Undef == <<"u", 0>>
Big(n) == <<"big", n>>

---------------------------------------------------------------------------
(* Element types.                                                          *)

Kind(name, size, signed, conv) == [name |-> name, size |-> size, signed |-> signed, conv |-> conv]

\* [typedarrays.go uint8Array.toRaw..uint8Array.exportType]
Uint8 == Kind("Uint8", 1, FALSE, "wrap")
\* [typedarrays.go uint8ClampedArray.toRaw..uint8ClampedArray.exportType]
Uint8Clamped == Kind("Uint8Clamped", 1, FALSE, "clamp")
\* [typedarrays.go int8Array.toRaw..int8Array.exportType]
Int8 == Kind("Int8", 1, TRUE, "wrap")
\* [typedarrays.go uint16Array.toRaw..uint16Array.exportType]
Uint16 == Kind("Uint16", 2, FALSE, "wrap")
\* [typedarrays.go int16Array.toRaw..int16Array.exportType]
Int16 == Kind("Int16", 2, TRUE, "wrap")
\* [typedarrays.go uint32Array.toRaw..uint32Array.exportType]
Uint32 == Kind("Uint32", 4, FALSE, "wrap")
\* [typedarrays.go int32Array.toRaw..int32Array.exportType]
Int32 == Kind("Int32", 4, TRUE, "wrap")
\* [typedarrays.go float32Array.toRaw..float32Array.exportType]
Float32 == Kind("Float32", 4, TRUE, "float")
\* [typedarrays.go float64Array.toRaw..float64Array.exportType]
Float64 == Kind("Float64", 8, TRUE, "float")
\* [typedarrays.go bigInt64Array.toRaw..bigInt64Array.exportType]
BigInt64 == Kind("BigInt64", 8, TRUE, "big")
\* [typedarrays.go bigUint64Array.toRaw..bigUint64Array.exportType]
BigUint64 == Kind("BigUint64", 8, FALSE, "big")

\* [typedarrays.go newUint8ArrayObject..newBigUint64ArrayObject] the constructors
AllKinds == {Uint8, Uint8Clamped, Int8, Uint16, Int16, Uint32, Int32, Float32, Float64, BigInt64, BigUint64}

Range0(k) == Base ^ k.size                     \* how many bit patterns an element has

Quot(a, b) ==                                  \* integer division of Go, towards zero
    IF (a >= 0) = (b > 0) THEN (IF a >= 0 THEN a ELSE -a) \div (IF b > 0 THEN b ELSE -b)
    ELSE -((IF a >= 0 THEN a ELSE -a) \div (IF b > 0 THEN b ELSE -b))

\* [runtime.go toInt8..toUint8] and the other widths: truncation, then the low bits
Wrap(v, k) == IF v[1] = "num" THEN Quot(v[2], 2) % Range0(k) ELSE 0

\* [runtime.go toUint8Clamp] halves go to the even neighbour
toUint8Clamp(v) ==
    LET f == v[2] \div 2 IN
    IF v[1] # "num" \/ v[2] < 0 THEN 0
    ELSE IF v[2] > 2 * (Base - 1) THEN Base - 1
    ELSE IF v[2] % 2 = 0 \/ f % 2 = 0 THEN f ELSE f + 1

\* [runtime.go toFloat32] A toy format: 0 and 1 are the zeros, 2 and 3 are NaNs, then come the
\* magnitudes with their signs; Float32 holds whole numbers only, the largest stands for infinity.
FloatBits(v, k) ==
    LET mag  == IF v[2] >= 0 THEN v[2] ELSE -v[2]
        m    == IF k = Float32 THEN mag \div 2 ELSE mag
        top  == (Range0(k) - 4) \div 2
    IN  IF v[1] = "nz" THEN 1 ELSE IF v[1] # "num" THEN 2
        ELSE IF m = 0 THEN IF v[2] < 0 THEN 1 ELSE 0
        ELSE 2 + 2 * (IF m > top THEN top ELSE m) + (IF v[2] < 0 THEN 1 ELSE 0)

FloatOf(raw, k) ==
    LET m == ((raw - 2) \div 2) * (IF k = Float32 THEN 2 ELSE 1) IN
    IF raw = 0 THEN Num(0) ELSE IF raw = 1 THEN NegZero ELSE IF raw < 4 THEN NaN
    ELSE Num(IF raw % 2 = 0 THEN m ELSE -m)

\* a BigInt where a number is wanted, or the reverse, throws
Convertible(v, k) == (k.conv = "big") = (v[1] = "big")

\* [typedarrays.go toBigInt64..bigInt64Array.set] with set of the other element types: the bits an assignment stores
Bits(v, k) ==
    IF k.conv = "wrap" THEN Wrap(v, k)
    ELSE IF k.conv = "clamp" THEN toUint8Clamp(v)
    ELSE IF k.conv = "float" THEN FloatBits(v, k)
    ELSE v[2] % Range0(k)

Signed(raw, k) == IF k.signed /\ 2 * raw >= Range0(k) THEN raw - Range0(k) ELSE raw

\* [typedarrays.go bigInt64Array.toRaw] with toRaw of the other element types: those bits, but big.Int.Uint64 drops the
\* sign of a negative element of a BigInt64Array.
toRaw(v, k) == LET n == Signed(Bits(v, k), k) IN IF k = BigInt64 /\ n < 0 THEN -n ELSE Bits(v, k)

\* [typedarrays.go bigInt64Array.get] and get of the other element types, after the load
valueOf(raw, k) ==
    IF k.conv = "float" THEN FloatOf(raw, k)
    ELSE IF k.conv = "big" THEN Big(Signed(raw, k)) ELSE Num(2 * Signed(raw, k))

\* [typedarrays.go uint8Array.typeMatch] the integers an element type can hold, any number for the floats
typeMatch(v, k) ==
    IF k.conv = "big" THEN v[1] = "big"
    ELSE IF k.conv = "float" THEN v[1] \in {"num", "nan", "nz"}
    ELSE v[1] = "num" /\ v[2] % 2 = 0 /\ valueOf(v[2] \div 2 % Range0(k), k) = v

\* [typedarrays.go typedFloatLess] NaN last, -0 before 0
typedFloatLess(x, y) ==
    IF y = NaN THEN x # NaN ELSE IF x = NaN THEN FALSE
    ELSE IF x = NegZero /\ y = Num(0) THEN TRUE ELSE x[2] < y[2]

\* [typedarrays.go uint8Array.less]
less(x, y) == IF x[1] = "big" THEN x[2] < y[2] ELSE typedFloatLess(x, y)

Digits(raw, n) == [i \in 1..n |-> (raw \div Base ^ (i - 1)) % Base]          \* little endian
RawOf(bytes) == FoldFunction(+, 0, [i \in DOMAIN bytes |-> bytes[i] * Base ^ (i - 1)])

---------------------------------------------------------------------------
(* Memory.  A call carries the memory, the error it ends in ("panic" is a  *)
(* Go panic no script can catch), whether it has followed a pointer out of *)
(* an attached buffer, and the calls of user code so far.                  *)

Buf(data) == [data |-> data, detached |-> FALSE]
View(k, b, off, len) == [kind |-> k, buf |-> b, off |-> off, len |-> len]

Begin(m) == [m |-> m, err |-> "", wild |-> FALSE, seen |-> <<>>, n |-> 0, ret |-> Undef]
Fail(s, e) == [s EXCEPT !.err = e]
Return(s, r) == [s EXCEPT !.ret = r]

NoEffect == [at |-> 0, do |-> "none", buf |-> 1]

\* [typedarrays.go detach] and [typedarrays.go Detach]
detach(m, b) == [m EXCEPT ![b] = [data |-> <<>>, detached |-> TRUE]]

Write0(m, b) == IF m[b].data = <<>> THEN m ELSE [m EXCEPT ![b].data[1] = (@ + 1) % Base]

User(s, e) ==
    IF e = NoEffect THEN s ELSE
    [s EXCEPT !.n = @ + 1,
              !.m = IF s.n + 1 # e.at THEN @
                    ELSE IF e.do = "detach" THEN detach(@, e.buf) ELSE Write0(@, e.buf)]

\* [typedarrays.go ensureNotDetached]
attached(s, b) == ~s.m[b].detached

Within(m, v, k) == v.off + k >= 0 /\ (v.off + k + 1) * v.kind.size <= Len(m[v.buf].data)
Touch(s, v, k) == [s EXCEPT !.wild = @ \/ ~Within(s.m, v, k)]

ElemBytes(m, v, k) == SubSeq(m[v.buf].data, (v.off + k) * v.kind.size + 1, (v.off + k + 1) * v.kind.size)
\* [typedarrays.go uint8Array.getRaw]
getRaw(m, v, k) == RawOf(ElemBytes(m, v, k))

\* [typedarrays.go uint8Array.get] a wild read gives nothing meaningful
get(m, v, k) == IF Within(m, v, k) THEN valueOf(getRaw(m, v, k), v.kind) ELSE NaN

Poke(data, pos, bytes) ==
    [i \in DOMAIN data |-> IF i > pos /\ i <= pos + Len(bytes) THEN bytes[i - pos] ELSE data[i]]

\* [typedarrays.go uint8Array.setRaw]
setRaw(s, v, k, raw) ==
    IF ~Within(s.m, v, k) THEN Touch(s, v, k)
    ELSE [s EXCEPT !.m[v.buf].data = Poke(@, (v.off + k) * v.kind.size, Digits(raw, v.kind.size))]

\* [typedarrays.go uint8Array.set] The pointer is taken before the value is converted: a buffer detached by the conversion is no
\* longer seen by anyone.
set(s, v, k, val, e) ==
    LET t == Touch(s, v, k)
        u == User(t, e)
    IN  IF s.err # "" THEN s ELSE IF ~Convertible(val, v.kind) THEN Fail(u, "TypeError")
        ELSE IF attached(t, v.buf) /\ ~attached(u, v.buf) THEN u
        ELSE setRaw(u, v, k, Bits(val, v.kind))

\* [typedarrays.go isValidIntegerIndex]
isValidIntegerIndex(s, v, k) == attached(s, v.buf) /\ k >= 0 /\ k < v.len

\* [typedarrays.go uint8Array.swap]
Swap(s, v, i, j) ==
    LET a == getRaw(s.m, v, i)
        b == getRaw(s.m, v, j)
    IN  IF ~Within(s.m, v, i) \/ ~Within(s.m, v, j) THEN [s EXCEPT !.wild = TRUE]
        ELSE setRaw(setRaw(s, v, i, b), v, j, a)

Least(a, b) == IF a < b THEN a ELSE b

\* copy of Go between slices of two buffers, which moves overlapping bytes correctly
Copy(s, db, dpos, sb, spos, n) ==
    LET k == Least(n, Len(s.m[db].data) - dpos)
    IN [s EXCEPT !.m[db].data = Poke(@, dpos, SubSeq(s.m[sb].data, spos + 1, spos + k))]

\* [builtin_array.go relToIdx]
relToIdx(rel, l) == IF rel >= 0 THEN Least(rel, l) ELSE IF l + rel > 0 THEN l + rel ELSE 0

\* an optional argument is a sequence of at most one integer
relArg(arg, l) == IF arg = <<>> THEN l ELSE relToIdx(arg[1], l)

Elements(m, v) == [k \in 1..v.len |-> get(m, v, k - 1)]

---------------------------------------------------------------------------
(* Properties of a typed array.  A key is an integer or, "num", another    *)
(* string that is the name of a number.                                    *)

\* [typedarrays.go _getIdx..getIdx]
getIdx(m, v, key) ==
    IF key[1] = "int" /\ 0 <= key[2] /\ key[2] < v.len /\ ~m[v.buf].detached THEN get(m, v, key[2]) ELSE Undef

\* [typedarrays.go hasOwnPropertyStr..hasPropertyIdx]
hasProperty(m, v, key) == key[1] = "int" /\ isValidIntegerIndex(Begin(m), v, key[2])

\* [typedarrays.go _putIdx] the value is converted before the index is looked at.
putIdx(s, v, k, val, e) ==
    LET u == User(s, e) IN
    IF ~Convertible(val, v.kind) THEN Fail(u, "TypeError")
    ELSE IF isValidIntegerIndex(u, v, k) THEN set(u, v, k, val, NoEffect) ELSE u

\* [typedarrays.go setOwnStr..setOwnIdx]
setOwn(m, v, key, val, e) ==
    IF key[1] = "int" THEN putIdx(Begin(m), v, key[2], val, e) ELSE User(Begin(m), e)

\* [typedarrays.go _defineIdxProperty..defineOwnPropertyIdx] d: what the descriptor gives, with value "none"
\* or one, and whether a flag in it is false.
defineOwnProperty(m, v, key, d, e) ==
    LET s == Begin(m) IN
    IF key[1] = "num" \/ d.flagFalse \/ ~isValidIntegerIndex(s, v, key[2]) THEN Return(s, FALSE)
    ELSE IF d.value = <<>> THEN Fail(s, "panic")
    ELSE Return(putIdx(s, v, key[2], d.value[1], e), TRUE)

\* [typedarrays.go deleteStr..deleteIdx]
deleteOwn(m, v, key) == ~hasProperty(m, v, key)

\* [typedarrays.go stringKeys..iterateStringKeys] the indices, of a detached array too
stringKeys(v) == [i \in 1..v.len |-> i - 1]

---------------------------------------------------------------------------
(* Constructors.  A new array is a record with its kind and its bytes.     *)

Fresh(k, n) == [kind |-> k, data |-> [i \in 1..(n * k.size) |-> 0]]
FreshView(a) == View(a.kind, 1, 0, Len(a.data) \div a.kind.size)

\* stores the values one by one into a fresh array that only this call knows
FillFresh(s, k, vals, e) ==
    LET a   == Fresh(k, Len(vals))
        t   == FoldLeft(LAMBDA acc, i :
                   LET u == User(acc, e) IN
                   IF acc.err # "" THEN acc
                   ELSE IF ~Convertible(vals[i], k) THEN Fail(u, "TypeError")
                   ELSE [u EXCEPT !.seen = Append(@, Bits(vals[i], k))],
                   s, [i \in DOMAIN vals |-> i])
    IN IF t.err # "" THEN t
       ELSE Return([t EXCEPT !.seen = <<>>],
                   [a EXCEPT !.data = FlattenSeq([i \in DOMAIN vals |-> Digits(t.seen[i], k.size)])])

\* [builtin_typedarrays.go:1315-1362 typedArray_from] of a list of values
typedArray_from(m, k, vals, e) == FillFresh(Begin(m), k, vals, e)

\* [builtin_typedarrays.go typedArray_of]
typedArray_of(m, k, vals, e) == FillFresh(Begin(m), k, vals, e)

\* [builtin_typedarrays.go typedArrayFrom]
typedArrayFrom(m, k, vals, e) == FillFresh(Begin(m), k, vals, e)

\* [builtin_typedarrays.go _newTypedArrayFromArrayBuffer] offset and length are converted first, and may detach.
newFromArrayBuffer(m, k, b, off, len, e) ==
    LET s1 == IF off = <<>> THEN Begin(m) ELSE User(Begin(m), e)
        o  == IF off = <<>> THEN 0 ELSE off[1]
        s2 == IF len = <<>> THEN s1 ELSE User(s1, e)
        n  == Len(s2.m[b].data)
        l  == IF len = <<>> THEN Quot(n - o, k.size) ELSE len[1]
    IN  IF o < 0 THEN Fail(s1, "RangeError")
        ELSE IF o % k.size # 0 THEN Fail(s1, "RangeError")
        ELSE IF len # <<>> /\ len[1] < 0 THEN Fail(s2, "RangeError")
        ELSE IF ~attached(s2, b) THEN Fail(s2, "TypeError")
        ELSE IF IF len = <<>> THEN n % k.size # 0 \/ l < 0 ELSE o + l * k.size > n THEN Fail(s2, "RangeError")
        ELSE Return(s2, View(k, b, o \div k.size, l))

\* [builtin_typedarrays.go checkTypedArrayMixBigInt] only one of the two mixtures is refused here.
MixRefused(src, dst) == src.conv = "big" /\ dst.conv # "big"

\* [builtin_typedarrays.go _newTypedArrayFromTypedArray]
newFromTypedArray(m, k, src) ==
    LET s == Begin(m)
        a == Fresh(k, src.len)
    IN  IF ~attached(s, src.buf) THEN Fail(s, "TypeError")
        ELSE IF src.kind = k
        THEN Return(s, [a EXCEPT !.data = SubSeq(m[src.buf].data, src.off * k.size + 1, (src.off + src.len) * k.size)])
        ELSE IF MixRefused(src.kind, k) THEN Fail(s, "TypeError")
        ELSE FillFresh(s, k, Elements(m, src), NoEffect)

\* [builtin_typedarrays.go _newTypedArray] by the type of its first argument
newTypedArray(m, k, arg, off, len, e) ==
    CASE arg[1] = "buffer" -> newFromArrayBuffer(m, k, arg[2], off, len, e)
      [] arg[1] = "view" -> newFromTypedArray(m, k, arg[2])
      [] arg[1] = "list" -> typedArrayFrom(m, k, arg[2], e)
      [] arg[1] = "length" -> IF arg[2] < 0 THEN Fail(Begin(m), "RangeError") ELSE Return(Begin(m), Fresh(k, arg[2]))

---------------------------------------------------------------------------
(* Methods that move elements.                                             *)

\* [builtin_typedarrays.go typedArrayProto_copyWithin]
copyWithin(m, v, target, start, end, e) ==
    LET s0 == Begin(m)
        s1 == User(User(s0, e), e)
        s  == IF end = <<>> THEN s1 ELSE User(s1, e)
        to == relToIdx(target, v.len)
        from == relToIdx(start, v.len)
        final == relArg(end, v.len)
        z  == v.kind.size
    IN  IF ~attached(s0, v.buf) THEN Fail(s0, "TypeError")
        ELSE IF final <= from THEN s
        ELSE IF ~attached(s, v.buf) THEN Fail(s, "TypeError")
        ELSE Copy(s, v.buf, (v.off + to) * z, v.buf, (v.off + from) * z, (final - from) * z)

\* [builtin_typedarrays.go typedArrayProto_fill]
fill(m, v, val, start, end, e) ==
    LET s0 == Begin(m)
        s1 == User(s0, e)
        s2 == IF end = <<>> THEN s1 ELSE User(s1, e)
        s  == User(s2, e)
        k  == relToIdx(start, v.len)
        final == relArg(end, v.len)
    IN  IF ~attached(s0, v.buf) THEN Fail(s0, "TypeError")
        ELSE IF ~Convertible(val, v.kind) \/ ~attached(s, v.buf) THEN Fail(s, "TypeError")
        ELSE FoldLeft(LAMBDA acc, i : setRaw(acc, v, i, toRaw(val, v.kind)), s, [i \in 1..(final - k) |-> k + i - 1])

\* [builtin_typedarrays.go typedArrayProto_reverse]
reverse(m, v) ==
    IF m[v.buf].detached THEN Fail(Begin(m), "TypeError")
    ELSE FoldLeft(LAMBDA acc, i : Swap(acc, v, i - 1, v.len - i), Begin(m), [i \in 1..(v.len \div 2) |-> i])

Ascending(a, b) == [i \in 1..(b - a) |-> a + i - 1]         \* a, ..., b-1
Descending(a, b) == [i \in 1..(b - a) |-> b - i]            \* b-1, ..., a

Move(s, dst, at, src, order) ==
    FoldLeft(LAMBDA acc, i : set(Touch(acc, src, i), dst, at + i, get(acc.m, src, i), NoEffect), s, order)

\* A set that always copies upwards.
SetAscending(s, v, src, at, Far) ==
    IF ~attached(s, src.buf) THEN Fail(s, "TypeError")
    ELSE IF src.len + at > v.len THEN Fail(s, "RangeError")
    ELSE IF src.kind = v.kind THEN Copy(s, v.buf, (v.off + at) * v.kind.size, src.buf, src.off * v.kind.size, src.len * v.kind.size)
    ELSE IF MixRefused(src.kind, v.kind) THEN Fail(s, "TypeError")
    ELSE Move(s, v, at, src, Ascending(0, src.len))

\* [builtin_typedarrays.go:1007-1055 typedArrayProto_set] of another typed array: the direction depends on how the
\* two ranges overlap. Buffers of their own lie apart, in an order that depends on the allocator (Far).
setFromTypedArray(s, v, src, at, Far) ==
    LET ss  == src.kind.size
        ds  == v.kind.size
        dif == IF v.buf = src.buf THEN (v.off + at) * ds - src.off * ss ELSE Far
        x0  == Quot(dif, ss - ds)
        x   == IF x0 < 0 THEN 0 ELSE IF x0 > src.len THEN src.len ELSE x0
        n   == src.len
    IN  IF ~attached(s, src.buf) THEN Fail(s, "TypeError")
        ELSE IF n + at > v.len THEN Fail(s, "RangeError")
        ELSE IF src.kind = v.kind THEN Copy(s, v.buf, (v.off + at) * ds, src.buf, src.off * ss, n * ss)
        ELSE IF MixRefused(src.kind, v.kind) THEN Fail(s, "TypeError")
        ELSE IF src.off * ss >= Len(s.m[src.buf].data) \/ (v.off + at) * ds >= Len(s.m[v.buf].data)
        THEN Fail(s, "panic")
        ELSE IF ss = ds
        THEN Move(s, v, at, src, IF dif <= 0 \/ dif >= n * ss THEN Ascending(0, n) ELSE Descending(0, n))
        ELSE IF ds < ss THEN Move(s, v, at, src, Ascending(x, n) \o Descending(0, x))
        ELSE Move(s, v, at, src, Ascending(0, x) \o Descending(x, n))

\* [builtin_typedarrays.go:1056-1068 typedArrayProto_set] of a list: reading an item may call user code.
setFromList(s, v, vals, at, e) ==
    IF Len(vals) + at > v.len THEN Fail(s, "RangeError")
    ELSE FoldLeft(LAMBDA acc, i :
             LET u == User(acc, e) IN
             IF acc.err # "" THEN acc
             ELSE IF isValidIntegerIndex(u, v, at + i - 1) THEN set(u, v, at + i - 1, vals[i], e) ELSE u,
             s, [i \in DOMAIN vals |-> i])

\* [builtin_typedarrays.go:998-1006 typedArrayProto_set]
typedArraySet(m, v, src, at, Far, e) ==
    LET s == User(Begin(m), e) IN
    IF at < 0 THEN Fail(s, "RangeError")
    ELSE IF ~attached(s, v.buf) THEN Fail(s, "TypeError")
    ELSE IF src[1] = "view" THEN setFromTypedArray(s, v, src[2], at, Far)
    ELSE setFromList(s, v, src[2], at, e)

\* [builtin_typedarrays.go typedArrayProto_slice] dst is what the species constructor returned: a fresh array in
\* a buffer of its own, or any view that is long enough.
slice(m, v, start, end, dst, e) ==
    LET s0 == Begin(m)
        s1 == User(s0, e)
        s2 == IF end = <<>> THEN s1 ELSE User(s1, e)
        s  == User(s2, e)
        from == relToIdx(start, v.len)
        n0 == relArg(end, v.len) - from
        n  == IF n0 < 0 THEN 0 ELSE n0
        z  == v.kind.size
        dp == dst.off * z
        sp == (v.off + from) * z
    IN  IF ~attached(s0, v.buf) THEN Fail(s0, "TypeError")
        ELSE IF ~attached(s, dst.buf) \/ dst.len < n THEN Fail(s, "TypeError")
        ELSE IF n > 0 /\ ~attached(s, v.buf) THEN Fail(s, "TypeError")
        ELSE IF dst.kind # v.kind THEN Move(s, dst, 0, [v EXCEPT !.off = @ + from], Ascending(0, n))
        ELSE IF v.buf # dst.buf \/ dp <= sp \/ dp >= sp + n * z THEN Copy(s, dst.buf, dp, v.buf, sp, n * z)
        ELSE FoldLeft(LAMBDA acc, i : Copy(acc, dst.buf, dp + i - 1, v.buf, sp + i - 1, 1), s, [i \in 1..(n * z) |-> i])

\* [builtin_typedarrays.go typedArrayProto_subarray]
subarray(m, v, start, end, e) ==
    LET begin == relToIdx(start, v.len)
        n == relArg(end, v.len) - begin
        s == User(Begin(m), e)
        r == newFromArrayBuffer(s.m, v.kind, v.buf, <<(v.off + begin) * v.kind.size>>, <<IF n < 0 THEN 0 ELSE n>>, NoEffect)
    IN [r EXCEPT !.n = s.n]

---------------------------------------------------------------------------
(* Sorting.  cmp is the comparison function: none, one that sorts upwards  *)
(* or downwards, or one for which all are equal.                           *)

Answer(cmp, x, y) ==
    IF cmp = "equal" THEN Num(0)
    ELSE IF less(x, y) THEN Num(IF cmp = "up" THEN -2 ELSE 2)
    ELSE IF less(y, x) THEN Num(IF cmp = "up" THEN 2 ELSE -2) ELSE Num(0)

\* A sort that does not look at the buffer again.
LessUnchecked(s, c, i, j) ==
    LET x == get(s.m, c.v, i)
        y == get(s.m, c.v, j)
        t == User(Touch(Touch(s, c.v, i), c.v, j), c.e)
        r == Answer(c.cmp, x, y)
    IN  IF c.cmp = "none" THEN Return(Touch(Touch(s, c.v, i), c.v, j), less(x, y))
        ELSE Return([t EXCEPT !.seen = Append(@, <<x, y>>)], r[1] = "nz" \/ (r[1] = "num" /\ r[2] < 0))

\* [builtin_typedarrays.go checkDetached..Less] c.v: the view; the buffer is looked at again after a comparison.
Less(s, c, i, j) ==
    LET x == get(s.m, c.v, i)
        y == get(s.m, c.v, j)
        t == User(Touch(Touch(s, c.v, i), c.v, j), c.e)
        r == Answer(c.cmp, x, y)
    IN  IF ~attached(s, c.v.buf) THEN Return(s, FALSE)
        ELSE IF c.cmp = "none" THEN Return(Touch(Touch(s, c.v, i), c.v, j), less(x, y))
        ELSE Return([t EXCEPT !.seen = Append(@, <<x, y>>)], r[1] = "nz" \/ (r[1] = "num" /\ r[2] < 0))

\* [builtin_typedarrays.go:67-74 Swap]
SortSwap(s, c, i, j) == IF attached(s, c.v.buf) THEN Swap(s, c.v, i, j) ELSE s

RECURSIVE Sink(_, _, _)
Sink(s, c, j) ==
    IF j = 0 THEN s
    ELSE LET t == Less(s, c, j, j - 1) IN IF t.ret THEN Sink(SortSwap(t, c, j, j - 1), c, j - 1) ELSE t

\* [external sort.Stable] insertion sort, which it is for short arrays
Stable(s, c) == FoldLeft(LAMBDA acc, i : Sink(acc, c, i), s, Ascending(1, c.v.len))

\* [builtin_typedarrays.go typedArrayProto_sort]
sort(m, v, cmp, e) ==
    IF m[v.buf].detached THEN Fail(Begin(m), "TypeError")
    ELSE Return(Stable(Begin(m), [v |-> v, cmp |-> cmp, e |-> e]), Undef)

Clone(m, v) == SubSeq(m[v.buf].data, v.off * v.kind.size + 1, (v.off + v.len) * v.kind.size)

\* [builtin_typedarrays.go typedArrayProto_toSorted] of a copy: what comparisons do to the buffer is not seen.
toSorted(m, v, cmp, e) ==
    LET mine == [b \in DOMAIN m \cup {0} |-> IF b = 0 THEN Buf(Clone(m, v)) ELSE m[b]]
        t    == Stable(Begin(mine), [v |-> View(v.kind, 0, 0, v.len), cmp |-> cmp, e |-> e])
    IN  IF m[v.buf].detached THEN Fail(Begin(m), "TypeError")
        ELSE Return([t EXCEPT !.m = [b \in DOMAIN m |-> t.m[b]]], [kind |-> v.kind, data |-> t.m[0].data])

\* [builtin_typedarrays.go typedArrayProto_toReversed]
toReversed(m, v) ==
    IF m[v.buf].detached THEN Fail(Begin(m), "TypeError")
    ELSE FillFresh(Begin(m), v.kind, Reverse(Elements(m, v)), NoEffect)

\* [builtin_typedarrays.go typedArrayProto_with]
with(m, v, index, val, e) ==
    LET s0 == Begin(m)
        s  == User(User(s0, e), e)
        i  == IF index >= 0 THEN index ELSE v.len + index
    IN  IF ~attached(s0, v.buf) \/ ~Convertible(val, v.kind) THEN Fail(s, "TypeError")
        ELSE IF ~isValidIntegerIndex(s, v, i) THEN Fail(s, "RangeError")
        ELSE Return(s, [kind |-> v.kind, data |-> Poke(Clone(s.m, v), i * v.kind.size,
                                                       Digits(Bits(val, v.kind), v.kind.size))])

---------------------------------------------------------------------------
(* Methods with a callback.  ans[n] is what the n-th call answers.         *)

\* the loop they share: the element, or undefined once the buffer is gone, until an answer is in stop
Visit(m, v, order, ans, stop, e) ==
    FoldLeft(LAMBDA acc, k :
        LET val == IF isValidIntegerIndex(acc, v, k) THEN get(acc.m, v, k) ELSE Undef
            t   == IF isValidIntegerIndex(acc, v, k) THEN Touch(acc, v, k) ELSE acc
            u   == User([t EXCEPT !.seen = Append(@, <<val, k, IF Within(acc.m, v, k) THEN ElemBytes(acc.m, v, k) ELSE <<>>>>)], e)
        IN  IF acc.ret # <<>> THEN acc
            ELSE IF ans[Len(u.seen)] \in stop THEN Return(u, <<val, k>>) ELSE u,
        Return(Begin(m), <<>>), order)

Up(v) == Ascending(0, v.len)
Down(v) == Descending(0, v.len)

Guarded(m, v, s) == IF m[v.buf].detached THEN Fail(Begin(m), "TypeError") ELSE s

\* [builtin_typedarrays.go typedArrayProto_every]
every(m, v, ans, e) == LET s == Visit(m, v, Up(v), ans, {FALSE}, e) IN Guarded(m, v, Return(s, s.ret = <<>>))
\* [builtin_typedarrays.go typedArrayProto_some]
some(m, v, ans, e) == LET s == Visit(m, v, Up(v), ans, {TRUE}, e) IN Guarded(m, v, Return(s, s.ret # <<>>))
\* [builtin_typedarrays.go typedArrayProto_find]
find(m, v, ans, e) ==
    LET s == Visit(m, v, Up(v), ans, {TRUE}, e) IN Guarded(m, v, Return(s, IF s.ret = <<>> THEN Undef ELSE s.ret[1]))
\* [builtin_typedarrays.go typedArrayProto_findIndex]
findIndex(m, v, ans, e) ==
    LET s == Visit(m, v, Up(v), ans, {TRUE}, e) IN Guarded(m, v, Return(s, IF s.ret = <<>> THEN -1 ELSE s.ret[2]))
\* [builtin_typedarrays.go typedArrayProto_findLast]
findLast(m, v, ans, e) ==
    LET s == Visit(m, v, Down(v), ans, {TRUE}, e) IN Guarded(m, v, Return(s, IF s.ret = <<>> THEN Undef ELSE s.ret[1]))
\* [builtin_typedarrays.go typedArrayProto_findLastIndex]
findLastIndex(m, v, ans, e) ==
    LET s == Visit(m, v, Down(v), ans, {TRUE}, e) IN Guarded(m, v, Return(s, IF s.ret = <<>> THEN -1 ELSE s.ret[2]))
\* [builtin_typedarrays.go typedArrayProto_forEach]
forEach(m, v, e) == Guarded(m, v, Return(Visit(m, v, Up(v), [n \in 1..v.len |-> TRUE], {}, e), Undef))

\* [builtin_typedarrays.go typedArrayProto_filter] keeps the bytes read before the callback was called.
filter(m, v, ans, e) ==
    LET s == Visit(m, v, Up(v), ans, {}, e)
        z == v.kind.size
        raw(n) == IF s.seen[n][1] = Undef THEN [i \in 1..z |-> 0] ELSE s.seen[n][3]
    IN Guarded(m, v, Return(s, [kind |-> v.kind,
                                data |-> FlattenSeq([n \in 1..v.len |-> IF ans[n] THEN raw(n) ELSE <<>>])]))

\* [builtin_typedarrays.go typedArrayProto_map] out[n]: what the n-th call returns
map(m, v, out, e) ==
    LET s == Visit(m, v, Up(v), [n \in 1..v.len |-> TRUE], {}, e)
        t == FillFresh([s EXCEPT !.seen = <<>>], v.kind, SubSeq(out, 1, v.len), NoEffect)
    IN Guarded(m, v, [t EXCEPT !.seen = s.seen])

\* [builtin_typedarrays.go typedArrayProto_reduce] the callback collects its arguments; with no initial value the
\* first element is read without a call.
reduce(m, v, init, e) ==
    LET from == IF init = <<>> THEN 1 ELSE 0
        s == Visit(m, v, Ascending(from, v.len), [n \in 1..v.len |-> TRUE], {}, e)
    IN Guarded(m, v, IF init = <<>> /\ v.len = 0 THEN Fail(Begin(m), "TypeError")
                     ELSE Return(s, IF init = <<>> THEN get(m, v, 0) ELSE init[1]))

\* [builtin_typedarrays.go typedArrayProto_reduceRight]
reduceRight(m, v, init, e) ==
    LET to == IF init = <<>> THEN v.len - 1 ELSE v.len
        s == Visit(m, v, Descending(0, to), [n \in 1..v.len |-> TRUE], {}, e)
    IN Guarded(m, v, IF init = <<>> /\ v.len = 0 THEN Fail(Begin(m), "TypeError")
                     ELSE Return(s, IF init = <<>> THEN get(m, v, v.len - 1) ELSE init[1]))

---------------------------------------------------------------------------
(* Searching: bit patterns are compared.                                   *)

PosZero(x) == IF x = NegZero THEN Num(0) ELSE x
FromIndex(n, l) == IF n >= 0 THEN n ELSE IF l + n > 0 THEN l + n ELSE 0

Hits(s, v, x) == {k \in 0..(v.len - 1) : typeMatch(x, v.kind) /\ getRaw(s.m, v, k) = toRaw(x, v.kind)}

\* A search that converts what it looks for to the element type first.
HitsConverted(s, v, x) == {k \in 0..(v.len - 1) : Convertible(x, v.kind) /\ getRaw(s.m, v, k) = toRaw(x, v.kind)}

IncludesConverted(m, v, x, from, e) ==
    LET s == User(Begin(m), e)
        n == FromIndex(from, v.len)
    IN  Guarded(m, v, IF v.len = 0 THEN Return(Begin(m), FALSE)
            ELSE IF n >= v.len THEN Return(s, FALSE)
            ELSE IF ~attached(s, v.buf) THEN Return(s, x = Undef)
            ELSE Return(s, \E k \in HitsConverted(s, v, PosZero(x)) : k >= n))

\* [builtin_typedarrays.go typedArrayProto_includes]
includes(m, v, x, from, e) ==
    LET s == User(Begin(m), e)
        n == FromIndex(from, v.len)
    IN  Guarded(m, v,
            IF v.len = 0 THEN Return(Begin(m), FALSE)
            ELSE IF n >= v.len THEN Return(s, FALSE)
            ELSE IF ~attached(s, v.buf) THEN Return(s, x = Undef)
            ELSE Return(s, \E k \in Hits(s, v, PosZero(x)) : k >= n))

\* [builtin_typedarrays.go typedArrayProto_indexOf]
indexOf(m, v, x, from, e) ==
    LET s == User(Begin(m), e)
        at == {k \in Hits(s, v, PosZero(x)) : k >= FromIndex(from, v.len)}
    IN  Guarded(m, v,
            IF v.len = 0 THEN Return(Begin(m), -1)
            ELSE IF ~attached(s, v.buf) \/ x = NaN \/ at = {} THEN Return(s, -1) ELSE Return(s, Min(at)))

\* [builtin_typedarrays.go typedArrayProto_lastIndexOf]
lastIndexOf(m, v, x, from, e) ==
    LET s == IF from = <<>> THEN Begin(m) ELSE User(Begin(m), e)
        n == IF from = <<>> THEN v.len - 1 ELSE IF from[1] >= 0 THEN Least(from[1], v.len - 1) ELSE v.len + from[1]
        at == {k \in Hits(s, v, PosZero(x)) : k <= n}
    IN  Guarded(m, v,
            IF v.len = 0 THEN Return(Begin(m), -1)
            ELSE IF ~attached(s, v.buf) \/ x = NaN \/ at = {} THEN Return(s, -1) ELSE Return(s, Max(at)))

\* [builtin_typedarrays.go typedArrayProto_at]
at(m, v, index, e) ==
    LET s == User(Begin(m), e)
        i == IF index < 0 THEN v.len + index ELSE index
    IN  Guarded(m, v, IF i < 0 \/ i >= v.len \/ ~attached(s, v.buf) THEN Return(s, Undef)
                      ELSE Return(Touch(s, v, i), get(s.m, v, i)))

\* [builtin_typedarrays.go typedArrayProto_join] the elements that are joined; converting the separator may detach
join(m, v, e) ==
    LET s == User(Begin(m), e)
    IN Guarded(m, v, Return(s, [k \in 1..v.len |-> IF attached(s, v.buf) THEN get(s.m, v, k - 1) ELSE Undef]))

\* [builtin_typedarrays.go typedArrayProto_toLocaleString] the locale string of an item is user code
toLocaleString(m, v, e) ==
    FoldLeft(LAMBDA acc, k :
        IF acc.err # "" THEN acc ELSE IF ~attached(acc, v.buf) THEN Fail(acc, "TypeError")
        ELSE User([Touch(acc, v, k) EXCEPT !.seen = Append(@, get(acc.m, v, k))], e), Begin(m), Up(v))

\* [builtin_typedarrays.go typedArrayProto_getBuffer..typedArrayProto_getByteOffset]
Geometry(m, v) ==
    LET none == m[v.buf].data = <<>> IN
    [byteLength |-> IF none THEN 0 ELSE v.len * v.kind.size, length |-> IF none THEN 0 ELSE v.len,
     byteOffset |-> IF none THEN 0 ELSE v.off * v.kind.size]

---------------------------------------------------------------------------
(* ArrayBuffer, DataView and the hexadecimal methods of Uint8Array.        *)

\* [builtin_typedarrays.go arrayBufferProto_slice] the bytes of the new buffer
arrayBufferSlice(m, b, start, end, e) ==
    LET l  == Len(m[b].data)
        s1 == User(Begin(m), e)
        s  == IF end = <<>> THEN s1 ELSE User(s1, e)
        from == relToIdx(start, l)
        n  == relArg(end, l) - from
    IN  IF n <= 0 THEN Return(s, <<>>)
        ELSE IF ~attached(s, b) THEN Fail(s, "TypeError")
        ELSE Return(s, SubSeq(s.m[b].data, from + 1, from + n))

\* [builtin_typedarrays.go arrayBufferProto_getByteLength]
byteLength(m, b) == Len(m[b].data)

\* [builtin_typedarrays.go newDataView]
newDataView(m, b, off, len, e) ==
    LET s1 == IF off = <<>> THEN Begin(m) ELSE User(Begin(m), e)
        o  == IF off = <<>> THEN 0 ELSE off[1]
        s  == IF len = <<>> THEN s1 ELSE User(s1, e)
        l  == IF len = <<>> THEN Len(s1.m[b].data) - o ELSE len[1]
    IN  IF o < 0 THEN Fail(s1, "RangeError")
        ELSE IF off # <<>> /\ ~attached(s1, b) THEN Fail(s1, "TypeError")
        ELSE IF o > Len(s1.m[b].data) THEN Fail(s1, "RangeError")
        ELSE IF l < 0 \/ o + l > Len(s.m[b].data) THEN Fail(s, "RangeError")
        ELSE IF ~attached(s, b) THEN Fail(s, "TypeError")
        ELSE Return(s, [buf |-> b, off |-> o, len |-> l])

\* [typedarrays.go getIdxAndByteOrder] the position in the buffer; -1: TypeError, -2: RangeError
getIdx0(s, dv, i, size) ==
    IF ~attached(s, dv.buf) THEN -1 ELSE IF i + size > dv.len THEN -2 ELSE i + dv.off

\* [typedarrays.go getFloat32..getUint64] and the other widths: the bytes in the order asked for
LoadBytes(m, b, pos, size, little) ==
    LET d == SubSeq(m[b].data, pos + 1, pos + size) IN IF little THEN d ELSE Reverse(d)

\* [typedarrays.go setUint64..setUint32]
StoreBytes(raw, size, little) == IF little THEN Digits(raw, size) ELSE Reverse(Digits(raw, size))

ViewError(p) == IF p = -1 THEN "TypeError" ELSE "RangeError"

\* [builtin_typedarrays.go dataViewProto_getFloat32..dataViewProto_getBigUint64]
dataViewGet(m, dv, k, i, little, e) ==
    LET s == User(Begin(m), e)
        p == getIdx0(s, dv, i, k.size)
    IN  IF i < 0 THEN Fail(s, "RangeError")
        ELSE IF p < 0 THEN Fail(s, ViewError(p))
        ELSE IF p + k.size > Len(s.m[dv.buf].data) THEN Fail(s, "panic")
        ELSE Return(s, valueOf(RawOf(LoadBytes(s.m, dv.buf, p, k.size, little)), k))

\* [builtin_typedarrays.go dataViewProto_setFloat32..dataViewProto_setBigUint64] the value is converted before the
\* position is computed.
dataViewSet(m, dv, k, i, val, little, e) ==
    LET s1 == User(Begin(m), e)
        s  == User(s1, e)
        p  == getIdx0(s, dv, i, k.size)
    IN  IF i < 0 THEN Fail(s1, "RangeError")
        ELSE IF ~Convertible(val, k) THEN Fail(s, "TypeError")
        ELSE IF p < 0 THEN Fail(s, ViewError(p))
        ELSE IF p + k.size > Len(s.m[dv.buf].data) THEN Fail(s, "panic")
        ELSE [s EXCEPT !.m[dv.buf].data = Poke(@, p, StoreBytes(Bits(val, k), k.size, little))]

\* [builtin_typedarrays.go getUint8ArrayBytes..fromHexInto] text: the digits, -1 for a character that is none, two to
\* a byte of the model. Decoding stops at the first bad pair, and its bytes have been written by then.
DecodedPrefix(text, maxPairs) ==
    LET n   == Least(Len(text) \div 2, maxPairs)
        bad == {i \in 1..n : -1 \in {text[2 * i - 1], text[2 * i]}}
    IN IF bad = {} THEN n ELSE Min(bad) - 1

PairByte(text, i) == (text[2 * i - 1] * 2 + text[2 * i]) % Base

\* [builtin_typedarrays.go uint8ArrayProto_setFromHex]
setFromHex(m, v, text) ==
    LET s == Begin(m)
        n == DecodedPrefix(text, v.len)
        t == [s EXCEPT !.m[v.buf].data = Poke(@, v.off, [i \in 1..n |-> PairByte(text, i)])]
    IN  IF v.kind # Uint8 \/ ~attached(s, v.buf) THEN Fail(s, "TypeError")
        ELSE IF Len(text) % 2 # 0 THEN Fail(s, "SyntaxError")
        ELSE IF n < Least(Len(text) \div 2, v.len) THEN Fail(t, "SyntaxError")
        ELSE Return(t, <<2 * n, n>>)

\* [builtin_typedarrays.go uint8Array_fromHex..uint8ArrayProto_toHex]
fromHex(m, text) ==
    IF Len(text) % 2 # 0 \/ DecodedPrefix(text, Len(text)) # Len(text) \div 2 THEN Fail(Begin(m), "SyntaxError")
    ELSE Return(Begin(m), [kind |-> Uint8, data |-> [i \in 1..(Len(text) \div 2) |-> PairByte(text, i)]])
=============================================================================
