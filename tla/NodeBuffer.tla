----------------------------- MODULE NodeBuffer -----------------------------
(***************************************************************************)
(* The Buffer of nodejs/buffer: readers and writers of integers and floats *)
(* in both byte orders, alloc, concat, write, toString and equals.  A      *)
(* Buffer is a Uint8Array; a method works on the Go slice of its bytes,    *)
(* here the argument bb.  Offsets and lengths are int64: MaxInt64 is the   *)
(* largest one and sums wrap around beyond it.                             *)
(***************************************************************************)
EXTENDS TypedArrays

CONSTANT MaxInt64      \* 2^63-1 in the code

ASSUME MaxInt64Positive == MaxInt64 \in Nat \ {0}

Wrapped(n) == IF n > MaxInt64 THEN n - 2 * (MaxInt64 + 1) ELSE n

NB(bb, err, ret) == [bb |-> bb, err |-> err, ret |-> ret]
Throws(bb, e) == NB(bb, e, Undef)

\* [nodejs/buffer/buffer.go getOffsetArgument] an optional argument, and the sum that may overflow
getOffsetArgument(off, n, len) ==
    LET o == IF off = <<>> THEN 0 ELSE off[1]
    IN [ok |-> o >= 0 /\ Wrapped(o + n) <= len, offset |-> o]

\* [nodejs/buffer/buffer.go getVariableLengthReadArguments..getVariableLengthArguments]
getVariableLengthArguments(o, n, len) ==
    [ok |-> 1 <= n /\ n <= 6 /\ o >= 0 /\ Wrapped(o + n) <= len, offset |-> o]

Ordered(bytes, little) == IF little THEN bytes ELSE Reverse(bytes)

\* the bytes at an accepted offset, or a Go panic when the offset lies outside after all
SliceAt(bb, a, n, little) ==
    IF ~a.ok THEN Throws(bb, "RangeError")
    ELSE IF a.offset + n > Len(bb) THEN Throws(bb, "panic")
    ELSE NB(bb, "", Ordered(SubSeq(bb, a.offset + 1, a.offset + n), little))

Decoded(r, k) == IF r.err # "" THEN r ELSE [r EXCEPT !.ret = valueOf(RawOf(@), k)]

\* [nodejs/buffer/buffer.go readBigInt64BE..readFloatLE]
readBigOrFloat(bb, k, little, off) == Decoded(SliceAt(bb, getOffsetArgument(off, k.size, Len(bb)), k.size, little), k)

\* [nodejs/buffer/buffer.go readInt8..readInt32LE]
readInt(bb, k, little, off) == Decoded(SliceAt(bb, getOffsetArgument(off, k.size, Len(bb)), k.size, little), k)

\* [nodejs/buffer/buffer.go readUInt8..readUInt32LE]
readUInt(bb, k, little, off) == Decoded(SliceAt(bb, getOffsetArgument(off, k.size, Len(bb)), k.size, little), k)

\* an integer of n bytes, at most 6
IntKind(n, signed) == Kind("Int", n, signed, "wrap")

\* [nodejs/buffer/buffer.go signExtend]
signExtend(value, n) == IF 2 * value >= Base ^ n THEN value - Base ^ n ELSE value

\* [nodejs/buffer/buffer.go readIntBE..readIntLE] shifted together byte by byte, then sign-extended
readIntN(bb, o, n, little) ==
    LET r == SliceAt(bb, getVariableLengthArguments(o, n, Len(bb)), n, ~little)
        v == FoldLeft(LAMBDA acc, b : acc * Base + b, 0, r.ret)
    IN IF r.err # "" THEN r ELSE [r EXCEPT !.ret = Num(2 * signExtend(v, n))]

\* [nodejs/buffer/buffer.go readUIntBE..readUIntLE]
readUIntN(bb, o, n, little) ==
    LET r == SliceAt(bb, getVariableLengthArguments(o, n, Len(bb)), n, ~little)
    IN IF r.err # "" THEN r ELSE [r EXCEPT !.ret = Num(2 * FoldLeft(LAMBDA acc, b : acc * Base + b, 0, @))]

\* [nodejs/buffer/buffer.go ensureWithinFloat32Range..ensureWithinUIntRange] v: the integer part of the value
InRange(v, k) ==
    IF k.signed THEN -(Range0(k) \div 2) <= v /\ v < Range0(k) \div 2 ELSE 0 <= v /\ v < Range0(k)

PutAt(bb, a, k, raw, little) ==
    IF ~a.ok THEN Throws(bb, "RangeError")
    ELSE IF a.offset + k.size > Len(bb) THEN Throws(bb, "panic")
    ELSE NB(Poke(bb, a.offset, StoreBytes(raw, k.size, little)), "", Num(2 * (a.offset + k.size)))

\* [nodejs/buffer/buffer.go writeBigInt64BE..writeBigUInt64LE] no range check: the low bits are written, without the sign
\* where the element is unsigned
writeBig(bb, k, val, off, little) ==
    LET n == IF ~k.signed /\ val[2] < 0 THEN -val[2] ELSE val[2]
    IN PutAt(bb, getOffsetArgument(off, k.size, Len(bb)), k, n % Range0(k), little)

\* [nodejs/buffer/buffer.go writeDoubleBE..writeFloatLE]
writeFloat(bb, k, val, off, little) ==
    LET a   == getOffsetArgument(off, k.size, Len(bb))
        top == Range0(k) - 4
    IN  IF a.ok /\ k = Float32 /\ val[1] = "num" /\ ~(-top <= val[2] /\ val[2] <= top) THEN Throws(bb, "RangeError")
        ELSE PutAt(bb, a, k, FloatBits(val, k), little)

\* [nodejs/buffer/buffer.go writeInt8..writeInt32LE] the offset is checked before the value
writeInt(bb, k, val, off, little) ==
    LET a == getOffsetArgument(off, k.size, Len(bb))
        v == Quot(val[2], 2)
    IN  IF a.ok /\ ~InRange(v, k) THEN Throws(bb, "RangeError") ELSE PutAt(bb, a, k, v % Range0(k), little)

\* [nodejs/buffer/buffer.go writeUInt8..writeUInt32LE]
writeUInt(bb, k, val, off, little) ==
    LET a == getOffsetArgument(off, k.size, Len(bb))
        v == Quot(val[2], 2)
    IN  IF a.ok /\ ~InRange(v, k) THEN Throws(bb, "RangeError") ELSE PutAt(bb, a, k, v, little)

\* [nodejs/buffer/buffer.go writeIntBE..writeIntLE] and the two of writeUInt: one shifted byte after the other
writeIntN(bb, val, o, n, signed, little) ==
    LET a == getVariableLengthArguments(o, n, Len(bb))
        k == IntKind(n, signed)
        v == Quot(val[2], 2)
        byte(i) == (v \div Base ^ (IF little THEN i - 1 ELSE n - i)) % Base
    IN  IF ~a.ok \/ ~InRange(v, k) THEN Throws(bb, "RangeError")
        ELSE IF o + n > Len(bb) THEN Throws(bb, "panic")
        ELSE NB(Poke(bb, o, [i \in 1..n |-> byte(i)]), "", Num(2 * (o + n)))

\* [nodejs/buffer/buffer.go write] raw: the bytes the codec decodes from the string
write(bb, raw, off, len) ==
    LET a == getOffsetArgument(off, 0, Len(bb))
        l == IF len = <<>> THEN Len(bb) - a.offset ELSE len[1]
        n == Least(Least(l, Len(raw)), Len(bb) - a.offset)
    IN  IF ~a.ok THEN Throws(bb, "RangeError")
        ELSE IF Least(l, Len(raw)) < 0 THEN Throws(bb, "panic")
        ELSE NB(Poke(bb, a.offset, SubSeq(raw, 1, n)), "", Num(2 * n))

\* [nodejs/buffer/buffer.go fill] the decoded bytes are doubled until the buffer is full: with none the loop never ends.
fillText(size, raw) ==
    IF Len(raw) > size THEN NB(SubSeq(raw, 1, size), "", Undef)
    ELSE IF raw = <<>> /\ size > 0 THEN Throws(<<>>, "hang")
    ELSE NB([i \in 1..size |-> raw[((i - 1) % Len(raw)) + 1]], "", Undef)

\* [nodejs/buffer/buffer.go alloc] fill: none, the bytes of a text, or a number
alloc(size, fil) ==
    IF size < 0 THEN Throws(<<>>, "TypeError")
    ELSE IF fil[1] = "text" THEN fillText(size, fil[2])
    ELSE NB([i \in 1..size |-> IF fil[1] = "num" THEN Quot(fil[2], 2) % Base ELSE 0], "", Undef)

\* [nodejs/buffer/buffer.go proto_toString] the bytes that are encoded
toStringRange(bb, start, end) ==
    LET s == IF start < 0 THEN 0 ELSE start
        e == IF end = <<>> THEN Len(bb) ELSE end[1]
    IN  IF start >= Len(bb) /\ start >= 0 THEN <<>>
        ELSE IF e < 0 \/ s >= e THEN <<>>
        ELSE SubSeq(bb, s + 1, Least(e, Len(bb)))

\* [nodejs/buffer/buffer.go concat] stops at the first buffer that does not fit
concat(list, total) ==
    LET all == FoldLeft(LAMBDA acc, b : acc \o b, <<>>, list)
        n   == IF total = <<>> THEN Len(all) ELSE total[1]
        res == FoldLeft(LAMBDA acc, b :
                   LET k == Least(Len(b), n - acc.at) IN
                   IF acc.stop THEN acc
                   ELSE [data |-> Poke(acc.data, acc.at, SubSeq(b, 1, k)), at |-> acc.at + k, stop |-> k # Len(b)],
                   [data |-> [i \in 1..n |-> 0], at |-> 0, stop |-> FALSE], list)
    IN  IF list = <<>> THEN NB(<<>>, "", Undef)
        ELSE IF n < 0 THEN Throws(<<>>, "RangeError") ELSE NB(res.data, "", Undef)
=============================================================================
