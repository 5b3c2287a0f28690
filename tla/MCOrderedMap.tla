----------------------------- MODULE MCOrderedMap -----------------------------
(* A small instance of OrderedMap: zero and minus zero are one key, which  *)
(* shares its bucket with the other one.                                   *)
EXTENDS OrderedMap

CONSTANTS zero, negZero, a

MCKeys == {zero, negZero, a}
MCCanon == [k \in MCKeys |-> IF k = negZero THEN zero ELSE k]
MCBuckets == {0, 1}
MCHash == [k \in MCKeys |-> 0]
=============================================================================
