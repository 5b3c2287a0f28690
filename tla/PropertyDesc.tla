---------------------------- MODULE PropertyDesc ----------------------------
(***************************************************************************)
(* A property slot as goja stores it, and the descriptor algebra on it     *)
(* (object.go).  A slot is empty (Go nil), a plain value, which stands for *)
(* a writable, enumerable and configurable data property, or a             *)
(* *valueProperty with its flags.  Functions and values are opaque names.  *)
(***************************************************************************)

\* FLAG_NOT_SET; FLAG_FALSE and FLAG_TRUE are "F" and "T".  An absent field of a descriptor is "-".
NotSet == "-"

Nil == [t |-> "nil", v |-> NotSet, w |-> FALSE, e |-> FALSE, c |-> FALSE,
        acc |-> FALSE, g |-> NotSet, s |-> NotSet]

Plain(v) == [Nil EXCEPT !.t = "val", !.v = v, !.w = TRUE, !.e = TRUE, !.c = TRUE]

\* [object.go valueProp] full permissions collapse to a plain value.
valueProp(v, w, e, c) ==
    IF w /\ e /\ c THEN Plain(v)
    ELSE [Nil EXCEPT !.t = "prop", !.v = v, !.w = w, !.e = e, !.c = c]

\* [value.go isWritable..set]
isWritable(p) == p.t = "val" \/ p.w \/ p.s # NotSet

Descr(v, w, e, c) == [value |-> v, w |-> w, e |-> e, c |-> c, get |-> NotSet, set |-> NotSet]

\* What [runtime.go createDataProperty] passes
DataDescr(v) == Descr(v, "T", "T", "T")

Apply(flag, old) == IF flag = NotSet THEN old ELSE flag = "T"

\* [value.go propGetter..propSetter] undefined is stored as nil.
propGetter(f) == IF f = "u" THEN NotSet ELSE f

\* The tests that jump to Reject [object.go:684-713 _defineOwnProperty].  A getter or setter given as undefined is no object.
Rejected(p, d) ==
    /\ ~p.c
    /\ \/ d.c = "T"
       \/ d.e # NotSet /\ (d.e = "T") # p.e
       \/ IF IF p.acc THEN d.value # NotSet ELSE {d.get, d.set} \ {NotSet, "u"} # {}
          THEN TRUE
          ELSE IF ~p.acc THEN ~p.w /\ (d.w = "T" \/ d.value \notin {NotSet, p.v})
               ELSE \/ d.get # NotSet /\ p.g # propGetter(d.get)
                    \/ d.set # NotSet /\ p.s # propGetter(d.set)

\* The assignments after the checks [object.go:716-756 _defineOwnProperty], on the slot itself or a fresh one.
Updated(p, d) ==
    IF d.w = "T" /\ d.e = "T" /\ d.c = "T" /\ d.value # NotSet THEN Plain(d.value)
    ELSE LET q == [p EXCEPT !.t = "prop", !.w = Apply(d.w, @), !.e = Apply(d.e, @), !.c = Apply(d.c, @)]
             data == IF d.value # NotSet THEN [q EXCEPT !.v = d.value, !.g = NotSet, !.s = NotSet] ELSE q
             kind == IF d.value # NotSet \/ d.w # NotSet THEN [data EXCEPT !.acc = FALSE] ELSE data
             get  == IF d.get # NotSet THEN [kind EXCEPT !.g = propGetter(d.get), !.v = NotSet, !.acc = TRUE] ELSE kind
             set  == IF d.set # NotSet THEN [get EXCEPT !.s = propGetter(d.set), !.v = NotSet, !.acc = TRUE] ELSE get
         IN IF ~set.acc /\ set.v = NotSet THEN [set EXCEPT !.v = "u"] ELSE set

\* [object.go _defineOwnProperty] what becomes of a slot, or a rejection.
DefineOwnProperty(existing, d, extensible) ==
    LET fresh == [Nil EXCEPT !.t = "prop"]
        bad   == IF existing = Nil THEN ~extensible ELSE Rejected(existing, d)
    IN [ok |-> ~bad, p |-> IF bad THEN existing
                           ELSE Updated(IF existing = Nil THEN fresh ELSE existing, d)]
=============================================================================
