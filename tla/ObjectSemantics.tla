-------------------------- MODULE ObjectSemantics --------------------------
(***************************************************************************)
(* What property access promises: the ECMAScript object model on           *)
(* properties that are absent, data or accessor properties, read off a     *)
(* heap of Objects.  A lookup is the first holder on the prototype chain;  *)
(* an assignment is decided by the holder and carried out on the receiver; *)
(* a proxy without traps stands for its target.  A trap is honest when     *)
(* some object that shares the permanent facts of the target could have    *)
(* given its answer.                                                       *)
(***************************************************************************)
EXTENDS Objects

CONSTANTS Values, Funcs       \* property values, functions

Abs(p) ==
    IF p = Nil THEN Nil
    ELSE IF p.acc THEN [Nil EXCEPT !.t = "acc", !.e = p.e, !.c = p.c, !.g = p.g, !.s = p.s]
    ELSE [Nil EXCEPT !.t = "data", !.v = p.v, !.w = p.w, !.e = p.e, !.c = p.c]

\* Every property there is
AllProps ==
    {Nil} \cup [t : {"data"}, v : Values \cup {"u"}, w : BOOLEAN, e : BOOLEAN, c : BOOLEAN, acc : {FALSE}, g : {NotSet}, s : {NotSet}]
          \cup [t : {"acc"}, v : {NotSet}, w : {FALSE}, e : BOOLEAN, c : BOOLEAN, acc : {FALSE},
                g : Funcs \cup {NotSet}, s : Funcs \cup {NotSet}]

Real(h, o) == IF h[o].kind = "proxy" THEN h[o].target ELSE o
Own(h, o, k) == Abs(Slot(h, Real(h, o), k))

KindOf(d, cur) == IF IsAccessor(d) THEN "acc" ELSE IF IsData(d) \/ cur = Nil THEN "data" ELSE cur.t

ESAllows(cur, d, ext) ==
    IF cur = Nil THEN ext
    ELSE \/ cur.c
         \/ /\ d.c # "T"
            /\ d.e # NotSet => (d.e = "T") = cur.e
            /\ KindOf(d, cur) = cur.t
            /\ cur.t = "acc" => /\ d.get # NotSet => propGetter(d.get) = cur.g
                                /\ d.set # NotSet => propGetter(d.set) = cur.s
            /\ cur.t = "data" /\ ~cur.w => d.w # "T" /\ d.value \in {NotSet, cur.v}

\* What the property is afterwards: an absent field keeps its value, or has its default where the kind is new.
ESResult(cur, d) ==
    LET kind == KindOf(d, cur)
        same == cur.t = kind
        flag(f, old) == IF f # NotSet THEN f = "T" ELSE old
        fn(f, old) == IF f # NotSet THEN propGetter(f) ELSE IF same THEN old ELSE NotSet
        base == [Nil EXCEPT !.t = kind, !.e = flag(d.e, cur.e), !.c = flag(d.c, cur.c)]
    IN IF kind = "acc" THEN [base EXCEPT !.g = fn(d.get, cur.g), !.s = fn(d.set, cur.s)]
       ELSE [base EXCEPT !.v = IF d.value # NotSet THEN d.value ELSE IF same THEN cur.v ELSE "u",
                         !.w = flag(d.w, same /\ cur.w)]

RECURSIVE Path(_, _)
\* o and what it inherits from
Path(h, o) == IF o = Null THEN <<>> ELSE <<Real(h, o)>> \o Path(h, h[Real(h, o)].proto)

\* The first property k on the chain of o
Found(h, o, k) ==
    LET own(q) == Abs(Slot(h, q, k)) # Nil
        s == SelectSeq(Path(h, o), own)
    IN IF s = <<>> THEN Nil ELSE Abs(Slot(h, s[1], k))

\* Outcomes: what is returned and called, and what becomes of one property of one object
NoChange == [o |-> Null, k |-> "none", p |-> Nil]
Outcome(ret, log, chg) == [ret |-> ret, log |-> log, chg |-> chg]

ESGet(h, o, k, recv) ==
    LET p == Found(h, o, k) IN
    IF p = Nil THEN Outcome("u", <<>>, NoChange)
    ELSE IF p.t = "data" THEN Outcome(p.v, <<>>, NoChange)
    ELSE IF p.g = NotSet THEN Outcome("u", <<>>, NoChange)
    ELSE Outcome("got", <<<<"get", p.g, recv>>>>, NoChange)

ESHas(h, o, k) == Outcome(Found(h, o, k) # Nil, <<>>, NoChange)

ESDefine(h, o, k, d) ==
    LET cur == Own(h, o, k)
        r == Real(h, o)
    IN IF ESAllows(cur, d, h[r].ext) THEN Outcome(TRUE, <<>>, [o |-> r, k |-> k, p |-> ESResult(cur, d)])
       ELSE Outcome(FALSE, <<>>, NoChange)

ESSet(h, o, k, v, recv) ==
    LET p == Found(h, o, k)
        own == Own(h, recv, k)
    IN IF p.t = "acc"
       THEN IF p.s = NotSet THEN Outcome(FALSE, <<>>, NoChange) ELSE Outcome(TRUE, <<<<"set", p.s, recv, v>>>>, NoChange)
       ELSE IF p.t = "data" /\ ~p.w THEN Outcome(FALSE, <<>>, NoChange)
       ELSE IF own = Nil THEN ESDefine(h, recv, k, DataDescr(v))
       ELSE IF own.t = "acc" \/ ~own.w THEN Outcome(FALSE, <<>>, NoChange)
       ELSE ESDefine(h, recv, k, Descr(v, NotSet, NotSet, NotSet))

ESDelete(h, o, k) ==
    IF Own(h, o, k) = Nil THEN Outcome(TRUE, <<>>, NoChange)
    ELSE IF Own(h, o, k).c THEN Outcome(TRUE, <<>>, [o |-> Real(h, o), k |-> k, p |-> Nil])
    ELSE Outcome(FALSE, <<>>, NoChange)

\* The result r of a call agrees with an outcome, and nothing else changed.  The names of an object stay those of its
\* properties in the order they were added; an element that is still a variable is that variable.
Agrees(before, r, out) ==
    LET changed(o, k) == out.chg.o = o /\ out.chg.k = k
        old(o) == before[o].names \o before[o].syms
        now(o) == r.h[o].names \o r.h[o].syms
    IN  /\ r.err = "" /\ r.ret = out.ret /\ r.log = out.log
        /\ \A o \in DOMAIN before :
             /\ \A k \in Keys : Abs(Slot(r.h, o, k)) = IF changed(o, k) THEN out.chg.p ELSE Abs(Slot(before, o, k))
             /\ r.h[o].proto = before[o].proto /\ r.h[o].ext = before[o].ext
             /\ ToSet(now(o)) = {k \in Keys : Slot(r.h, o, k) # Nil} /\ IsInjective(now(o))
             /\ LET kept(k) == k \in ToSet(now(o)) IN SelectSeq(old(o), kept) = SelectSeq(now(o), LAMBDA k : k \in ToSet(old(o)))

---------------------------------------------------------------------------
(* Traps.                                                                  *)

\* The properties an object may have that agrees with the target in what can never change.
Possible(cur, ext) ==
    {p \in AllProps :
        IF cur = Nil THEN ext \/ p = Nil
        ELSE IF cur.c THEN ext \/ p # Nil
        ELSE IF cur.t = "data" /\ cur.w THEN p = [cur EXCEPT !.v = p.v, !.w = p.w] /\ p.t = "data"
        ELSE p = cur}

\* A descriptor that promises what the target does not keep.
FalsePromise(cur, d) ==
    \/ d.c = "F" /\ (cur = Nil \/ cur.c)
    \/ d.w = "F" /\ cur.t = "data" /\ ~cur.c /\ cur.w

Reads(p, ans) ==
    CASE p = Nil -> TRUE
      [] p.t = "data" -> ans = p.v
      [] p.t = "acc" -> p.g # NotSet \/ ans = "u"

Takes(p, v) ==
    CASE p = Nil -> TRUE
      [] p.t = "data" -> p.w \/ p.v = v
      [] p.t = "acc" -> p.s # NotSet

\* call.op is trapped and the trap answers ans
Honest(h, call, ans) ==
    LET t == h[call.o].target
        cur == Abs(Slot(h, t, call.k))
        ext == h[t].ext
        own == {k \in Keys : Slot(h, t, k) # Nil}
        fixed == {k \in own : ~Slot(h, t, k).c}
    IN CASE call.op = "get" -> \E p \in Possible(cur, ext) : Reads(p, ans)
         [] call.op = "has" -> ans \/ Nil \in Possible(cur, ext)
         [] call.op = "set" -> ans => \E p \in Possible(cur, ext) : Takes(p, call.v)
         [] call.op = "deleteProperty" -> ans => Nil \in Possible(cur, ext)
         [] call.op = "defineProperty" ->
              ans => (\E p \in Possible(cur, ext) : ESAllows(p, call.d, ext)) /\ ~FalsePromise(cur, call.d)
         [] call.op = "getOwnPropertyDescriptor" ->
              IF ans = <<>> THEN Nil \in Possible(cur, ext)
              ELSE ESResult(Nil, complete(ans[1])) \in Possible(cur, ext) /\ ~FalsePromise(cur, complete(ans[1]))
         [] call.op = "ownKeys" ->
              IsInjective(ans) /\ fixed \subseteq ToSet(ans) /\ (~ext => ToSet(ans) = own)
         [] call.op = "getPrototypeOf" -> ext \/ ans = h[t].proto
         [] call.op = "setPrototypeOf" -> ans => ext \/ call.v = h[t].proto
         [] call.op = "isExtensible" -> ans = ext
         [] call.op = "preventExtensions" -> ans => ~ext
=============================================================================
