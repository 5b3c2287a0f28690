---------------------------- MODULE ObjectCalls ----------------------------
(***************************************************************************)
(* One call of a function of Reflect or Object in every scene: an object c *)
(* that inherits from o, or from a proxy x of o, o inherits from p.  The   *)
(* step sets the scene and makes the call.  The properties compare the     *)
(* outcome with ObjectSemantics on the heap before the call.               *)
(***************************************************************************)
EXTENDS ObjectSemantics

VARIABLES
    heap,          \* the objects
    done           \* no call, or the call, the heap before it and its result

callsVars == <<heap, done>>

Objs == {"c", "o", "p", "x"}
Flags == {NotSet, "F", "T"}
Descrs == {d \in [value : Values \cup {NotSet}, w : Flags, e : Flags, c : Flags,
                  get : Funcs \cup {"u", NotSet}, set : Funcs \cup {"u", NotSet}] : toPropertyDescriptor(d)}

Acc(g, s, w, e, c) == [Nil EXCEPT !.t = "prop", !.acc = TRUE, !.g = g, !.s = s, !.w = w, !.e = e, !.c = c]
DataSlots == {valueProp("v1", w, e, c) : w \in BOOLEAN, e \in BOOLEAN, c \in BOOLEAN}
AccSlots == {Acc(g, s, w, e, c) : g \in {"f1", NotSet}, s \in {"f1", NotSet}, w \in BOOLEAN, e \in BOOLEAN, c \in BOOLEAN}
Slots == {Nil} \cup DataSlots \cup AccSlots
FewSlots == {Nil, Plain("v1"), valueProp("v1", FALSE, TRUE, FALSE), valueProp("v1", TRUE, FALSE, FALSE),
             Acc("f1", "f1", FALSE, TRUE, TRUE), Acc("f1", NotSet, FALSE, TRUE, FALSE), Acc(NotSet, "f1", FALSE, TRUE, FALSE)}

\* Objects with given properties, put in the order of ks
With(obj, ks, slot) ==
    [obj EXCEPT !.slots = [k \in Keys |-> IF k \in ToSet(ks) THEN slot[k] ELSE Nil],
                !.names = SelectSeq(ks, LAMBDA k : k \notin Sym /\ slot[k] # Nil),
                !.syms = SelectSeq(ks, LAMBDA k : k \in Sym /\ slot[k] # Nil)]
One(k, slot, up, ext) == With(Base(up, ext), <<k>>, [j \in {k} |-> slot])

\* The elements of an arguments object are its variables; they were made writable.
Args(obj) == [obj EXCEPT !.mapped = {k \in Idx : obj.slots[k].t # "nil" /\ ~obj.slots[k].acc /\ obj.slots[k].w}, !.var = "v1"]

\* c inherits from o, or from the proxy x of o
Scene(k, sc, so, sp, extc, exto, up, trap) ==
    [c |-> One(k, sc, up, extc), o |-> One(k, so, "p", exto), p |-> One(k, sp, Null, TRUE), x |-> NewProxy("o", trap)]
Scenes(k) == {Scene(k, sc, so, sp, b, TRUE, up, NoTrap) :
             sc \in FewSlots, so \in FewSlots, sp \in FewSlots, b \in BOOLEAN, up \in {"o", "x"}}
Lone(ks, slots, bs, t) == {[Scene(k, Nil, so, Nil, TRUE, b, "x", t) EXCEPT !.o = Args(@)] : k \in ks, so \in slots, b \in bs}

Call(op, o, k, recv, v, d) == [op |-> op, o |-> o, k |-> k, recv |-> recv, v |-> v, d |-> d]
NoDescr == Descr(NotSet, NotSet, NotSet, NotSet)
Done(h, call, r) ==
    /\ done' = <<[call |-> call, before |-> h, r |-> r]>>
    /\ heap' = r.h

---------------------------------------------------------------------------
(* Calls without traps.                                                    *)

AccessKeys == Keys \ {"1"}
Places == {<<"c", "c">>, <<"o", "o">>, <<"x", "x">>, <<"o", "c">>, <<"x", "c">>, <<"c", "p">>, <<"p", "c">>, <<"x", "o">>, <<"c", "o">>}

\* [builtin_reflect.go builtin_reflect_get]
ReflectGet ==
    \E k \in AccessKeys, pl \in Places : \E h \in Scenes(k) :
        Done(h, Call("get", pl[1], k, pl[2], "u", NoDescr), get(Begin(h), pl[1], k, pl[2]))

\* [builtin_reflect.go builtin_reflect_has]
ReflectHas ==
    \E k \in AccessKeys, o \in Objs : \E h \in Scenes(k) :
        Done(h, Call("has", o, k, o, "u", NoDescr), hasProperty(Begin(h), o, k))

\* [builtin_reflect.go builtin_reflect_set]
ReflectSet ==
    \/ \E k \in AccessKeys, pl \in Places : \E h \in Scenes(k) :
         Done(h, Call("set", pl[1], k, pl[2], "v2", NoDescr), set(Begin(h), pl[1], k, "v2", pl[2]))
    \/ \E k \in AccessKeys, o \in {"o", "x", "c"} : \E h \in Lone({k}, Slots, BOOLEAN, NoTrap) :
         Done(h, Call("set", o, k, o, "v2", NoDescr), set(Begin(h), o, k, "v2", o))

\* [builtin_reflect.go builtin_reflect_deleteProperty]
ReflectDelete ==
    \E k \in AccessKeys, o \in {"o", "x"} : \E h \in Lone({k}, Slots, BOOLEAN, NoTrap) :
        Done(h, Call("deleteProperty", o, k, o, "u", NoDescr), delete(Begin(h), o, k))

\* [builtin_reflect.go builtin_reflect_defineProperty]
ReflectDefine ==
    \E k \in {"0", "a"}, d \in Descrs : \E h \in Lone({k}, Slots, BOOLEAN, NoTrap) :
        Done(h, Call("defineProperty", "o", k, "o", "u", d), defineOwnProperty(Begin(h), "o", k, d))

\* Objects with several properties, named in the order they were made
Orders == {<<"a", "1", "s", "0">>, <<"1", "0", "a", "s">>}
Rich(slots, more) ==
    {[Scene("a", Nil, Nil, Nil, TRUE, b, "x", NoTrap) EXCEPT !.o = Args(With(Base("p", b), ks, f))] :
        b \in BOOLEAN, ks \in Orders, f \in {g \in [Keys -> slots \cup {Nil}] : \A k \in {"1", "s"} : g[k] \in more}}
RichScenes == Rich(FewSlots, {Nil, Plain("v1"), valueProp("v1", FALSE, FALSE, TRUE)})

\* [builtin_object.go object_seal] and object_freeze
ObjectHarden ==
    \E h \in RichScenes, o \in {"o", "x"}, level \in {"seal", "freeze"} :
        Done(h, Call(level, o, "a", o, "u", NoDescr), harden(Begin(h), o, level))

\* [builtin_object.go object_isFrozen] and object_isSealed
ObjectIsHardened ==
    \E h \in RichScenes, o \in {"o", "x"}, level \in {"seal", "freeze"} :
        Done(h, Call("isHardened", o, "a", o, level, NoDescr), isHardened(Begin(h), o, level))

\* [builtin_reflect.go builtin_reflect_ownKeys] and keys, getOwnPropertyNames, getOwnPropertySymbols of Object
ReflectKeys ==
    \E h \in RichScenes, o \in {"o", "x"}, ks \in {<<Keys, TRUE>>, <<Sym, TRUE>>, <<Idx \cup Str, TRUE>>, <<Idx \cup Str, FALSE>>} :
        Done(h, Call("keys", o, "a", o, ks, NoDescr), ownKeys(Begin(h), o, ks[1], ks[2]))

\* [builtin_object.go object_entries] and values
ObjectEntries == \E h \in RichScenes, o \in {"o", "x"} : Done(h, Call("entries", o, "a", o, "u", NoDescr), values(Begin(h), o))

\* o gets the properties of c, which has two
AssignScenes ==
    {[Scene("a", Nil, Nil, sp, TRUE, b, up, NoTrap) EXCEPT
        !.c = Args(With(Base(Null, TRUE), <<"a", "0">>, f)), !.o = With(Base("p", b), <<"0", "a">>, g)] :
        sp \in {Nil, valueProp("v1", FALSE, TRUE, FALSE), Acc("f1", "f1", FALSE, TRUE, TRUE)}, b \in BOOLEAN, up \in {"o"},
        f \in [{"0", "a"} -> FewSlots], g \in [{"0", "a"} -> FewSlots]}

\* [builtin_object.go object_assign]
ObjectAssign == \E h \in AssignScenes : Done(h, Call("assign", "o", "a", "c", "u", NoDescr), assign(Begin(h), "o", "c"))

\* [builtin_object.go object_getOwnPropertyDescriptor..object_getOwnPropertyDescriptors] what is read is defined on another object
ObjectCopy ==
    \E k \in AccessKeys, o \in {"o", "x"} : \E h \in Lone({k}, Slots, BOOLEAN, NoTrap) :
        /\ Slot(h, "o", k) # Nil
        /\ Done(h, Call("copy", o, k, "c", "u", NoDescr),
                AndThen(getOwnProp(Begin(h), o, k), LAMBDA r : defineProperties(r, "c", <<<<k, descriptorOf(r.ret)>>>>)))

\* Every chain ends, through proxies too.
Ends(h) ==
    LET up(o) == IF o = Null THEN Null ELSE h[Real(h, o)].proto IN \A o \in Objs : up(up(up(up(o)))) = Null

\* Prototypes, a chain of any shape
ProtoScenes ==
    {h \in {[Scene("a", Nil, Nil, Nil, TRUE, b, "o", NoTrap) EXCEPT !.c.proto = u1, !.o.proto = u2, !.p.proto = u3] :
            u1 \in Objs \cup {Null}, u2 \in Objs \cup {Null}, u3 \in Objs \cup {Null}, b \in BOOLEAN} : Ends(h)}
Trapping(h, op, answers) ==
    {h} \cup {[h EXCEPT !.x = NewProxy("o", [name |-> op, by |-> {"js"}, ans |-> a])] : a \in answers}

\* [builtin_reflect.go builtin_reflect_setPrototypeOf]
ReflectSetPrototype ==
    \E h0 \in ProtoScenes, o \in Objs, v \in Objs \cup {Null} : \E h \in Trapping(h0, "setPrototypeOf", BOOLEAN) :
        Done(h, Call("setPrototypeOf", o, "a", o, v, NoDescr), setProto(Begin(h), o, v))

\* [builtin_reflect.go builtin_reflect_getPrototypeOf]
ReflectGetPrototype ==
    \E h0 \in ProtoScenes, o \in Objs : \E h \in Trapping(h0, "getPrototypeOf", {"p", Null}) :
        Done(h, Call("getPrototypeOf", o, "a", o, "u", NoDescr), proto(Begin(h), o))

\* [builtin_reflect.go builtin_reflect_isExtensible]
ReflectIsExtensible ==
    \E h0 \in ProtoScenes, o \in {"o", "x"} : \E h \in Trapping(h0, "isExtensible", BOOLEAN) :
        Done(h, Call("isExtensible", o, "a", o, "u", NoDescr), isExtensible(Begin(h), o))

\* [builtin_reflect.go builtin_reflect_preventExtensions]
ReflectPreventExtensions ==
    \E h0 \in ProtoScenes, o \in {"o", "x"} : \E h \in Trapping(h0, "preventExtensions", BOOLEAN) :
        Done(h, Call("preventExtensions", o, "a", o, "u", NoDescr), preventExtensions(Begin(h), o))

\* [builtin_object.go objectproto_isPrototypeOf]
ObjectIsPrototypeOf ==
    \E h \in ProtoScenes, o \in Objs, v \in {"c", "o", "p"} :
        Done(h, Call("isPrototypeOf", o, "a", v, "u", NoDescr), isPrototypeOf(Begin(h), o, v))

---------------------------------------------------------------------------
(* Calls on a proxy with a trap.                                           *)

Bys == {{"js"}, {"Str"}, {"Idx"}, {"Sym"}, {"Idx", "Str"}, {}}
Trap(name, by, ans) == [name |-> name, by |-> by, ans |-> ans]

\* [proxy.go proxyTrap..proxyHandler] has, get, set and delete of a key
TrapKey ==
    \E by \in Bys, k \in AccessKeys, op \in {"has", "get", "set", "deleteProperty"}, v \in {"v1", "v2"} :
    \E ans \in IF op = "get" THEN {"u", "v1", "v2"} ELSE BOOLEAN :
    \E h \in Lone({k}, Slots, BOOLEAN, Trap(op, by, ans)) :
        LET c == Begin(h) IN
        /\ op \in {"has", "get", "deleteProperty"} => v = "v2"
        /\ Done(h, Call(op, "x", k, "x", v, NoDescr),
                CASE op = "has" -> hasProperty(c, "x", k)
                  [] op = "get" -> get(c, "x", k, "x")
                  [] op = "set" -> set(c, "x", k, v, "x")
                  [] op = "deleteProperty" -> delete(c, "x", k))

\* [builtin_reflect.go builtin_reflect_getOwnPropertyDescriptor]
TrapDescriptor ==
    \E ans \in {<<>>} \cup {<<d>> : d \in Descrs} :
    \E h \in Lone({"a"}, Slots, BOOLEAN, Trap("getOwnPropertyDescriptor", {"js"}, ans)) :
        Done(h, Call("getOwnPropertyDescriptor", "x", "a", "x", "u", NoDescr), getOwnProp(Begin(h), "x", "a"))

\* [proxy.go jsProxyHandler.definePropertyStr..jsProxyHandler.definePropertySym]
TrapDefine ==
    \E d \in Descrs, ans \in BOOLEAN : \E h \in Lone({"a"}, Slots, BOOLEAN, Trap("defineProperty", {"js"}, ans)) :
        Done(h, Call("defineProperty", "x", "a", "x", "u", d), defineOwnProperty(Begin(h), "x", "a", d))

\* [proxy.go jsProxyHandler.ownKeys]
TrapKeys ==
    \E h \in Rich({Nil, Plain("v1"), valueProp("v1", TRUE, TRUE, FALSE)}, {Nil}), ks \in SeqOf({"0", "a", "s"}, 3) :
        LET g == [h EXCEPT !.x = NewProxy("o", Trap("ownKeys", {"js"}, ks))] IN
        Done(g, Call("ownKeys", "x", "a", "x", "u", NoDescr), ownKeys(Begin(g), "x", Keys, TRUE))

\* [builtin_proxy.go builtin_proxy_revocable] whatever is done with a revoked proxy
TrapRevoked ==
    \E h0 \in Lone({"a"}, FewSlots, {TRUE}, Trap("has", {"js"}, TRUE)), op \in {"get", "has", "set", "deleteProperty", "keys", "setPrototypeOf"} :
        LET h == revoke(h0, "x")
            c == Begin(h)
        IN Done(h, Call("revoked", "x", "a", "x", "u", NoDescr),
                CASE op = "get" -> get(c, "c", "a", "c")
                  [] op = "has" -> hasProperty(c, "c", "a")
                  [] op = "set" -> setOwn(c, "c", "a", "v2")
                  [] op = "deleteProperty" -> delete(c, "x", "a")
                  [] op = "keys" -> ownKeys(c, "x", Keys, TRUE)
                  [] op = "setPrototypeOf" -> setProto(c, "x", Null))

CallsInit == heap = [c |-> Base(Null, TRUE)] /\ done = <<>>

CallsNext ==
    /\ done = <<>>
    /\ \/ ReflectGet \/ ReflectHas \/ ReflectSet \/ ReflectDelete \/ ReflectDefine
       \/ ObjectHarden \/ ObjectIsHardened \/ ReflectKeys \/ ObjectEntries \/ ObjectAssign \/ ObjectCopy
       \/ ReflectSetPrototype \/ ReflectGetPrototype \/ ReflectIsExtensible \/ ReflectPreventExtensions \/ ObjectIsPrototypeOf
       \/ TrapKey \/ TrapDescriptor \/ TrapDefine \/ TrapKeys \/ TrapRevoked

---------------------------------------------------------------------------
(* Properties.                                                             *)

\* Elements of an arguments object that still are variables and should not be listed
Hidden(h, o) == {k \in h[o].mapped : ~h[o].slots[k].e}

\* Where goja is known to differ from ECMAScript: a getter and setter given as undefined are not seen as a change of
\* the kind of a property; an accessor property takes a writable flag and keeps one it had as data property, so that
\* it can be written without a setter; a symbol assigned with a receiver inside the chain goes to the next object;
\* keys, entries and assign take an element of an arguments object that still is a variable to be enumerable.
Differs(e) ==
    LET p == e.before["o"].slots[e.call.k]
        d == e.call.d
        n == e.call
    IN  \/ n.op = "defineProperty" /\ ~p.acc /\ ~p.c /\ p # Nil /\ IsAccessor(d) /\ {d.get, d.set} \subseteq {NotSet, "u"}
        \/ n.op = "defineProperty" /\ p.acc /\ (d.w # NotSet \/ (d.value # NotSet /\ p.w))
        \/ n.op = "set" /\ p.acc /\ p.w /\ p.s = NotSet
        \/ n.op = "set" /\ n.k \in Sym /\ n.o # n.recv /\ n.recv \in ToSet(Path(e.before, n.o))
        \/ n.op \in {"keys", "entries"} /\ n.o = "o" /\ Hidden(e.before, "o") # {}
        \/ n.op = "assign" /\ Hidden(e.before, "c") # {}

Expected(h, n) ==
    CASE n.op = "get" -> ESGet(h, n.o, n.k, n.recv)
      [] n.op = "has" -> ESHas(h, n.o, n.k)
      [] n.op = "set" -> ESSet(h, n.o, n.k, n.v, n.recv)
      [] n.op = "deleteProperty" -> ESDelete(h, n.o, n.k)
      [] n.op = "defineProperty" -> ESDefine(h, n.o, n.k, n.d)

OwnKeys(h, o) == {k \in Keys : Own(h, o, k) # Nil}

\* a comes before b in the list of the keys of an object made in the order of its names
Precedes(h, o, a, b) ==
    LET rank(k) == IF k \in Idx THEN 0 ELSE IF k \in Str THEN 1 ELSE 2
        made == IF a \in Idx THEN Idxs ELSE h[Real(h, o)].names \o h[Real(h, o)].syms
    IN  rank(a) < rank(b) \/ (rank(a) = rank(b) /\ \E i, j \in DOMAIN made : i < j /\ made[i] = a /\ made[j] = b)

InOrder(h, o, ks) == \A i, j \in DOMAIN ks : i < j => Precedes(h, o, ks[i], ks[j])

\* The keys of Object.assign are independent of each other.
AssignAgrees(e) ==
    LET h == e.before
        from == {k \in OwnKeys(h, "c") : Own(h, "c", k).e}
        val(k) == ESGet(h, "c", k, "c").ret
        out == [k \in Keys |-> ESSet(h, "o", k, val(k), "o")]
        follows(o) ==
            LET fails == {k \in from : ~o[k].ret}
                reached(k) == k \in from /\ \A f \in fails : f = k \/ Precedes(h, "c", k, f)
            IN  /\ (e.r.err # "") = (fails # {})
                /\ \A k \in Keys : Own(e.r.h, "o", k) = IF reached(k) /\ o[k].chg # NoChange THEN o[k].chg.p ELSE Own(h, "o", k)
    IN follows(out)

\* Reflect and Object without traps do what ECMAScript says of the heap as it was, on ordinary objects, the arguments
\* of a function and a proxy without traps (object.go setOwn, setForeign, set; builtin_object.go).
AccessAgrees ==
    \A i \in DOMAIN done :
      LET e == done[i]
          n == e.call
          h == e.before
      IN  h["x"].trap.name = "none" /\ ~Differs(e) =>
            CASE n.op \in {"get", "has", "set", "deleteProperty", "defineProperty"} -> Agrees(h, e.r, Expected(h, n))
              [] n.op = "keys" -> /\ ToSet(e.r.ret) = {k \in OwnKeys(h, n.o) : k \in n.v[1] /\ (n.v[2] \/ Own(h, n.o, k).e)}
                                  /\ InOrder(h, n.o, e.r.ret)
              [] n.op = "entries" ->
                   LET ks == [j \in DOMAIN e.r.ret |-> e.r.ret[j][1]] IN
                   /\ ToSet(ks) = {k \in OwnKeys(h, n.o) \ Sym : Own(h, n.o, k).e}
                   /\ InOrder(h, n.o, ks)
                   /\ \A j \in DOMAIN ks : e.r.ret[j][2] = ESGet(h, n.o, ks[j], n.o).ret
              [] n.op = "copy" -> Own(e.r.h, "c", n.k) = Own(h, n.o, n.k)
              [] n.op = "assign" -> AssignAgrees(e)
              [] n.op = "setPrototypeOf" -> /\ e.r.ret => h[Real(h, n.o)].proto = n.v \/ (h[Real(h, n.o)].ext /\ (Ends(e.r.h) \/ n.v = "x" \/ \E o \in Objs : h[o].proto = "x"))
                                            /\ ~e.r.ret => ~h[Real(h, n.o)].ext \/ ~Ends([h EXCEPT ![Real(h, n.o)].proto = n.v])
              [] n.op = "isPrototypeOf" -> e.r.ret = \E o \in ToSet(Path(h, n.recv)) : h[o].proto = n.o
              [] OTHER -> (e.r.err # "") = (n.op = "revoked")

\* A trap is called when the handler has one for this kind of key, and what it answers is refused exactly when no object
\* that shares the permanent facts of the target could answer so; the target is left alone.  Accessor properties that
\* cannot be configured are left out: isCompatibleDescriptor compares their functions the wrong way round; and so are
\* lists of keys without a permanent element of an arguments object that still is a variable: they are not refused.
ProxyHonest ==
    \A i \in DOMAIN done :
      LET e == done[i]
          n == e.call
          t == e.before["x"].trap
          cur == e.before["o"].slots[n.k]
          keyed == n.op \in {"has", "get", "set", "deleteProperty", "getOwnPropertyDescriptor", "defineProperty"}
          asks == t.name = n.op /\ n.o = "x" /\ (keyed => TrapFor(t.by, n.k) # "none")
          missed == n.op = "ownKeys" /\ \E k \in e.before["o"].mapped \ ToSet(t.ans) : ~e.before["o"].slots[k].c
          accessor == \/ n.op = "defineProperty" /\ IsAccessor(n.d)
                      \/ n.op = "getOwnPropertyDescriptor" /\ t.ans # <<>> /\ IsAccessor(t.ans[1])
      IN  /\ asks /\ ~(n.op \in {"defineProperty", "getOwnPropertyDescriptor"} /\ cur # Nil /\ ~cur.c /\ (cur.acc \/ accessor)) /\ ~missed =>
               /\ (e.r.err = "") = Honest(e.before, n, t.ans)
               /\ n.op \notin {"preventExtensions"} => e.r.h = e.before
               /\ e.r.err = "" /\ n.op # "getOwnPropertyDescriptor" => e.r.ret = t.ans

\* Object.freeze and Object.seal make every own property permanent and change nothing else, and isFrozen and isSealed
\* say so of an object exactly when it holds (builtin_object.go), but never of an arguments object with an element that
\* still is a variable.
HardenAgrees ==
    \A i \in DOMAIN done :
      LET e == done[i]
          n == e.call
          o == Real(e.before, n.o)
          level == IF n.op = "isHardened" THEN n.v ELSE n.op
          Firm(p) == p = Nil \/ (~p.c /\ (level = "freeze" /\ p.t = "data" => ~p.w))
          Hard(h) == ~h[o].ext /\ \A k \in Keys : Firm(Own(h, o, k))
          Firmed(p) == IF p = Nil THEN p ELSE [p EXCEPT !.c = FALSE, !.w = @ /\ level # "freeze"]
      IN  /\ n.op \in {"seal", "freeze"} =>
               /\ e.r.err = "" /\ ~e.r.h[o].ext
               /\ \A q \in {"c", "o", "p"}, k \in Keys :
                    Own(e.r.h, q, k) = IF q = o THEN Firmed(Own(e.before, q, k)) ELSE Own(e.before, q, k)
          /\ n.op = "isHardened" => e.r.ret = (Hard(e.before) /\ (n.o = "o" => e.before["o"].mapped = {}))
=============================================================================
