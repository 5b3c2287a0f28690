------------------------------ MODULE Objects ------------------------------
(***************************************************************************)
(* Property access (object.go, proxy.go, builtin_proxy.go, object_args.go, *)
(* builtin_object.go, builtin_reflect.go): ordinary objects on a prototype *)
(* chain, an arguments object whose elements are the function's variables, *)
(* and a proxy whose handler answers one trap with anything it likes.      *)
(* goja splits [[Set]] in two: setOwn when receiver and object coincide,   *)
(* setForeign on the way up the chain.  A `throw` flag turns a refusal     *)
(* into a TypeError at the point where it happens; here the refusal is the *)
(* result FALSE, and err is set by what throws in any case.                *)
(* What a trap does to the target it does before its answer is looked at,  *)
(* so a target changed by it is the target the checks see.                 *)
(***************************************************************************)
EXTENDS PropertyDesc, Integers, Sequences, FiniteSets, SequencesExt, FiniteSetsExt

CONSTANTS Idxs, Str, Sym      \* property keys: the canonical array indices in ascending order, other strings, symbols

Idx == ToSet(Idxs)
Keys == Idx \cup Str \cup Sym
Null == "null"
NoTrap == [name |-> "none", by |-> {}, ans |-> "none"]

\* [object.go baseObject.init]
Base(proto, ext) ==
    [kind |-> "base", slots |-> [k \in Keys |-> Nil], names |-> <<>>, syms |-> <<>>, proto |-> proto, ext |-> ext,
     target |-> Null, trap |-> NoTrap, mapped |-> {}, var |-> "u"]

\* [proxy.go _newProxyObject] trap: the one the handler has; a revoked proxy has no target.
NewProxy(target, trap) == [Base(Null, FALSE) EXCEPT !.kind = "proxy", !.target = target, !.trap = trap]

\* [proxy.go proxyObject.revoke]
revoke(h, x) == [h EXCEPT ![x].target = Null, ![x].trap = NoTrap]

Begin(h) == [h |-> h, err |-> "", ret |-> "u", log |-> <<>>, handled |-> FALSE]
Ret(c, r) == [c EXCEPT !.ret = r]
Throw(c) == [c EXCEPT !.err = "TypeError"]
Log(c, entry) == [c EXCEPT !.log = Append(@, entry)]
Handled(c) == [c EXCEPT !.handled = TRUE]
\* go on unless it threw
AndThen(c, Op(_)) == IF c.err # "" THEN c ELSE Op(c)

IsProxy(c, o) == c.h[o].kind = "proxy"
Revoked(c, o) == c.h[o].target = Null

\* Which of the functions of a handler is called for a key.
\* [builtin_proxy.go nativeProxyHandler.getOwnPropertyDescriptorStr..nativeProxyHandler.hasSym] and the other traps
nativeTrap(by, k) ==
    IF k \in Sym THEN IF "Sym" \in by THEN "Sym" ELSE "none"
    ELSE IF k \in Idx /\ "Idx" \in by THEN "Idx"
    ELSE IF "Str" \in by THEN "Str" ELSE "none"

\* [proxy.go jsProxyHandler.proxyCall..jsProxyHandler.construct] one function for all keys
TrapFor(by, k) == IF "js" \in by THEN "js" ELSE nativeTrap(by, k)

\* [builtin_proxy.go nativeProxyHandler.getStr..nativeProxyHandler.construct]
Trapped(c, x, name, k) == c.h[x].trap.name = name /\ TrapFor(c.h[x].trap.by, k) # "none"
Answer(c, x) == c.h[x].trap.ans
TrapCall(c, x, name, k) == Log(c, <<name, TrapFor(c.h[x].trap.by, k)>>)
\* a trap that is not about a key
PlainTrap(c, x, name) == c.h[x].trap.name = name

---------------------------------------------------------------------------
(* Own properties.                                                         *)

\* [object_args.go argumentsObject.getStr..argumentsObject.getOwnPropStr] the value is the variable's.
mappedProp(a, k) == valueProp(a.var, a.slots[k].w, a.slots[k].e, a.slots[k].c)

\* [object.go baseObject.getOwnPropIdx..baseObject.getOwnPropStr]
Slot(h, o, k) == IF k \in h[o].mapped THEN mappedProp(h[o], k) ELSE h[o].slots[k]

\* [object.go PropertyDescriptor.complete]
complete(d) ==
    LET acc == d.get # NotSet \/ d.set # NotSet
        dflt(x, y) == IF x = NotSet THEN y ELSE x
    IN [d EXCEPT !.e = dflt(@, "F"), !.c = dflt(@, "F"),
                 !.get = IF acc THEN dflt(@, "u") ELSE @, !.set = IF acc THEN dflt(@, "u") ELSE @,
                 !.value = IF acc THEN @ ELSE dflt(@, "u"), !.w = IF acc THEN @ ELSE dflt(@, "F")]

\* [object.go PropertyDescriptor.IsAccessor..PropertyDescriptor.IsGeneric]
IsAccessor(d) == d.set # NotSet \/ d.get # NotSet
IsData(d) == d.value # NotSet \/ d.w # NotSet

\* [proxy.go proxyObject.__isCompatibleDescriptor] cur: a slot or Nil
isCompatibleDescriptor(ext, d, cur) ==
    IF cur = Nil THEN ext
    ELSE IF cur.c THEN TRUE
    ELSE /\ d.c # "T"
         /\ d.e = NotSet \/ (d.e = "T") = cur.e
         /\ \/ ~IsAccessor(d) /\ ~IsData(d)
            \/ IF IsData(d) = cur.acc THEN d.c # "F"
               ELSE IF ~cur.acc THEN ~(d.w = "T" /\ ~cur.w) /\ (~cur.w => d.value \in {NotSet, cur.v})
               ELSE ~(d.set # NotSet /\ d.set = cur.s) /\ ~(d.get # NotSet /\ d.get = cur.g)

\* [builtin_object.go toValueProp] a slot as a descriptor object describes it
toValueProp(d) ==
    [Nil EXCEPT !.t = "prop", !.v = d.value, !.w = d.w = "T", !.e = d.e = "T", !.c = d.c = "T",
                !.g = propGetter(d.get), !.s = propGetter(d.set),
                !.acc = propGetter(d.get) # NotSet \/ propGetter(d.set) # NotSet]

\* [proxy.go proxyObject.proxyGetOwnPropertyDescriptor] ans: nothing, or a descriptor. Returns a slot.
proxyGetOwnPropertyDescriptor(c, cur, ext, ans) ==
    LET d == complete(ans[1]) IN
    IF ans = <<>> THEN IF cur # Nil /\ (~cur.c \/ ~ext) THEN Throw(c) ELSE Ret(c, Nil)
    ELSE IF \/ ~isCompatibleDescriptor(ext, d, cur)
            \/ d.c = "F" /\ (cur = Nil \/ cur.c \/ (d.w = "F" /\ cur.w))
    THEN Throw(c)
    ELSE Ret(c, IF d.w = "T" /\ d.c = "T" /\ d.e = "T" THEN Plain(d.value) ELSE toValueProp(ans[1]))

\* [proxy.go proxyObject.getOwnPropStr..proxyObject.getOwnPropSym] the target of a proxy is no proxy here
getOwnProp(c, o, k) ==
    LET t == c.h[o].target IN
    IF ~IsProxy(c, o) THEN Ret(c, Slot(c.h, o, k))
    ELSE IF Revoked(c, o) THEN Throw(c)
    ELSE IF Trapped(c, o, "getOwnPropertyDescriptor", k)
    THEN proxyGetOwnPropertyDescriptor(TrapCall(c, o, "getOwnPropertyDescriptor", k), Slot(c.h, t, k), c.h[t].ext, Answer(c, o))
    ELSE Ret(c, Slot(c.h, t, k))

\* [proxy.go proxyObject.hasOwnPropertyStr..proxyObject.hasOwnPropertySym]
hasOwnProperty(c, o, k) == AndThen(getOwnProp(c, o, k), LAMBDA r : Ret(r, r.ret # Nil))

\* [object.go baseObject._put]
Listed(obj, k) ==
    IF obj.slots[k] # Nil THEN obj
    ELSE IF k \in Sym THEN [obj EXCEPT !.syms = Append(@, k)] ELSE [obj EXCEPT !.names = Append(@, k)]
put(h, o, k, slot) == [h EXCEPT ![o] = [Listed(h[o], k) EXCEPT !.slots[k] = slot]]

\* [object_args.go argumentsObject.defineOwnPropertyStr] a definition that makes it an accessor or read-only cuts the tie.
defineMapped(c, o, k, d) ==
    LET old == [Slot(c.h, o, k) EXCEPT !.t = "prop", !.w = TRUE]
        cut(p) == p.t = "prop" /\ (p.acc \/ ~p.w)
        tied(p) == IF p.acc THEN c.h ELSE [c.h EXCEPT ![o].var = p.v]
        become(p) == IF cut(p) THEN [tied(p) EXCEPT ![o].mapped = @ \ {k}, ![o].slots[k] = p]
                     ELSE [tied(p) EXCEPT ![o].slots[k] = [@ EXCEPT !.c = p.c, !.e = p.e]]
        apply(r) == IF r.ok THEN [Ret(c, TRUE) EXCEPT !.h = become(r.p)] ELSE Ret(c, FALSE)
    IN apply(DefineOwnProperty(old, d, c.h[o].ext))

\* [object.go baseObject.defineOwnPropertyStr..baseObject.defineOwnPropertySym]
defineBase(c, o, k, d) ==
    LET apply(r) == IF r.ok THEN [Ret(c, TRUE) EXCEPT !.h = put(c.h, o, k, r.p)] ELSE Ret(c, FALSE)
    IN IF k \in c.h[o].mapped THEN defineMapped(c, o, k, d)
       ELSE apply(DefineOwnProperty(c.h[o].slots[k], d, c.h[o].ext))

\* Defect ProxyHonest is sensitive to: a trap may claim to have made a permanent property read-only.
DefineCheckLax(c, cur, ext, d, ans) ==
    IF ~ans THEN Ret(c, FALSE)
    ELSE IF IF cur = Nil THEN ~ext \/ d.c = "F" ELSE ~isCompatibleDescriptor(ext, d, cur) \/ (d.c = "F" /\ cur.c)
    THEN Throw(c) ELSE Ret(c, TRUE)

\* [proxy.go proxyObject.proxyDefineOwnPropertyPreCheck..proxyObject.proxyDefineOwnPropertyPostCheck]
proxyDefineCheck(c, cur, ext, d, ans) ==
    IF ~ans THEN Ret(c, FALSE)
    ELSE IF IF cur = Nil THEN ~ext \/ d.c = "F"
            ELSE \/ ~isCompatibleDescriptor(ext, d, cur)
                 \/ d.c = "F" /\ cur.c
                 \/ cur.v # NotSet /\ ~cur.c /\ cur.w /\ d.w = "F"
    THEN Throw(c) ELSE Ret(c, TRUE)

\* [proxy.go proxyObject.defineOwnPropertyStr..proxyObject.defineOwnPropertySym]
defineOwnProperty(c, o, k, d) ==
    LET t == c.h[o].target IN
    IF ~IsProxy(c, o) THEN defineBase(c, o, k, d)
    ELSE IF Revoked(c, o) THEN Throw(c)
    ELSE IF Trapped(c, o, "defineProperty", k)
    THEN proxyDefineCheck(TrapCall(c, o, "defineProperty", k), Slot(c.h, t, k), c.h[t].ext, d, Answer(c, o))
    ELSE defineBase(c, t, k, d)

\* [object_args.go argumentsObject.deleteStr] and [object.go baseObject._delete] with the name taken out of its list
remove(h, o, k) ==
    [h EXCEPT ![o].slots[k] = Nil, ![o].mapped = @ \ {k},
              ![o].names = SelectSeq(@, LAMBDA n : n # k), ![o].syms = SelectSeq(@, LAMBDA n : n # k)]

\* [object.go baseObject.checkDeleteProp..baseObject.deleteStr]
deleteBase(c, o, k) ==
    IF Slot(c.h, o, k) # Nil /\ ~Slot(c.h, o, k).c THEN Ret(c, FALSE) ELSE [Ret(c, TRUE) EXCEPT !.h = remove(c.h, o, k)]

\* [proxy.go proxyObject.proxyDeleteCheck..proxyObject.deleteSym]
delete(c, o, k) ==
    LET t == c.h[o].target
        cur == Slot(c.h, t, k)
        l == TrapCall(c, o, "deleteProperty", k)
    IN  IF ~IsProxy(c, o) THEN deleteBase(c, o, k)
        ELSE IF Revoked(c, o) THEN Throw(c)
        ELSE IF ~Trapped(c, o, "deleteProperty", k) THEN deleteBase(c, t, k)
        ELSE IF Answer(c, o) /\ cur # Nil /\ (~cur.c \/ ~c.h[t].ext) THEN Throw(l)
        ELSE Ret(l, Answer(c, o))

---------------------------------------------------------------------------
(* Prototypes and extensibility.                                           *)

\* [proxy.go proxyObject.proto]
proto(c, o) ==
    LET t == c.h[o].target IN
    IF ~IsProxy(c, o) THEN Ret(c, c.h[o].proto)
    ELSE IF Revoked(c, o) THEN Throw(c)
    ELSE IF ~PlainTrap(c, o, "getPrototypeOf") THEN Ret(c, c.h[t].proto)
    ELSE IF ~c.h[t].ext /\ Answer(c, o) # c.h[t].proto THEN Throw(c) ELSE Ret(c, Answer(c, o))

\* the objects reached from p before a proxy or the end
RECURSIVE Chain(_, _)
Chain(h, p) == IF p = Null THEN {} ELSE IF h[p].kind = "proxy" THEN {p} ELSE {p} \cup Chain(h, h[p].proto)

\* [object.go baseObject.setProto]
setProtoBase(c, o, p) ==
    IF c.h[o].proto = p THEN Ret(c, TRUE)
    ELSE IF ~c.h[o].ext \/ o \in Chain(c.h, p) THEN Ret(c, FALSE)
    ELSE [Ret(c, TRUE) EXCEPT !.h[o].proto = p]

\* [proxy.go proxyObject.setProto]
setProto(c, o, p) ==
    LET t == c.h[o].target IN
    IF ~IsProxy(c, o) THEN setProtoBase(c, o, p)
    ELSE IF Revoked(c, o) THEN Throw(c)
    ELSE IF ~PlainTrap(c, o, "setPrototypeOf") THEN setProtoBase(c, t, p)
    ELSE IF Answer(c, o) /\ ~c.h[t].ext /\ p # c.h[t].proto THEN Throw(c) ELSE Ret(c, Answer(c, o))

\* [proxy.go proxyObject.isExtensible]
isExtensible(c, o) ==
    LET t == c.h[o].target IN
    IF ~IsProxy(c, o) THEN Ret(c, c.h[o].ext)
    ELSE IF Revoked(c, o) THEN Throw(c)
    ELSE IF PlainTrap(c, o, "isExtensible") /\ Answer(c, o) # c.h[t].ext THEN Throw(c) ELSE Ret(c, c.h[t].ext)

\* [proxy.go proxyObject.preventExtensions]
preventExtensions(c, o) ==
    LET t == c.h[o].target IN
    IF ~IsProxy(c, o) THEN [Ret(c, TRUE) EXCEPT !.h[o].ext = FALSE]
    ELSE IF Revoked(c, o) THEN Throw(c)
    ELSE IF PlainTrap(c, o, "preventExtensions") /\ ~Answer(c, o) THEN Ret(c, FALSE)
    ELSE IF PlainTrap(c, o, "preventExtensions") /\ c.h[t].ext THEN Throw(c)
    ELSE [Ret(c, TRUE) EXCEPT !.h[t].ext = FALSE]

---------------------------------------------------------------------------
(* Reading through the chain.                                              *)

\* [value.go valueProperty.get] the getter is called with the receiver
propGet(c, p, recv) ==
    IF p.t = "val" THEN Ret(c, p.v)
    ELSE IF p.g # NotSet THEN Ret(Log(c, <<"get", p.g, recv>>), "got")
    ELSE Ret(c, IF p.v = NotSet THEN "u" ELSE p.v)

\* [proxy.go proxyObject.proxyGetChecks]
proxyGetChecks(c, cur, ans) ==
    IF cur.t = "prop" /\ ~cur.c /\ IF cur.acc THEN cur.g = NotSet /\ ans # "u" ELSE ~cur.w /\ ans # cur.v
    THEN Throw(c) ELSE Ret(c, ans)

RECURSIVE get(_, _, _, _)
\* [proxy.go proxyObject.getStr..proxyObject.getSym]
proxyGet(c, x, k, recv) ==
    LET t == c.h[x].target IN
    IF Revoked(c, x) THEN Throw(c)
    ELSE IF Trapped(c, x, "get", k) THEN proxyGetChecks(TrapCall(c, x, "get", k), Slot(c.h, t, k), Answer(c, x))
    ELSE get(c, t, k, recv)

\* [object.go baseObject.getWithOwnProp..baseObject.getStr]
get(c, o, k, recv) ==
    IF IsProxy(c, o) THEN proxyGet(c, o, k, recv)
    ELSE IF Slot(c.h, o, k) # Nil THEN propGet(c, Slot(c.h, o, k), recv)
    ELSE IF c.h[o].proto = Null THEN Ret(c, "u") ELSE get(c, c.h[o].proto, k, recv)

RECURSIVE hasProperty(_, _, _)
\* [proxy.go proxyObject.proxyHasChecks..proxyObject.hasPropertySym]
proxyHas(c, x, k) ==
    LET t == c.h[x].target
        cur == Slot(c.h, t, k)
        l == TrapCall(c, x, "has", k)
    IN  IF Revoked(c, x) THEN Throw(c)
        ELSE IF ~Trapped(c, x, "has", k) THEN hasProperty(c, t, k)
        ELSE IF ~Answer(c, x) /\ cur # Nil /\ (~cur.c \/ ~c.h[t].ext) THEN Throw(l)
        ELSE Ret(l, Answer(c, x))

\* [object.go baseObject.hasPropertyStr..baseObject.hasPropertySym]
hasProperty(c, o, k) ==
    IF IsProxy(c, o) THEN proxyHas(c, o, k)
    ELSE IF Slot(c.h, o, k) # Nil THEN Ret(c, TRUE)
    ELSE IF c.h[o].proto = Null THEN Ret(c, FALSE) ELSE hasProperty(c, c.h[o].proto, k)

---------------------------------------------------------------------------
(* Assignment.                                                             *)

\* Defect AccessAgrees is sensitive to: an inherited setter is called on the object that holds it.
PropSetHolder(c, o, k, recv, v) ==
    LET p == c.h[o].slots[k] IN
    IF p.s # NotSet THEN Ret(Log(c, <<"set", p.s, o, v>>), TRUE) ELSE [Ret(c, TRUE) EXCEPT !.h[o].slots[k].v = v]

\* [value.go valueProperty.set]
propSet(c, o, k, recv, v) ==
    LET p == c.h[o].slots[k] IN
    IF p.s # NotSet THEN Ret(Log(c, <<"set", p.s, recv, v>>), TRUE) ELSE [Ret(c, TRUE) EXCEPT !.h[o].slots[k].v = v]

\* [proxy.go proxyObject.proxySetPreCheck..proxyObject.proxySetPostCheck]
proxySetChecks(c, cur, v, ans) ==
    IF ans /\ cur.t = "prop" /\ ~cur.c /\ IF cur.acc THEN cur.s = NotSet ELSE ~cur.w /\ cur.v # v
    THEN Throw(c) ELSE Ret(c, ans)

RECURSIVE setOwn(_, _, _, _)
RECURSIVE setForeign(_, _, _, _, _)
RECURSIVE proxySet(_, _, _, _, _)
RECURSIVE set(_, _, _, _, _)

\* [object_args.go argumentsObject.setOwnStr..argumentsObject.setForeignStr]
setMapped(c, o, v) == [Ret(c, TRUE) EXCEPT !.h[o].var = v]

\* [object.go baseObject.setOwnStr..baseObject.setOwnSym]
setOwn(c, o, k, v) ==
    LET p == c.h[o].slots[k]
        up == c.h[o].proto
        create(f) == IF f.handled \/ f.err # "" THEN f
                     ELSE IF ~c.h[o].ext THEN Ret(f, FALSE) ELSE [Ret(f, TRUE) EXCEPT !.h = put(f.h, o, k, Plain(v))]
    IN  IF IsProxy(c, o) THEN proxySet(c, o, k, v, o)
        ELSE IF k \in c.h[o].mapped THEN setMapped(c, o, v)
        ELSE IF p # Nil THEN IF isWritable(p) THEN propSet(c, o, k, o, v) ELSE Ret(c, FALSE)
        ELSE create(IF up = Null THEN c ELSE setForeign(c, up, k, v, o))

\* [object.go baseObject._setForeignStr..baseObject.setForeignSym] A symbol is compared with the object, a string with
\* its prototype, to find out whether the chain has come to the receiver.
setForeign(c, o, k, v, recv) ==
    LET p == Slot(c.h, o, k)
        up == c.h[o].proto
    IN  IF IsProxy(c, o) THEN Handled(proxySet(c, o, k, v, recv))
        ELSE IF p # Nil
        THEN IF p.t # "prop" THEN c
             ELSE IF ~isWritable(p) THEN Handled(Ret(c, FALSE))
             ELSE IF p.s # NotSet THEN Handled(propSet(c, o, k, recv, v)) ELSE c
        ELSE IF up = Null THEN c
        ELSE IF recv = (IF k \in Sym THEN o ELSE up) THEN Handled(setOwn(c, up, k, v))
        ELSE setForeign(c, up, k, v, recv)

\* [proxy.go proxyObject.proxySetStr..proxyObject.setForeignSym]
proxySet(c, x, k, v, recv) ==
    LET t == c.h[x].target IN
    IF Revoked(c, x) THEN Throw(c)
    ELSE IF Trapped(c, x, "set", k) THEN proxySetChecks(TrapCall(c, x, "set", k), Slot(c.h, t, k), v, Answer(c, x))
    ELSE set(c, t, k, v, recv)

\* [object.go Object.setStr..Object.setSym] what is left to the receiver: its own property, or a new one
set(c, o, k, v, recv) ==
    LET store(r) == IF r.ret.t = "prop" /\ (r.ret.acc \/ ~r.ret.w) THEN Ret(r, FALSE)
                    ELSE defineOwnProperty(r, recv, k, IF r.ret = Nil THEN DataDescr(v) ELSE Descr(v, NotSet, NotSet, NotSet))
        after(f) == IF f.handled \/ f.err # "" THEN [f EXCEPT !.handled = FALSE]
                    ELSE IF recv = Null THEN Ret(c, FALSE)
                    ELSE AndThen(getOwnProp([f EXCEPT !.handled = FALSE], recv, k), store)
    IN IF recv = o THEN setOwn(c, o, k, v) ELSE after(setForeign(c, o, k, v, recv))

---------------------------------------------------------------------------
(* Keys.                                                                   *)

\* [object.go baseObject.ensurePropOrder..baseObject.stringKeys] indices first, in ascending order
stringKeys(h, o) ==
    SelectSeq(Idxs, LAMBDA k : k \in ToSet(h[o].names)) \o SelectSeq(h[o].names, LAMBDA k : k \notin Idx)

\* [object.go baseObject.symbols..baseObject.keys]
baseKeys(h, o) == stringKeys(h, o) \o h[o].syms

\* [object_args.go argumentsPropIter.next..argumentsObject.iterateStringKeys] What an iteration hands out with a name: an
\* element that still is a variable comes as its bare value, whatever its attributes are.
Item(c, o, k) == IF ~IsProxy(c, o) /\ k \in c.h[o].mapped THEN Ret(c, Plain(c.h[o].var)) ELSE getOwnProp(c, o, k)

\* [proxy.go proxyObject.keys..proxyObject.proxyOwnKeys]
proxyOwnKeys(c, x) ==
    LET t == c.h[x].target
        ks == Answer(c, x)
        own == ToSet(baseKeys(c.h, t))
    IN  IF \/ ~IsInjective(ks)
           \/ \E k \in own \ ToSet(ks) : ~c.h[t].ext \/ ~Item(c, t, k).ret.c
           \/ ~c.h[t].ext /\ ToSet(ks) \ own # {}
        THEN Throw(c) ELSE Ret(c, ks)

\* [object.go enumerableIter.next]
Enumerable(c, o, k) == LET shown(r) == r.err = "" /\ r.ret # Nil /\ r.ret.e IN shown(Item(c, o, k))

\* [proxy.go proxyObject.filterKeys..proxyObject.symbols] want: Idx \cup Str or Sym
ownKeys(c, o, want, all) ==
    LET bad(r) == ~all /\ \E k \in ToSet(r.ret) : k \in want /\ getOwnProp(r, o, k).err # ""
        filter(r) == IF bad(r) THEN Throw(r)
                     ELSE Ret(r, SelectSeq(r.ret, LAMBDA k : k \in want /\ (all \/ Enumerable(r, o, k))))
    IN AndThen(IF ~IsProxy(c, o) THEN Ret(c, baseKeys(c.h, o))
               ELSE IF Revoked(c, o) THEN Throw(c)
               ELSE IF PlainTrap(c, o, "ownKeys") THEN proxyOwnKeys(c, o) ELSE Ret(c, baseKeys(c.h, c.h[o].target)),
               filter)

---------------------------------------------------------------------------
(* Functions of Object and Reflect.                                        *)

\* an operation for each of some keys, until one throws; what returns FALSE throws here
Each(c, ks, Op(_, _)) ==
    FoldLeft(LAMBDA acc, k : IF acc.err # "" THEN acc
                             ELSE LET check(r) == IF r.err = "" /\ r.ret = FALSE THEN Throw(r) ELSE r IN check(Op(acc, k)),
             c, ks)

\* [builtin_object.go object_seal..object_freeze] an own property object is changed in place, anything else redefined
harden(c, o, level) ==
    LET inPlace(p) == [p EXCEPT !.c = FALSE, !.w = IF level = "freeze" /\ ~p.acc THEN FALSE ELSE @]
        one(acc, k) ==
            LET redefine(own) == defineOwnProperty(own, o, k,
                    Descr(NotSet, IF level = "freeze" /\ ~own.ret.acc THEN "F" ELSE NotSet, NotSet, "F"))
            IN IF ~IsProxy(c, o) /\ k \notin acc.h[o].mapped /\ acc.h[o].slots[k].t = "prop"
               THEN [Ret(acc, TRUE) EXCEPT !.h[o].slots[k] = inPlace(@)]
               ELSE AndThen(getOwnProp(acc, o, k), redefine)
        all(pe) == IF pe.ret = FALSE THEN Throw(pe)
                   ELSE AndThen(ownKeys(pe, o, Keys, TRUE), LAMBDA ks : Each(ks, ks.ret, one))
    IN AndThen(preventExtensions(c, o), all)

\* Defect HardenAgrees is sensitive to: symbols are not looked at.
IsHardenedNames(c, o, level) ==
    LET soft(p) == p # Nil /\ (p.t = "val" \/ p.c \/ (level = "freeze" /\ p.v # NotSet /\ p.w))
        none(ks) == Ret(c, ~\E k \in ToSet(ks.ret) : soft(Item(c, o, k).ret))
        look(x) == IF x.ret THEN Ret(c, FALSE) ELSE AndThen(ownKeys(c, o, Idx \cup Str, TRUE), none)
    IN AndThen(isExtensible(c, o), look)

\* [builtin_object.go object_isSealed..object_isFrozen] level: what is asked
isHardened(c, o, level) ==
    LET soft(p) == p # Nil /\ (p.t = "val" \/ p.c \/ (level = "freeze" /\ p.v # NotSet /\ p.w))
        none(ks) == Ret(c, ~\E k \in ToSet(ks.ret) : soft(Item(c, o, k).ret))
        look(x) == IF x.ret THEN Ret(c, FALSE) ELSE AndThen(ownKeys(c, o, Keys, TRUE), none)
    IN AndThen(isExtensible(c, o), look)

\* [builtin_object.go object_assign]
assign(c, to, from) ==
    LET one(acc, k) == IF ~Enumerable(acc, from, k) THEN Ret(acc, TRUE)
                       ELSE AndThen(get(acc, from, k, from), LAMBDA r : setOwn(r, to, k, r.ret))
    IN AndThen(ownKeys(c, from, Keys, TRUE), LAMBDA ks : Each(ks, ks.ret, one))

\* [builtin_object.go object_keys..object_values] the values of the enumerable strings
values(c, o) ==
    LET add(r, list, k) == Ret(r, Append(list, <<k, r.ret>>))
    IN AndThen(ownKeys(c, o, Idx \cup Str, FALSE),
               LAMBDA ks : FoldLeft(LAMBDA acc, k : add(get(acc, o, k, o), acc.ret, k), Ret(ks, <<>>), ks.ret))

\* [builtin_object.go valuePropToDescriptorObject]
descriptorOf(p) ==
    LET flag(b) == IF b THEN "T" ELSE "F"
        fn(x) == IF x = NotSet THEN "u" ELSE x
    IN IF p.acc THEN [Descr(NotSet, NotSet, flag(p.e), flag(p.c)) EXCEPT !.get = fn(p.g), !.set = fn(p.s)]
       ELSE Descr(p.v, flag(p.w), flag(p.e), flag(p.c))

\* [builtin_object.go toPropertyDescriptor] "bad" is no function
toPropertyDescriptor(d) == "bad" \notin {d.get, d.set} /\ ~(IsAccessor(d) /\ IsData(d))

\* [builtin_object.go _defineProperties] all descriptors are read before the first one is applied.
defineProperties(c, o, list) ==
    IF \E i \in DOMAIN list : ~toPropertyDescriptor(list[i][2]) THEN Throw(c)
    ELSE Each(c, list, LAMBDA acc, it : defineOwnProperty(acc, o, it[1], it[2]))

RECURSIVE isPrototypeOf(_, _, _)
\* [builtin_object.go objectproto_isPrototypeOf]
isPrototypeOf(c, o, v) ==
    LET climb(up) == IF up.ret = Null THEN Ret(c, FALSE) ELSE IF up.ret = o THEN Ret(c, TRUE) ELSE isPrototypeOf(c, o, up.ret)
    IN AndThen(proto(c, v), climb)
=============================================================================
