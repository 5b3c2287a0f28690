------------------------------ MODULE Generators ------------------------------
(***************************************************************************)
(* Generators and async functions (func.go), on the stacks of the virtual  *)
(* machine (vm.go): a body that yields takes its own part of the operand,  *)
(* try and iterator stacks with it and gets it back when it is resumed.    *)
(*                                                                         *)
(* `vm` holds the machine's registers and stacks, the generator objects    *)
(* and `go`, the Go functions in progress, innermost last.  The bodies are *)
(* arbitrary: whenever one runs it may open a try statement or a loop, end *)
(* the innermost one, yield, delegate, await, return, throw, or call a     *)
(* generator.  A position in a body is the sequence of statements it is in.*)
(* `want` is where the language says that each body is.                    *)
(***************************************************************************)
EXTENDS Integers, Sequences, SequencesExt, FiniteSetsExt

CONSTANTS
    Gens,           \* generator objects
    Asyncs,         \* async functions, each called once
    Casts,          \* the bodies that take part, with how deep their statements are nested
    MaxDepth,       \* how many Go functions are in progress
    Faults          \* what the bodies do that the code does not stand: "finally", ... where Next asks for it

ASSUME GeneratorsAssumption ==
    /\ Gens \cap Asyncs = {} /\ {"script", "nil", "plain"} \cap (Gens \cup Asyncs) = {}
    /\ MaxDepth \in Nat /\ Faults \subseteq {"finally", "both", "reenter", "close"}

VARIABLES vm, want

vars == <<vm, want>>

Bodies == Gens \cup Asyncs \cup {"script"}

(***************************************************************************)
(* What the language says.                                                 *)
(***************************************************************************)
Block(kind, catch, finally) ==
    [kind |-> kind, catch |-> catch, finally |-> finally, part |-> "body", pend |-> "none"]

Catches(b) == b.kind = "try" /\ b.part = "body" /\ b.catch
Finalises(b) == b.kind = "try" /\ b.part \in {"body", "catch"} /\ b.finally

Innermost(w, Stops(_)) == {i \in DOMAIN w.pos : Stops(w.pos[i])}

\* The completion runs outwards to the innermost block that stops it.
Completes(w, how, Stops(_), end) ==
    LET is == Innermost(w, Stops)
        i  == Max(is)
        b  == w.pos[i]
    IN IF is = {} THEN [pos |-> <<>>, end |-> end]
       ELSE [w EXCEPT !.pos = Append(SubSeq(@, 1, i - 1),
                IF how = "throw" /\ Catches(b) THEN [b EXCEPT !.part = "catch"]
                ELSE [b EXCEPT !.part = "finally", !.pend = how])]

Thrown(w) == Completes(w, "throw", LAMBDA b : Catches(b) \/ Finalises(b), "throw")
Returned(w) == Completes(w, "return", Finalises, "done")

\* The innermost block ends normally.
Ended(w) ==
    LET b   == Last(w.pos)
        out == [w EXCEPT !.pos = Front(@)]
    IN CASE Finalises(b) -> [w EXCEPT !.pos = Append(Front(@), [b EXCEPT !.part = "finally"])]
         [] b.pend = "throw" -> Thrown(out)
         [] b.pend = "return" -> Returned(out)
         [] OTHER -> out

Fresh == [pos |-> <<>>, end |-> "no"]

(***************************************************************************)
(* Registers and stacks.                                                   *)
(***************************************************************************)
\* [vm.go saveCtx]; pc says how the position is read: "at" a statement, "res" with an operand for it on the stack,
\* "yield" negated by a yield, "out" for -2 and what follows it.
Ctx(m) == [prg |-> m.prg, pos |-> m.pos, pc |-> m.pc, sb |-> m.sb]

Outside == [prg |-> "nil", pos |-> <<>>, pc |-> "out", sb |-> 0]

\* [vm.go restoreCtx]
restoreCtx(m, c) == [m EXCEPT !.prg = c.prg, !.pos = c.pos, !.pc = c.pc, !.sb = c.sb]
\* [vm.go pushCtx]
pushCtx(m) == [m EXCEPT !.calls = Append(@, Ctx(m))]
\* [vm.go popCtx]
popCtx(m) == [restoreCtx(m, Last(m.calls)) EXCEPT !.calls = Front(@)]

Marker == -2        \* tryPanicMarker: exceptions of the code under it are handed to Go

\* [vm.go pushTryFrame] with the number of the block the frame is for, 0 for Go code
pushTryFrame(m, catchPos, finallyPos, block) ==
    [m EXCEPT !.tries = Append(@, [calls |-> Len(m.calls), iters |-> m.iters, sp |-> m.sp, block |-> block,
                                   catchPos |-> catchPos, finallyPos |-> finallyPos, finallyRet |-> -1, ex |-> FALSE])]
\* [vm.go popTryFrame]
popTryFrame(m) == [m EXCEPT !.tries = Front(@)]

Live(tf) == tf.catchPos # -1 \/ tf.finallyPos # -1
Handler(m) == Max({i \in DOMAIN m.tries : Live(m.tries[i])})

\* The statement that the frame is for, in another part of it.
Enter(m, tf, part) ==
    [m EXCEPT !.pos = Append(SubSeq(@, 1, tf.block - 1), [m.pos[tf.block] EXCEPT !.part = part]), !.pc = "at"]

\* [vm.go handleThrow] what the loops left behind throw while they are closed is dropped
handleThrow(m) ==
    LET n  == Handler(m)
        tf == m.tries[n]
        r  == IF tf.calls = Len(m.calls) THEN m
              ELSE [restoreCtx(m, m.calls[tf.calls + 1]) EXCEPT !.calls = SubSeq(@, 1, tf.calls)]
        s  == [r EXCEPT !.tries = SubSeq(@, 1, n), !.sp = tf.sp, !.iters = tf.iters]
    IN  CASE tf.catchPos = Marker -> [s EXCEPT !.ret = "ex"]
          [] tf.catchPos > 0 -> [Enter(s, tf, "catch") EXCEPT !.tries[n].catchPos = -1, !.ret = "none"]
          [] OTHER -> [Enter(s, tf, "finally") EXCEPT !.tries[n] = [@ EXCEPT !.ex = TRUE, !.finallyPos = -1], !.ret = "none"]

(***************************************************************************)
(* type generator.                                                         *)
(***************************************************************************)
\* [func.go storeLengths]
storeLengths(m, g) == [m EXCEPT !.gens[g].tryStackLen = Len(m.tries), !.gens[g].iterStackLen = m.iters]

\* [func.go enter]
enter(m, g) == storeLengths(restoreCtx(pushTryFrame(pushCtx(m), Marker, -1, 0), Outside), g)

\* [func.go baseJsFuncObject.vmCall] with callee and this on the stack
vmCall(m, g) == [pushCtx(m) EXCEPT !.prg = g, !.pos = <<>>, !.pc = "at", !.sb = m.sp - 1]

\* Mutant: the heights in the frames are taken over as they are.
SuspendAbsolute(m, g) ==
    LET len == m.gens[g].tryStackLen
        own == SubSeq(m.tries, len + 1, Len(m.tries))
    IN [m EXCEPT !.gens[g].ctx = [pos |-> m.pos, pc |-> m.pc, size |-> m.sp - (m.sb - 1), iters |-> m.iters - m.gens[g].iterStackLen,
                                  tries |-> own],
                 !.tries = SubSeq(@, 1, len), !.iters = m.gens[g].iterStackLen]

\* [vm.go suspend] heights in the saved frames are relative to the saved part
suspend(m, g) ==
    LET len == m.gens[g].tryStackLen
        il  == m.gens[g].iterStackLen
        own == SubSeq(m.tries, len + 1, Len(m.tries))
    IN [m EXCEPT !.gens[g].ctx = [pos |-> m.pos, pc |-> m.pc, size |-> m.sp - (m.sb - 1), iters |-> m.iters - il,
                                  tries |-> [i \in DOMAIN own |-> [own[i] EXCEPT !.iters = @ - il, !.sp = @ - (m.sb - 1)]]],
                 !.tries = SubSeq(@, 1, len), !.iters = il]

NoCtx == [pos |-> <<>>, pc |-> "at", size |-> 0, iters |-> 0, tries |-> <<>>]

\* [vm.go resume] the heights in ctx are changed in place; it is read again before the next suspend only if Faults has "reenter"
resume(m, g) ==
    LET ctx == m.gens[g].ctx
        own == [i \in DOMAIN ctx.tries |-> [ctx.tries[i] EXCEPT !.calls = Len(m.calls), !.iters = @ + m.iters, !.sp = @ + m.sp]]
    IN [m EXCEPT !.gens[g].ctx = IF "reenter" \in Faults THEN [ctx EXCEPT !.tries = own] ELSE NoCtx, !.prg = g, !.pos = ctx.pos, !.pc = ctx.pc,
                 !.sb = m.sp + 1, !.sp = @ + ctx.size, !.iters = @ + ctx.iters, !.tries = @ \o own]

\* [func.go enterNext]
enterNext(m, g) ==
    LET s == pushTryFrame(pushCtx(m), Marker, -1, 0)
    IN resume(storeLengths([s EXCEPT !.calls = Append(@, Outside)], g), g)

Leave(m) == popCtx(popTryFrame(m))

\* The frames of the body that runs, those above the last frame of Go code.
Own(m) == {i \in DOMAIN m.tries : m.tries[i].block > 0 /\ m.tries[i].calls = Len(m.calls)
                                  /\ \A j \in i..Len(m.tries) : m.tries[j].block > 0}
WithFinally(m) == {i \in Own(m) : m.tries[i].finallyPos > 0}
\* The outermost frame that enterNextFinallyFrame looks at.
Lowest(m) == IF WithFinally(m) # {} THEN Max(WithFinally(m)) ELSE Min(Own(m) \cup {Len(m.tries) + 1})
\* The frame at which a loop that is closed on the way throws: the first one with loops in it.
Closing(m) == {i \in Own(m) : i >= Lowest(m) /\ m.tries[i].iters < m.iters}

\* [func.go enterNextFinallyFrame] the frame found runs its finally block under a marker; Runs: there is one.
Runs(m) == WithFinally(m) # {}
enterNextFinallyFrame(m) ==
    LET n  == Lowest(m)
        tf == m.tries[n]
    IN IF Runs(m)
       THEN [Enter(m, tf, "finally") EXCEPT !.tries = Append(SubSeq(@, 1, n - 1),
                 [tf EXCEPT !.catchPos = Marker, !.finallyPos = -1, !.finallyRet = -2]), !.sp = tf.sp, !.iters = tf.iters]
       ELSE [m EXCEPT !.tries = SubSeq(@, 1, n - 1), !.iters = IF Own(m) = {} THEN @ ELSE m.tries[n].iters]

\* A loop that is closed throws on the way: vm.throw() from Go code.
closingThrows(m) == handleThrow([m EXCEPT !.tries = SubSeq(@, 1, Max(Closing(m))), !.iters = m.tries[Max(Closing(m))].iters])

Object == [state |-> "none", delegated |-> "none", returning |-> FALSE, ctx |-> NoCtx, tryStackLen |-> 0, iterStackLen |-> 0,
           arg |-> "none", kind |-> "none", promise |-> "none", waiting |-> FALSE]
Machine(cast) ==
    [prg |-> "nil", pos |-> <<>>, pc |-> "out", sb |-> 0, sp |-> 0, calls |-> <<>>, tries |-> <<>>, iters |-> 0,
     cast |-> cast, gens |-> [g \in Bodies |-> Object], go |-> <<>>, ret |-> "none"]

(***************************************************************************)
(* The Go functions in progress.  Each is for one call: [k, of, op, vm],   *)
(* where vm tells a call by an instruction from a call by Go code, and k   *)
(* is where it is:                                                         *)
(*   call    before its first statement          script  in Runtime.Run    *)
(*   step    in generator.step, a body runs      plain   in a method of a  *)
(*   deleg   in tryCallDelegated                         foreign iterator  *)
(***************************************************************************)
Top == Last(vm.go)
Call(k, of, op, byVm) == [k |-> k, of |-> of, op |-> op, vm |-> byVm]
At(m, k) == [m EXCEPT !.go[Len(m.go)].k = k]
Answer(m, ret) == [m EXCEPT !.go = Front(@), !.ret = ret]

Suspended == {"start", "yield", "yieldRes"}

\* [func.go nextThrow] at the call on top of go; where nothing in the body handles it the call fails.
nextThrow(m, g) ==
    LET t == handleThrow(enterNext(m, g))
    IN IF t.ret = "none" THEN At(t, "step") ELSE [Leave(t) EXCEPT !.ret = "ex"]

\* [func.go generatorObject.step] with an exception
Fails(m, g) == Answer([m EXCEPT !.gens[g].delegated = "none", !.gens[g].state = "completed"], "panic")

Throw(m, g) == LET t == nextThrow(m, g) IN IF t.ret = "ex" THEN Fails(t, g) ELSE t

\* [runtime.go Runtime.try] of a call of a method of an iterator
AskDelegated(m, d, op) ==
    LET t == pushTryFrame(At(m, "deleg"), Marker, -1, 0)
    IN [t EXCEPT !.go = Append(@, Call(IF d \in Gens THEN "call" ELSE "plain", d, op, FALSE)), !.ret = "none"]

\* [func.go generatorObject.callDelegated] under tryCallDelegated; meanwhile the generator is not marked as executing
callDelegated(m, g, op) == AskDelegated(m, m.gens[g].delegated, op)

\* [func.go generator.next] v is pushed when the generator waits for it
resumed(m, g) ==
    LET s == enterNext(m, g)
    IN [At(s, "step") EXCEPT !.sp = @ + IF m.gens[g].state = "yieldRes" THEN 1 ELSE 0, !.ret = "none"]

\* The rest of generatorObject.next and throw [func.go:997-1001 generatorObject.next]
goesOn(m, g) == [resumed(m, g) EXCEPT !.gens[g].state = "executing"]

\* [func.go generatorObject.delegate] getIterator calls user code for what is not a generator.
delegate(m, g) ==
    LET d == m.gens[g].arg
        s == [m EXCEPT !.gens[g].arg = "none"]
    IN IF d \in Gens THEN callDelegated([s EXCEPT !.gens[g].delegated = d, !.go[Len(m.go)].op = "next"], g, "next")
       ELSE AskDelegated([s EXCEPT !.go[Len(m.go)].op = "open"], d, "open")

\* The rest of _return once nothing is delegated [func.go:1060-1096 _return]
returns(m, g) ==
    LET s == enterNext([m EXCEPT !.gens[g].returning = TRUE, !.gens[g].state = "executing"], g)
        t == enterNextFinallyFrame(s)
        l == popTryFrame(t)
    IN IF Runs(s) THEN [At(t, "step") EXCEPT !.ret = "none"]
       ELSE Answer([popCtx([l EXCEPT !.iters = m.iters, !.calls = Front(@), !.sp = l.sb - 1])
                        EXCEPT !.gens[g].state = "completed"], "done")

\* A loop of the body throws when it is closed, under a frame of the body or under none.
returnThrows(m, g) ==
    LET s == enterNext([m EXCEPT !.gens[g].returning = TRUE, !.gens[g].state = "executing"], g)
        l == popTryFrame(enterNextFinallyFrame(s))
    IN IF Closing(s) # {} THEN LET t == closingThrows(s) IN IF t.ret = "none" THEN At(t, "step") ELSE Answer(t, "panic")
       ELSE Answer([l EXCEPT !.iters = m.iters, !.gens[g].state = "completed"], "panic")

(***************************************************************************)
(* What the code does not stand.                                           *)
(***************************************************************************)
\* An exception would reach a finally block that return() runs: its frame is marked, so that the exception is handed to Go
\* with the frames of the blocks around it still there.
Exposed(tries) ==
    LET live == {i \in DOMAIN tries : Live(tries[i])}
        tf   == tries[Max(live)]
    IN live # {} /\ tf.block > 0 /\ tf.catchPos = Marker
Stands(tries) == "finally" \in Faults \/ ~Exposed(tries)

\* A call that has waited for the iterator its generator delegates to finds the body at its end, or an exception finds it in a block where it does
\* not stand one: another call resumed it meanwhile, which is not refused.
Overtaken(g) == (vm.gens[g].state = "completed" /\ "reenter" \notin Faults) \/ (vm.ret = "ex" /\ ~Stands(vm.gens[g].ctx.tries))

\* A loop throws while return() closes it, and nothing in the body handles it.
Reckless(m, g) ==
    LET s == enterNext(m, g)
    IN Closing(s) # {} /\ closingThrows(s).ret = "ex"

(***************************************************************************)
(* Instructions.                                                           *)
(***************************************************************************)
InBody == vm.go # <<>> /\ Top.k \in {"script", "step"} /\ vm.ret = "none"
Running == InBody /\ vm.pc = "at" /\ Top.op # "create"
Self == vm.prg
Becomes(m) == vm' = m /\ UNCHANGED want
Wants(w) == want' = [want EXCEPT ![Self] = w]
Room == Len(vm.pos) < vm.cast[Self]

\* [vm.go try] one of catch and finally at least
TryBegins ==
    /\ Running /\ Room
    /\ \E c, f \in BOOLEAN :
          /\ c \/ f
          /\ c /\ f => "both" \in Faults
          /\ LET b == Block("try", c, f)
                 m == [vm EXCEPT !.pos = Append(@, b)]
             IN /\ vm' = pushTryFrame(m, IF c THEN 1 ELSE -1, IF f THEN 1 ELSE -1, Len(m.pos))
                /\ Wants([want[Self] EXCEPT !.pos = Append(@, b)])

\* [vm.go _iterateP] a for-of loop over a foreign iterator
LoopBegins ==
    /\ Running /\ Room
    /\ vm' = [vm EXCEPT !.pos = Append(@, Block("for", FALSE, FALSE)), !.iters = @ + 1]
    /\ Wants([want[Self] EXCEPT !.pos = Append(@, Block("for", FALSE, FALSE))])

\* [vm.go _ret] to the context below, one instruction on
ret(m) == [popCtx([m EXCEPT !.sp = m.sb]) EXCEPT !.pc = "out"]

\* The instructions of a return statement [compiler_stmt.go compileReturnStatement]: leaveTry for each try statement, until
\* one has a finally block to run
Return(m) ==
    LET n  == Lowest(m)
        tf == m.tries[n]
    IN IF WithFinally(m) # {}
       THEN [Enter(m, tf, "finally") EXCEPT !.tries = Append(SubSeq(@, 1, n - 1), [tf EXCEPT !.finallyRet = 1, !.finallyPos = -1,
                                                                                             !.catchPos = -1]),
                                            !.sp = tf.sp, !.iters = tf.iters]
       ELSE ret([m EXCEPT !.tries = SubSeq(@, 1, n - 1),
                          !.iters = @ - Cardinality({i \in DOMAIN m.pos : m.pos[i].kind = "for"}), !.sp = @ + 1])

Returns ==
    /\ Running /\ Self # "script"
    /\ vm' = Return(vm) /\ Wants(Returned(want[Self]))

\* [vm.go _throw] and whatever else an instruction throws
Throws ==
    /\ Running /\ Stands(vm.tries)
    /\ vm' = handleThrow(vm) /\ Wants(Thrown(want[Self]))

\* [vm.go leaveTry] of a statement without a finally block
leaveTry(m) == [popTryFrame(m) EXCEPT !.pos = Front(@)]
\* [vm.go enterFinally] after the try block or the catch clause
enterFinally(m) == [Enter(m, Last(m.tries), "finally") EXCEPT !.tries[Len(m.tries)].finallyPos = -1]

\* Mutant: the exception that waits for the finally block is forgotten.
LeaveFinallyForgets(m) ==
    LET tf == Last(m.tries)
        l  == leaveTry(m)
    IN CASE tf.finallyRet = -2 -> [l EXCEPT !.pc = "out"]
         [] tf.finallyRet = 1 -> Return(l)
         [] OTHER -> l

\* [vm.go leaveFinally]
leaveFinally(m) ==
    LET tf == Last(m.tries)
        l  == leaveTry(m)
    IN CASE tf.ex -> handleThrow(l)
         [] tf.finallyRet = -2 -> [l EXCEPT !.pc = "out"]
         [] tf.finallyRet = 1 -> Return(l)
         [] OTHER -> l

PartEnds ==
    /\ Running /\ vm.pos # <<>>
    /\ LET b == Last(vm.pos)
       IN /\ b.part = "finally" => (~Last(vm.tries).ex \/ Stands(Front(vm.tries)))
          /\ vm' = CASE b.kind = "for" -> [vm EXCEPT !.pos = Front(@), !.iters = @ - 1]
                     [] Finalises(b) -> enterFinally(vm)
                     [] b.part = "finally" -> leaveFinally(vm)
                     [] OTHER -> leaveTry(vm)
    /\ Wants(Ended(want[Self]))

\* The end of a body returns undefined.
BodyEnds == Running /\ Self # "script" /\ vm.pos = <<>> /\ vm' = Return(vm) /\ Wants(Returned(want[Self]))

\* [vm.go yieldMarker.exec] what is yielded and the marker are on the stack; res: the value of the expression is used
Stops(m, res) == [m EXCEPT !.sp = @ + 2, !.pc = "yield", !.gens[Self].kind = res]

\* [compiler_expr.go compiledYieldExpression.emitGetter]
Yields ==
    /\ Running /\ Self \in Gens
    /\ \E res \in {"yield", "yieldRes"} : Becomes(Stops(vm, res))

\* Generators that delegate in a circle would call each other until Go's stack is full: one of them at least delegates to another iterator.
Delegates ==
    /\ Running /\ Self \in Gens /\ Stands(vm.tries)
    /\ \E res \in {"yield", "yieldRes"}, d \in (Gens \ {Self}) \cup {"plain"} :
          /\ d \in Gens => vm.gens[d].state # "none" /\ vm.gens[d].delegated \notin Gens
          /\ Becomes([Stops(vm, res) EXCEPT !.gens[Self].arg = d])

Awaits == Running /\ Self \in Asyncs /\ Becomes(Stops(vm, "await"))

\* The value of a yield or await expression is used up.
Consumes ==
    /\ InBody /\ vm.pc = "res"
    /\ Becomes([vm EXCEPT !.sp = @ - 1, !.pc = "at"])

\* A call instruction for a native function: callee, this and one argument [func.go nativeFuncObject.vmCall]
NativeCall(g, op) ==
    LET m == [vm EXCEPT !.sp = @ + 3]
    IN [pushCtx(m) EXCEPT !.prg = "nil", !.pc = "out", !.sb = m.sp - 1, !.go = Append(@, Call("call", g, op, TRUE))]

\* The calls of the methods of generators that there are
Called == {<<g, op>> \in Gens \X {"next", "throw", "return"} :
              /\ vm.gens[g].state # "none"
              /\ op = "throw" => \A h \in {g, vm.gens[g].delegated} \cap Gens : Stands(vm.gens[h].ctx.tries)}

Calls ==
    /\ Running /\ Len(vm.go) < MaxDepth /\ Stands(vm.tries)
    /\ \E c \in Called : Becomes(NativeCall(c[1], c[2]))

\* [func.go baseJsFuncObject.generatorVmCall..generatorMethodFuncObject.vmCall] the call of a generator function: its
\* prologue runs up to the first yield
Creates ==
    /\ Running /\ Len(vm.go) < MaxDepth /\ Stands(vm.tries)
    /\ \E g \in Gens :
          /\ g \in DOMAIN vm.cast /\ vm.gens[g].state = "none"
          /\ Becomes([vmCall(enter([vm EXCEPT !.sp = @ + 2], g), g) EXCEPT !.go = Append(@, Call("step", g, "create", FALSE))])

\* [func.go baseJsFuncObject.asyncVmCall] and [func.go asyncRunner.start]
Starts ==
    /\ Running /\ Len(vm.go) < MaxDepth
    /\ \E a \in Asyncs :
          /\ a \in DOMAIN vm.cast /\ vm.gens[a].promise = "none"
          /\ Becomes([vmCall(enter([vm EXCEPT !.sp = @ + 2], a), a)
                        EXCEPT !.go = Append(@, Call("step", a, "start", FALSE)), !.gens[a].promise = "pending"])

\* The prologue of a generator function yields nothing, or throws [compiler_expr.go:1536-1539 compile].
Prologue ==
    /\ InBody /\ vm.pc = "at" /\ Top.op = "create"
    /\ \/ Becomes([vm EXCEPT !.sp = @ + 1, !.pc = "yield"])
       \/ vm' = handleThrow(vm) /\ UNCHANGED want

(***************************************************************************)
(* Calls.                                                                  *)
(***************************************************************************)
Calling(op) == vm.go # <<>> /\ vm.ret = "none" /\ Top.k = "call" /\ Top.op = op
G == Top.of
Gen == vm.gens[G]
For(w) == want' = [want EXCEPT ![G] = w]
Over == [pos |-> <<>>, end |-> "done"]

\* [func.go validate]
Refused ==
    /\ \E op \in {"next", "throw", "return"} : Calling(op)
    /\ Gen.state = "executing" /\ Becomes(Answer(vm, "panic"))

\* [func.go generatorObject.next]
Next_ ==
    /\ Calling("next") /\ Gen.state # "executing"
    /\ Becomes(IF Gen.state = "completed" THEN Answer(vm, "done")
               ELSE IF Gen.delegated # "none" THEN callDelegated(vm, G, "next")
               ELSE goesOn(vm, G))

\* Whether the delegated iterator has a method of the name: a foreign one may have none.
Provided == IF Gen.delegated = "plain" THEN BOOLEAN ELSE {TRUE}

\* [func.go generatorObject.throw]
Throw_ ==
    /\ Calling("throw") /\ Gen.state # "executing"
    /\ IF Gen.state \in {"start", "completed"}
       THEN vm' = Answer([vm EXCEPT !.gens[G].state = "completed"], "panic") /\ For(IF Gen.state = "start" THEN Over ELSE want[G])
       ELSE IF Gen.delegated = "none"
       THEN vm' = Throw([vm EXCEPT !.gens[G].state = "executing"], G) /\ For(Thrown(want[G]))
       ELSE \E has \in Provided :
               Becomes(IF has THEN callDelegated(vm, G, "throw")
                       ELSE AskDelegated([vm EXCEPT !.gens[G].delegated = "none", !.go[Len(vm.go)].op = "close"], Gen.delegated, "close"))

\* The return completion leaves the loops it is in, the innermost of which throws when it is closed.
LoopThrows(w) ==
    LET i == Max(Innermost(w, LAMBDA b : b.kind = "for")) IN Thrown([w EXCEPT !.pos = SubSeq(@, 1, i - 1)])
ClosesLoop(w) == \E i \in Innermost(w, LAMBDA b : b.kind = "for") : \A j \in Innermost(w, Finalises) : j < i

GoesBack(m) ==
    \/ vm' = returns(m, G) /\ For(Returned(want[G]))
    \/ /\ ClosesLoop(want[G]) /\ ("close" \in Faults \/ ~Reckless(m, G))
       /\ vm' = returnThrows(m, G) /\ For(LoopThrows(want[G]))

\* [func.go generatorObject._return]
Return_ ==
    /\ Calling("return") /\ Gen.state # "executing"
    /\ IF Gen.state \in {"start", "completed"}
       THEN vm' = Answer([vm EXCEPT !.gens[G].state = "completed"], "done") /\ For(IF Gen.state = "start" THEN Over ELSE want[G])
       ELSE IF Gen.delegated = "none" THEN GoesBack(vm)
       ELSE \E has \in Provided : IF has THEN Becomes(callDelegated(vm, G, "return"))
                                  ELSE GoesBack([vm EXCEPT !.gens[G].delegated = "none"])

InPlain == vm.go # <<>> /\ Top.k = "plain"
\* A method of a foreign iterator answers with an object that says done or not, or throws; [runtime.go returnIter] ends without a call if there is none.
PlainAnswers ==
    /\ InPlain /\ vm.ret # "panic"
    /\ \E r \in (IF Top.op \in {"open", "close"} THEN {"done", "panic"} ELSE {"more", "done", "panic"}) : Becomes(Answer(vm, r))
\* It may call a generator, also the one that waits for it, and does not catch what that throws.
PlainCalls ==
    /\ InPlain /\ vm.ret = "none" /\ Len(vm.go) < MaxDepth
    /\ \E c \in Called : Becomes([vm EXCEPT !.go = Append(@, Call("call", c[1], c[2], FALSE))])
PlainFails == InPlain /\ vm.ret = "panic" /\ Becomes(Answer(vm, "panic"))

(***************************************************************************)
(* What becomes of a call.                                                 *)
(***************************************************************************)
\* [func.go asyncRunner.step]
Settles(m, a, promise) == [m EXCEPT !.gens[a].promise = promise, !.go = Front(@), !.ret = "none"]

\* [func.go generatorObject.step] and what init and asyncRunner do after generator.step
Steps(m, how) ==
    LET g == G
        l == Leave(m)
        k == Gen.kind
        s == [l EXCEPT !.gens[g].kind = "none", !.gens[g].tryStackLen = 0, !.gens[g].iterStackLen = 0]
    IN CASE Top.op = "create" -> [s EXCEPT !.gens[g].state = "start", !.go = Front(@), !.ret = "none"]
         [] g \in Asyncs /\ how = "normal" -> Settles(s, g, "fulfilled")
         [] g \in Asyncs /\ how = "yield" -> [s EXCEPT !.gens[g].waiting = TRUE, !.go = Front(@)]
         [] how = "normal" -> Answer([s EXCEPT !.gens[g].state = "completed"], "done")
         [] Gen.arg # "none" -> delegate([s EXCEPT !.gens[g].state = k], g)
         [] OTHER -> Answer([s EXCEPT !.gens[g].state = k], "more")

\* [func.go generator.step] after a yield: marker and value are popped, the body's part of the stacks is put aside
Yielded ==
    /\ InBody /\ Top.k = "step" /\ vm.pc = "yield"
    /\ LET m == [vm EXCEPT !.sp = @ - (IF Top.op = "create" THEN 1 ELSE 2),
                           !.pc = IF Gen.kind \in {"yieldRes", "await"} THEN "res" ELSE "at"]
           s == suspend(m, G)
       IN vm' = Steps([s EXCEPT !.sp = s.sb - 1, !.calls = Front(@)], "yield")
    /\ UNCHANGED want

HasReturned == InBody /\ Top.k = "step" /\ vm.pc = "out" /\ vm.prg = "nil"
\* The body has returned.
Finished ==
    /\ HasReturned /\ Becomes(Steps([vm EXCEPT !.sp = @ - 1], "normal"))

LeftFinally == InBody /\ Top.k = "step" /\ vm.pc = "out" /\ vm.prg # "nil"
\* A finally block that return() runs has ended: the next one is entered [func.go:812-830 generator.step].
FinallyEnds ==
    /\ LeftFinally /\ UNCHANGED want
    /\ vm' = LET t == enterNextFinallyFrame(vm)
             IN IF Runs(vm) THEN t
                ELSE Steps([t EXCEPT !.gens[G].returning = FALSE, !.iters = Gen.iterStackLen, !.sp = t.sb - 1, !.calls = Front(@)],
                           "normal")

\* [func.go:571-584 nativeFuncObject.vmCall] the result replaces callee, this and argument, and is used up
Delivered ==
    /\ vm.go # <<>> /\ Top.k \in {"script", "step"} /\ vm.ret \in {"more", "done"}
    /\ Becomes([popCtx(vm) EXCEPT !.sp = @ - 3, !.ret = "none"])

\* [func.go tryCallDelegated] the delegated iterator has answered: "open" is getIterator, "close" the end of throw() without a method
DelegateAnswered ==
    /\ vm.go # <<>> /\ Top.k = "deleg" /\ vm.ret \in {"more", "done"}
    /\ LET m == popTryFrame(vm)
           d == [m EXCEPT !.gens[G].delegated = "none"]
       IN CASE Top.op = "open" -> Becomes([At(m, "call") EXCEPT !.gens[G].delegated = "plain", !.go[Len(vm.go)].op = "next", !.ret = "none"])
            [] Top.op = "close" -> Becomes([vm EXCEPT !.ret = "panic"])
            [] vm.ret = "more" -> Becomes(Answer(m, "more"))
            [] OTHER -> ~Overtaken(G) /\ IF Top.op = "return" THEN GoesBack(d) ELSE Becomes(goesOn(d, G))

\* [vm.go runTryInner] and [vm.go vm.try]: a Go panic is recovered by the innermost of them.
Recovers ==
    /\ vm.go # <<>> /\ vm.ret = "panic"
    /\ vm' = handleThrow(vm)
    /\ CASE Top.k = "script" -> want' = [want EXCEPT !["script"] = Thrown(@)]
         [] Top.k = "step" -> For(Thrown(want[G]))
         [] OTHER -> UNCHANGED want

\* [func.go generator.step] with an exception; the frame of a finally block that return() runs is still there
StepFails ==
    /\ vm.go # <<>> /\ vm.ret = "ex" /\ Top.k = "step" /\ UNCHANGED want
    /\ LET m == IF Gen.returning /\ (vm.prg # "nil" \/ vm.pc # "out") THEN popTryFrame(vm) ELSE vm
       IN vm' = CASE Top.op = "create" -> Answer(popTryFrame(m), "panic")
                  [] Top.op = "start" -> Settles([Leave(m) EXCEPT !.sp = @ - 2], G, "rejected")
                  [] Top.op = "job" -> Settles(Leave(m), G, "rejected")
                  [] OTHER -> Fails(Leave(m), G)

\* [func.go:963-971 tryCallDelegated] what the delegated iterator throws is thrown at the yield*
DelegateFails ==
    /\ vm.go # <<>> /\ vm.ret = "ex" /\ Top.k = "deleg" /\ ~Overtaken(G)
    /\ vm' = Throw([popTryFrame(vm) EXCEPT !.gens[G].delegated = "none", !.gens[G].state = IF Top.op = "open" THEN "completed" ELSE "executing"], G)
    /\ For(Thrown(want[G]))

\* The code resumes an ended body out of its last context then.  That is not followed: the program starts again.
GivenUp ==
    /\ vm.go # <<>> /\ Top.k = "deleg" /\ Overtaken(G)
    /\ vm.ret = "ex" \/ (vm.ret = "done" /\ Top.op \notin {"open", "close"})
    /\ vm' = Machine(vm.cast) /\ want' = [g \in Bodies |-> Fresh]

(***************************************************************************)
(* Scripts and jobs.                                                       *)
(***************************************************************************)
Idle == vm.go = <<>>

\* [runtime.go RunProgram] and [vm.go runTry]
StartScript ==
    /\ Idle
    /\ vm' = [pushTryFrame(vm, Marker, -1, 0) EXCEPT !.prg = "script", !.pos = <<>>, !.pc = "at", !.sb = vm.sp,
                                                    !.go = <<Call("script", "script", "run", FALSE)>>]
    /\ want' = [want EXCEPT !["script"] = Fresh]

Stop(m) == [restoreCtx(popTryFrame(m), Outside) EXCEPT !.go = <<>>, !.ret = "none"]
EndScript == Running /\ Self = "script" /\ vm.pos = <<>> /\ Becomes(Stop(vm))
ScriptFails == vm.go # <<>> /\ vm.ret = "ex" /\ Top.k = "script" /\ Becomes(Stop(vm))

\* [func.go onFulfilled] and [func.go onRejected], run as jobs
Job(a) == [vm EXCEPT !.go = <<Call("step", a, "job", FALSE)>>, !.gens[a].waiting = FALSE]
Fulfilled ==
    /\ Idle
    /\ \E a \in Asyncs : vm.gens[a].waiting /\ Becomes([enterNext(Job(a), a) EXCEPT !.sp = @ + 1])
\* [func.go onRejected]
Rejected ==
    /\ Idle
    /\ \E a \in Asyncs :
          /\ vm.gens[a].waiting /\ want' = [want EXCEPT ![a] = Thrown(@)]
          /\ vm' = LET t == nextThrow(Job(a), a) IN IF t.ret = "ex" THEN Settles(t, a, "rejected") ELSE t

Init ==
    /\ \E cast \in Casts : vm = Machine(cast)
    /\ want = [g \in Bodies |-> Fresh]

Next ==
    \/ TryBegins \/ LoopBegins \/ PartEnds \/ BodyEnds \/ Returns \/ Throws
    \/ Yields \/ Delegates \/ Awaits \/ Consumes \/ Calls \/ Creates \/ Starts \/ Prologue
    \/ Refused \/ Next_ \/ Throw_ \/ Return_ \/ PlainAnswers \/ PlainCalls \/ PlainFails
    \/ Yielded \/ Finished \/ FinallyEnds \/ Delivered \/ DelegateAnswered \/ Recovers \/ StepFails \/ DelegateFails \/ GivenUp
    \/ StartScript \/ EndScript \/ ScriptFails \/ Fulfilled \/ Rejected

Spec == Init /\ [][Next]_vars

(***************************************************************************)
(* Properties.                                                             *)
(***************************************************************************)
AtStatement == InBody /\ vm.pc \in {"at", "res"}
Bodied(c) == c.k \in {"script", "step"}
Count(seq, P(_)) == Cardinality({i \in DOMAIN seq : P(seq[i])})
Loops(w) == Count(w.pos, LAMBDA b : b.kind = "for")

\* Every stack of the machine is as high as the calls in progress make it.
Heights ==
    /\ vm.sp = 3 * Count(vm.go, LAMBDA c : c.vm) + 2 * Count(vm.go, LAMBDA c : c.k = "step") + IF vm.pc = "res" THEN 1 ELSE 0
    /\ Len(vm.calls) = Count(vm.go, LAMBDA c : c.vm) + 2 * Count(vm.go, LAMBDA c : c.k = "step")
    /\ vm.iters = FoldSeq(LAMBDA c, n : n + IF Bodied(c) THEN Loops(want[c.of]) ELSE 0, 0, vm.go)

Marked == Count(vm.tries, LAMBDA tf : tf.block = 0) = Count(vm.go, LAMBDA c : Bodied(c) \/ c.k = "deleg")

\* The frames of the running body are those of the try statements it is in, as far as it is in them.
FramesMirror ==
    LET own == SelectSeq(vm.tries, LAMBDA tf : tf.calls = Len(vm.calls) /\ tf.block > 0)
        is  == {i \in DOMAIN vm.pos : vm.pos[i].kind = "try"}
    IN /\ {own[k].block : k \in DOMAIN own} = is /\ Len(own) = Cardinality(is)
       /\ \A k \in DOMAIN own : LET b == vm.pos[own[k].block]
                                IN (own[k].catchPos = 1) = Catches(b) /\ (own[k].finallyPos = 1) = Finalises(b)

\* Whatever generators and async functions do to the code that uses them - yield out of loops and try statements, fail, be
\* closed, delegate to each other, be called in the middle of a statement - the operand, call, iterator and try stacks are,
\* whenever a statement of any body runs, exactly as high as the calls in progress make them, the frames on top are those
\* of the try statements that body is in, and an exception is handed to the code that made the call (vm.go suspend and
\* resume, func.go enterNext, step, _return).
StacksExact ==
    /\ AtStatement => Heights /\ Marked /\ FramesMirror
    /\ vm.ret = "panic" => Marked
    /\ Idle => vm.tries = <<>> /\ vm.calls = <<>> /\ vm.sp = 0 /\ vm.iters = 0

Place(pos) == [i \in DOMAIN pos |-> [kind |-> pos[i].kind, part |-> pos[i].part]]
InStep(g) == \E i \in DOMAIN vm.go : vm.go[i].k = "step" /\ vm.go[i].of = g

\* A body that runs or is suspended is at the statement where the language puts it after all that was thrown into it,
\* returned through it and thrown by it: every finally block on the way has been entered, with the completion that it has to
\* go on with when it ends, and no other code; a generator is completed when its body has ended, and a promise of an async
\* function is settled by the way its body ended (func.go _return, step, enterNextFinallyFrame, asyncRunner.step).
BodiesExact ==
    /\ AtStatement /\ Top.op # "create" => Place(vm.pos) = Place(want[Self].pos) /\ want[Self].end = "no"
    /\ \A g \in Gens : /\ vm.gens[g].state \in Suspended =>
                             Place(vm.gens[g].ctx.pos) = Place(want[g].pos) /\ want[g].end = "no"
                       /\ vm.gens[g].state = "completed" /\ ~InStep(g) => want[g].end # "no"
    /\ \A a \in Asyncs : /\ vm.gens[a].waiting => Place(vm.gens[a].ctx.pos) = Place(want[a].pos) /\ want[a].end = "no"
                         /\ vm.gens[a].promise = "fulfilled" => want[a].end = "done"
                         /\ vm.gens[a].promise = "rejected" => want[a].end = "throw"

\* A generator whose body runs cannot be resumed: its body is on the stacks once, and what calls it is refused or finds it
\* completed, also while return() closes its loops (func.go validate).  While a call waits for an iterator that the generator
\* delegates to nothing is refused: the body may then run in another call, but not in both.
RunningOnce ==
    \A g \in Gens \cup Asyncs :
       /\ Count(vm.go, LAMBDA c : c.k = "step" /\ c.of = g) <= 1
       /\ InStep(g) => vm.gens[g].state \notin Suspended /\ ~vm.gens[g].waiting

\* Bodies are where they should be and run once at a time: BodiesExact and RunningOnce.
BodiesKept == BodiesExact /\ RunningOnce
=============================================================================
