----------------------------- MODULE Statements -----------------------------
(***************************************************************************)
(* The compiler of statements (compiler_stmt.go, the blocks of compiler.go)*)
(* and the instructions of the VM it uses for control: jumps, block        *)
(* scopes, the try stack, the iterator stack, calls and returns (vm.go).   *)
(*                                                                         *)
(* A program is an AST whose expressions are opaque: evaluating one is an  *)
(* event that yields a truthy value, a falsy value or an exception.  The   *)
(* VM runs the compiled program and records the events; the outcomes are   *)
(* arbitrary.  StatementSemantics says what ECMAScript makes of the AST    *)
(* under the same outcomes.                                                *)
(***************************************************************************)
EXTENDS Integers, Sequences, FiniteSets, SequencesExt, FiniteSetsExt

CONSTANTS
    MaxEvents,     \* bound: events in one execution
    ReturnFrames   \* frames that the return() method of an iterator pushes on the try stack while it runs

ASSUME EventsNat == MaxEvents \in Nat /\ ReturnFrames \in Nat

---------------------------------------------------------------------------
(* Programs: constructors of AST nodes.                                    *)

Node(k) == [k |-> k, l |-> "", e |-> <<>>, body |-> <<>>, alt |-> <<>>, fin |-> <<>>, lets |-> 0, stash |-> FALSE]

\* Expressions: <<"call", id>> is opaque, <<"quiet", id>> too but never throws, <<"const", "t" or "f">> is a literal,
\* <<"fn">> calls the function of the program.
Event(id)          == <<"call", id>>
Quiet(id)          == <<"quiet", id>>
Const(b)           == <<"const", b>>
ExprStmt(e)        == [Node("expr") EXCEPT !.e = e]
Empty              == Node("empty")
Throw(e)           == [Node("throw") EXCEPT !.e = e]
Return(e)          == [Node("return") EXCEPT !.e = e]
Break(l)           == [Node("break") EXCEPT !.l = l]
Continue(l)        == [Node("continue") EXCEPT !.l = l]
Labelled(l, s)     == [Node("label") EXCEPT !.l = l, !.body = <<s>>]
If(e, s, alt)      == [Node("if") EXCEPT !.e = e, !.body = <<s>>, !.alt = alt]
While(e, s)        == [Node("while") EXCEPT !.e = e, !.body = <<s>>]
DoWhile(s, e)      == [Node("do") EXCEPT !.e = e, !.body = <<s>>]
With(e, s)         == [Node("with") EXCEPT !.e = e, !.body = <<s>>]
\* A block, with a let declaration unless lets is 0, whose variable a closure captures (stash) or not
Block(lets, stash, list) == [Node("block") EXCEPT !.lets = lets, !.stash = stash, !.body = list]
Lets               == Node("lets")                          \* the declaration itself: no event, no result
\* for (let ...; e; update) s; the update expression is in alt, as a list of at most one
For(lets, stash, e, update, s) == [Node("for") EXCEPT !.lets = lets, !.stash = stash, !.e = e, !.alt = update, !.body = <<s>>]
ForOf(id, lets, stash, s) == [Node("forof") EXCEPT !.e = Event(id), !.lets = lets, !.stash = stash, !.body = <<s>>]
ForIn(id, lets, stash, s) == [Node("forin") EXCEPT !.e = Event(id), !.lets = lets, !.stash = stash, !.body = <<s>>]
\* try with an optional catch clause (alt, a list of at most one block) and an optional finally clause; lets is 1 when
\* the catch clause has a parameter, stash says that it is captured
Try(b, lets, stash, c, f) == [Node("try") EXCEPT !.body = <<b>>, !.lets = lets, !.stash = stash, !.alt = c, !.fin = f]
\* switch with case clauses (e: test or <<>> for default, body: statements)
Case(e, list)      == [Node("case") EXCEPT !.e = e, !.body = list]
Switch(e, lets, cases) == [Node("switch") EXCEPT !.e = e, !.lets = lets, !.body = cases]

---------------------------------------------------------------------------
(* The compiler.  Its state is the code so far and the chain of blocks,    *)
(* innermost last; positions in the code count from 0.                     *)

Ins(op, a, b) == [op |-> op, a |-> a, b |-> b]
Hole == Ins("nil", 0, 0)

Here(st) == Len(st.code)
Top(st) == st.blocks[Len(st.blocks)]

\* [compiler.go emit]
emit(st, list) == [st EXCEPT !.code = @ \o list]
Patch(st, pos, ins) == [st EXCEPT !.code[pos + 1] = ins]
EmitIf(b, st, list) == IF b THEN emit(st, list) ELSE st
\* A jump to a position, and one at a position to what follows
EmitJump(st, name, to) == emit(st, <<Ins(name, to - Here(st), 0)>>)
PatchJump(st, pos, name) == Patch(st, pos, Ins(name, Here(st) - pos, 0))
\* continue goes here
ContHere(st) == [st EXCEPT !.blocks[Len(st.blocks)].cont = Here(st)]

\* [compiler.go block]
enter(st, typ, label, needResult) ==
    [st EXCEPT !.blocks = Append(@, [typ |-> typ, label |-> label, cont |-> 0, breaks |-> <<>>, conts |-> <<>>,
                                     breaking |-> 0, needResult |-> needResult])]

\* [compiler.go leaveBlock] patches the exits recorded so far.
leaveBlock(st) ==
    LET jump(s, list, to) == FoldLeft(LAMBDA x, p : Patch(x, p, Ins("jump", to - p, 0)), s, list)
        left(s, b) == [IF b.typ \in {"loop", "loopEnum"} THEN jump(s, b.conts, b.cont) ELSE s EXCEPT !.blocks = Front(@)]
    IN left(jump(st, Top(st).breaks, Here(st)), Top(st))

\* [compiler_stmt.go updateEnterBlock]
EnterBlock(lets, stash) == Ins("enterBlock", IF stash THEN 0 ELSE lets, stash /\ lets > 0)

\* [compiler.go leaveScopeBlock]
leaveScopeBlock(st, enterPos, stack, stash) ==
    LET exits(s) == FoldLeft(LAMBDA x, p : Patch(x, p, Ins("leaveBlock", stack, stash)), s, Top(st).breaks)
        left(s) == exits(emit(Patch(s, enterPos, Ins("enterBlock", stack, stash)), <<Ins("leaveBlock", stack, stash)>>))
    IN leaveBlock([left(st) EXCEPT !.blocks[Len(st.blocks)].breaks = <<>>])

\* [compiler.go enterDummyMode] compiles into a program that is thrown away.  Only the innermost block is a copy: what
\* the discarded code adds to the blocks around it stays.
dummy(st, compiled(_)) ==
    LET inner == [[st EXCEPT !.code = <<>>] EXCEPT !.blocks[Len(st.blocks)] = [@ EXCEPT !.breaks = <<>>, !.conts = <<>>, !.needResult = FALSE]]
    IN IF st.blocks = <<>> THEN st ELSE [st EXCEPT !.blocks = [compiled(inner).blocks EXCEPT ![Len(st.blocks)] = Top(st)]]

\* The block from block i outwards that satisfies P, or 0
Outwards(st, P(_)) == Max({0} \cup {i \in DOMAIN st.blocks : P(st.blocks[i])})

\* [compiler_stmt.go findBreakBlock] a finally clause that always breaks takes precedence over the target.
findBreakBlock(st, label, isBreak) ==
    LET found(target, over) == IF over # 0 /\ over >= target THEN st.blocks[over].breaking ELSE target
        types == {"loop", "loopEnum"} \cup (IF isBreak THEN {"switch"} ELSE {})
    IN found(Outwards(st, LAMBDA b : IF label # "" THEN b.label = label ELSE b.typ \in types), Outwards(st, LAMBDA b : b.breaking # 0))

\* [compiler_stmt.go emitBlockExitCode] leaves the blocks inside the target, from the inside out.
emitBlockExitCode(st, target, isBreak) ==
    LET contForLoop == ~isBreak /\ st.blocks[target].typ = "loop"
        inner == [k \in 1..(Len(st.blocks) - target) |-> Len(st.blocks) - k + 1]
        exit(s, i) ==
            LET typ == s.blocks[i].typ
            IN  CASE typ = "iterScope" /\ contForLoop /\ i - 1 = target -> s
                  [] typ \in {"iterScope", "scope"} -> emit([s EXCEPT !.blocks[i].breaks = Append(@, Here(s))], <<Hole>>)
                  [] typ = "try" -> emit(s, <<Ins("leaveTry", 0, 0)>>)
                  [] typ = "with" -> emit(s, <<Ins("leaveWith", 0, 0)>>)
                  [] typ = "loopEnum" -> emit(s, <<Ins("enumPopClose", 0, 0)>>)
                  [] OTHER -> s
    IN FoldLeft(exit, st, inner)

\* [compiler_stmt.go compileBreak..compileContinue]
compileBranch(st, label, isBreak) ==
    LET exit(s, target) == emit(IF isBreak THEN [s EXCEPT !.blocks[target].breaks = Append(@, Here(s))]
                                ELSE [s EXCEPT !.blocks[target].conts = Append(@, Here(s))], <<Hole>>)
        to(target) == exit(emitBlockExitCode(st, target, isBreak), target)
    IN to(findBreakBlock(st, label, isBreak))

\* [compiler_expr.go emitExpr] evaluates an expression; only calls can have effects.
emitExpr(st, e, putOnStack) ==
    CASE e[1] = "const" -> EmitIf(putOnStack, st, <<Ins("loadVal", e, 0)>>)
      [] e[1] \in {"call", "quiet"} -> emit(st, <<Ins("event", e[2], IF e[1] = "call" THEN 1 ELSE 0)>> \o IF putOnStack THEN <<>> ELSE <<Ins("pop", 0, 0)>>)
      [] e[1] = "fn"    -> emit(st, <<Ins("loadVal", Const("f"), 0), Ins("loadVal", Const("t"), 0), Ins("call", 0, 0)>>
                                    \o IF putOnStack THEN <<>> ELSE <<Ins("pop", 0, 0)>>)

Clear == Ins("clearResult", 0, 0)

\* [compiler_stmt.go compileReturnStatement]
compileReturn(st, e) ==
    LET s0 == IF e = <<>> THEN emit(st, <<Ins("loadUndef", 0, 0)>>) ELSE emitExpr(st, e, TRUE)
        leave(s, i) == CASE s.blocks[i].typ = "try" ->
                               emit(s, <<Ins("saveResult", 0, 0), Ins("leaveTry", 0, 0), Ins("loadResult", 0, 0)>>)
                         [] s.blocks[i].typ = "loopEnum" -> emit(s, <<Ins("enumPopClose", 0, 0)>>)
                         [] OTHER -> s
    IN emit(FoldLeft(leave, s0, [k \in DOMAIN st.blocks |-> Len(st.blocks) - k + 1]), <<Ins("ret", 0, 0)>>)

\* [compiler_stmt.go isEmptyResult]
RECURSIVE isEmptyResult(_)
isEmptyResult(s) ==
    CASE s.k \in {"empty", "lets", "break", "continue"} -> TRUE
      [] s.k = "label" -> isEmptyResult(s.body[1])
      [] s.k = "block" ->
            LET branch == {i \in DOMAIN s.body : s.body[i].k \in {"break", "continue"}}
                full   == {i \in DOMAIN s.body : ~isEmptyResult(s.body[i])}
            IN full = {} \/ \E b \in branch : \A f \in full : b < f
      [] OTHER -> FALSE

\* [compiler_stmt.go scanStatements] the index of the last statement with a result, and the block that the first
\* branch statement of the list leaves.
scanStatements(st, list) ==
    LET branch == {i \in DOMAIN list : list[i].k \in {"break", "continue"}}
        last(n) == Max({0} \cup {i \in 1..n : ~isEmptyResult(list[i])})
        until(i) == [last |-> last(i - 1), breaking |-> findBreakBlock(st, list[i].l, list[i].k = "break")]
    IN IF branch = {} THEN [last |-> last(Len(list)), breaking |-> 0] ELSE until(Min(branch))

RECURSIVE compileStatement(_, _, _)

\* [compiler_stmt.go compileStatementsNeedResult] what follows a branch statement is dead code.
RECURSIVE compileTail(_, _)
compileTail(st, list) ==
    LET rest(s) == IF Head(list).k \in {"break", "continue"}
                   THEN dummy(s, LAMBDA x : FoldLeft(LAMBDA y, v : compileStatement(y, v, FALSE), x, Tail(list)))
                   ELSE compileTail(s, Tail(list))
    IN IF list = <<>> THEN st ELSE rest(compileStatement(st, Head(list), FALSE))

\* [compiler_stmt.go compileStatements]
compileStatements(st, list, needResult) ==
    LET plain(s, v) == compileStatement(s, v, FALSE)
        upTo(n) == IF n = 0 THEN st ELSE compileStatement(FoldLeft(plain, st, SubSeq(list, 1, n - 1)), list[n], TRUE)
        by(scan) == IF IF scan.breaking # 0 THEN st.blocks[scan.breaking].needResult ELSE needResult
                    THEN compileTail(upTo(scan.last), SubSeq(list, scan.last + 1, Len(list)))
                    ELSE FoldLeft(plain, st, list)
    IN by(scanStatements(st, list))

\* [compiler_stmt.go compileBlockStatement]
compileBlock(st, v, needResult) ==
    IF v.lets = 0 THEN compileStatements(st, v.body, needResult)
    ELSE LET s == emit(enter(st, "scope", "", needResult), <<Hole>>)
             d == EnterBlock(v.lets, v.stash)
         IN leaveScopeBlock(compileStatements(s, v.body, needResult), Here(st), d.a, d.b)

\* [compiler_stmt.go compileIfStatement] a constant test leaves one branch out.
compileIf(st, v, needResult) ==
    LET alt == v.alt # <<>>
        branch(s, x) == compileStatement(s, x, needResult)
        dead(s, x) == dummy(s, LAMBDA y : compileStatement(y, x, FALSE))
        always(s) == IF alt THEN dead(s, v.alt[1]) ELSE s
        never(s) == IF alt THEN branch(s, v.alt[1]) ELSE EmitIf(needResult, s, <<Clear>>)
        \* after the first branch; the jump over it is at jmp
        other(s, jmp) ==
            IF alt THEN PatchJump(branch(PatchJump(emit(s, <<Hole>>), jmp, "jneP"), v.alt[1]), Here(s), "jump")
            ELSE IF needResult THEN emit(PatchJump(emit(s, <<Ins("jump", 2, 0)>>), jmp, "jneP"), <<Clear>>)
            ELSE PatchJump(s, jmp, "jneP")
        tested(s) == other(branch(emit(s, <<Hole>>), v.body[1]), Here(s))
        from(s) == CASE v.e = Const("t") -> always(branch(s, v.body[1]))
                     [] v.e = Const("f") -> never(dead(s, v.body[1]))
                     [] OTHER -> tested(emitExpr(s, v.e, TRUE))
    IN from(EmitIf(needResult, st, <<Clear>>))

\* [compiler_stmt.go compileLabeledDoWhileStatement]
compileDoWhile(st, v, needResult, label) ==
    LET body == compileStatement(enter(st, "loop", label, needResult), v.body[1], needResult)
    IN leaveBlock(EmitJump(emitExpr(ContHere(body), v.e, TRUE), "jeqP", Here(st)))

\* [compiler_stmt.go compileLabeledWhileStatement]
compileWhile(st, v, needResult, label) ==
    LET body(s, start) == EmitJump(compileStatement(EmitIf(needResult, s, <<Clear>>), v.body[1], needResult), "jump", start)
        tested(s, start) == PatchJump(body(emit(s, <<Hole>>), start), Here(s), "jneP")
        loop(s) == CASE v.e = Const("f") -> dummy(s, LAMBDA x : compileStatement(x, v.body[1], FALSE))
                     [] v.e = Const("t") -> body(s, Here(s))
                     [] OTHER -> tested(emitExpr(s, v.e, TRUE), Here(s))
    IN leaveBlock(loop(ContHere(EmitIf(needResult, enter(st, "loop", label, needResult), <<Clear>>))))

\* [compiler_stmt.go compileLabeledForStatement] a let declaration in its head makes one scope for all iterations, copied
\* between them when closures may have captured it.
compileFor(st, v, needResult, label) ==
    LET let == v.lets > 0
        d   == EnterBlock(v.lets, v.stash)
        copy == IF v.stash /\ v.e # Const("f") THEN Ins("copyStash", 0, 0) ELSE Ins("jump", 1, 0)
        clear(s) == EmitIf(needResult, s, <<Clear>>)
        update(s) == IF v.alt = <<>> THEN s ELSE emitExpr(s, v.alt[1], FALSE)
        cont(s) == [s EXCEPT !.blocks[Len(st.blocks) + 1].cont = IF let /\ ~v.stash THEN Here(s) + 1 ELSE Here(s)]
        body(s, start) == EmitJump(update(EmitIf(let, cont(compileStatement(clear(s), v.body[1], needResult)), <<copy>>)), "jump", start)
        tested(s, start) == PatchJump(body(emit(s, <<Hole>>), start), Here(s), "jneP")
        loop(s) == CASE v.e = Const("f") -> dummy(s, LAMBDA x : update(compileStatement(x, v.body[1], FALSE)))
                     [] v.e \in {<<>>, Const("t")} -> body(s, Here(s))
                     [] OTHER -> tested(emitExpr(s, v.e, TRUE), Here(s))
        iterScope(s) == emit(enter(s, "iterScope", "", needResult), <<Hole>>)
        from(s) == IF let THEN leaveScopeBlock(loop(emit(clear(iterScope(s)), <<copy>>)), Here(s), d.a, d.b) ELSE loop(clear(s))
    IN leaveBlock(from(enter(st, "loop", label, needResult)))

\* [compiler_stmt.go compileForInto..compileLabeledForOfStatement]
compileForInOf(st, v, needResult, label) ==
    LET iter == v.k = "forof"
        let  == v.lets > 0
        d    == EnterBlock(v.lets, v.stash)
        into(s) == emit(s, <<Ins("enumGet", 0, 0), Ins("pop", 0, 0)>>)
        body(s) == compileStatement(EmitIf(needResult, into(s), <<Clear>>), v.body[1], needResult)
        scoped(s) == IF let THEN leaveScopeBlock(body(emit(enter(s, "iterScope", "", needResult), <<Hole>>)), Here(s), d.a, d.b) ELSE body(s)
        loop(s) == PatchJump(EmitJump(scoped(emit(ContHere(s), <<Hole>>)), "jump", Here(s)), Here(s), IF iter THEN "iterNext" ELSE "enumNext")
        source(s) == EmitIf(needResult, emit(emitExpr(s, v.e, TRUE), <<Ins(IF iter THEN "iterateP" ELSE "enumerate", 0, 0)>>), <<Clear>>)
        start == EmitIf(let, enter(st, "loopEnum", label, needResult), <<Ins("jump", 1, 0)>>)
    IN emit(leaveBlock(emit(loop(source(start)), <<Ins("enumPop", 0, 0), Ins("jump", 2, 0)>>)), <<Ins("enumPopClose", 0, 0)>>)

\* [compiler_stmt.go compileTryStatement]
compileTry(st, v, needResult) ==
    LET c    == v.alt[1]
        scope(s, nr) == leaveScopeBlock(compileStatements(emit(enter(s, "scope", "", FALSE), <<Hole>>), c.body, nr), Here(s),
                                        IF v.stash THEN c.lets ELSE c.lets + 1, v.stash)
        catch(s, nr) == IF v.lets = 0 THEN compileBlock(emit(s, <<Ins("pop", 0, 0)>>), c, nr)
                        ELSE Patch(scope(s, nr), Here(s), IF v.stash THEN Ins("enterCatchBlock", c.lets, TRUE) ELSE Ins("enterBlock", c.lets, FALSE))
        caught(s, nr) == IF v.alt = <<>> THEN s ELSE PatchJump(catch(emit(s, <<Hole>>), nr), Here(s), "jump")
        finally(s, clear) == IF v.fin = <<>> THEN emit(s, <<Ins("leaveTry", 0, 0)>>)
                             ELSE emit(compileBlock(EmitIf(clear, emit(s, <<Ins("enterFinally", 0, 0)>>), <<Clear>>), v.fin[1], FALSE), <<Ins("leaveFinally", 0, 0)>>)
        \* after both blocks; the first ends at bodyEnd, the statement starts at lbl
        rest(s, bodyEnd, lbl, clear) ==
            Patch(finally(s, clear), lbl, Ins("try", IF v.alt = <<>> THEN 0 ELSE bodyEnd + 1 - lbl, IF v.fin = <<>> THEN 0 ELSE Here(s) + 1 - lbl))
        blocks(s, lbl, nr, clear) == rest(caught(s, nr), Here(s), lbl, clear)
        body(s, scan, nr) ==
            blocks(compileBlock(EmitIf(needResult, emit([s EXCEPT !.blocks[Len(s.blocks)].breaking = scan.breaking], <<Hole>>), <<Clear>>), v.body[1], nr),
                   Here(s), nr, nr /\ scan.breaking # 0 /\ scan.last = 0)
        from(s, scan) == body(s, scan, IF scan.breaking = 0 THEN needResult ELSE scan.last = 0 /\ s.blocks[scan.breaking].needResult)
        entered(s) == from(s, IF v.fin = <<>> THEN [last |-> 0, breaking |-> 0] ELSE scanStatements(s, v.fin[1].body))
    IN leaveBlock(entered(enter(st, "try", "", FALSE)))

\* [compiler_stmt.go compileSwitchStatement] the discriminant stays on the stack while the tests run, as the first
\* variable of the scope if there is one.
compileSwitch(st, v, needResult) ==
    LET scope == v.lets > 0
        test(s, c) == IF c.e = <<>> THEN s
                      ELSE emit(emitExpr(emit(s, <<Ins(IF scope THEN "loadDiscr" ELSE "dup", v.lets, 0)>>), c.e, TRUE),
                                <<Ins("strictEq", 0, 0)>> \o (IF scope THEN <<Ins("jneP", 2, 0)>> ELSE <<Ins("jneP", 3, 0), Ins("pop", 0, 0)>>)
                                \o <<Hole>>)
        holes(s) == [i \in DOMAIN v.body |-> Here(FoldLeft(test, s, SubSeq(v.body, 1, i))) - 1]
        default == {i \in DOMAIN v.body : v.body[i].e = <<>>}
        clause(s, i, from) == compileStatements(IF i = 1 /\ i \in default THEN s ELSE PatchJump(s, from, "jump"), v.body[i].body, needResult)
        \* the clauses; after is the position of the jump to the default clause, or past the end
        bodies(s, hs, after) == FoldLeft(LAMBDA x, i : clause(x, i, IF i \in default THEN after ELSE hs[i]), s, [i \in DOMAIN v.body |-> i])
        closed(s, after) == IF default = {} THEN PatchJump(s, after, "jump") ELSE s
        clauses(s, hs) == closed(bodies(EmitIf(default # {1}, s, <<Hole>>), hs, Here(s)), Here(s))
        tests(s) == clauses(EmitIf(~scope, FoldLeft(test, s, v.body), <<Ins("pop", 0, 0)>>), holes(s))
        clear(s) == EmitIf(needResult, s, <<Clear>>)
        from(s) == IF ~scope THEN tests(clear(s))
                   ELSE Patch(leaveScopeBlock(tests(clear(emit(enter(s, "scope", "", needResult), <<Hole>>))), Here(s), v.lets + 1, FALSE),
                              Here(s), Ins("enterBlock", v.lets, FALSE))
    IN leaveBlock(from(emitExpr(enter(st, "switch", "", needResult), v.e, TRUE)))

\* [compiler_stmt.go compileWithStatement]
compileWith(st, v, needResult) ==
    LET s1 == enter(emit(emitExpr(st, v.e, TRUE), <<Ins("enterWith", 0, 0)>>), "with", "", needResult)
    IN leaveBlock(emit(compileStatement(s1, v.body[1], needResult), <<Ins("leaveWith", 0, 0)>>))

Loops == {"while", "do", "for", "forof", "forin"}

compileLoop(st, v, needResult, label) ==
    CASE v.k = "while" -> compileWhile(st, v, needResult, label)
      [] v.k = "do"    -> compileDoWhile(st, v, needResult, label)
      [] v.k = "for"   -> compileFor(st, v, needResult, label)
      [] OTHER         -> compileForInOf(st, v, needResult, label)

\* [compiler_stmt.go compileLabeledStatement]
compileLabelled(st, v, needResult) ==
    IF v.body[1].k \in Loops THEN compileLoop(st, v.body[1], needResult, v.l)
    ELSE leaveBlock(compileStatement(enter(st, "label", v.l, needResult), v.body[1], needResult))

\* [compiler_stmt.go compileStatement]
compileStatement(st, v, needResult) ==
    CASE v.k = "expr"     -> EmitIf(needResult, emitExpr(st, v.e, needResult), <<Ins("saveResult", 0, 0)>>)
      [] v.k = "empty"    -> EmitIf(needResult, st, <<Clear>>)
      [] v.k = "lets"     -> st
      [] v.k = "throw"    -> emit(emitExpr(st, v.e, TRUE), <<Ins("throw", 0, 0)>>)
      [] v.k = "return"   -> compileReturn(st, v.e)
      [] v.k \in {"break", "continue"} -> compileBranch(st, v.l, v.k = "break")
      [] v.k = "block"    -> compileBlock(st, v, needResult)
      [] v.k = "if"       -> compileIf(st, v, needResult)
      [] v.k = "try"      -> compileTry(st, v, needResult)
      [] v.k = "switch"   -> compileSwitch(st, v, needResult)
      [] v.k = "with"     -> compileWith(st, v, needResult)
      [] v.k = "label"    -> compileLabelled(st, v, needResult)
      [] v.k \in Loops    -> compileLoop(st, v, needResult, "")

\* [compiler.go compile] a script ("main"), or the body of a function ("fn"), which has no result and ends in a return
compile(list, kind) ==
    LET body == compileStatement([code |-> <<>>, blocks |-> <<>>], Block(0, FALSE, list), kind = "main")
    IN EmitIf(kind = "fn", body, <<Ins("loadUndef", 0, 0), Ins("ret", 0, 0)>>).code

---------------------------------------------------------------------------
(* The VM.                                                                 *)

VARIABLES
    prog,     \* the name of the program being run
    code,     \* what it is compiled to: a record of the script's and the function's instructions
    vm,       \* registers and stacks
    trace     \* the events so far: <<id, outcome>>

vars == <<prog, code, vm, trace>>

CONSTANTS
    Programs,    \* names of programs
    Ast          \* their syntax: a record of the script's and the function's statements

undefined == <<"undef", "f">>
Truthy(v) == v[2] = "t"

\* [vm.go tryFrame] callStackLen, iterLen, refLen, sp, stash, positions, and the exception for the finally block
Frame(m, catchPos, finallyPos) ==
    [calls |-> Len(m.calls), iters |-> Len(m.iters), sp |-> Len(m.stack), stash |-> m.stash,
     catchPos |-> catchPos, finallyPos |-> finallyPos, finallyRet |-> -1, ex |-> <<>>]

\* The try stack is a slice: appending beyond its capacity moves it.
Grown(cap, n) == IF n <= cap THEN cap ELSE IF n <= 2 * cap THEN 2 * cap ELSE n

PanicMarker == -2

\* [vm.go pushTryFrame]
pushTryFrame(m, catchPos, finallyPos) ==
    [m EXCEPT !.tries = Append(@, Frame(m, catchPos, finallyPos)), !.cap = Grown(@, Len(m.tries) + 1)]

popTryFrame(m) == [m EXCEPT !.tries = Front(@)]

\* [runtime.go RunProgram] the state in which runTry starts
Start == pushTryFrame([prg |-> "main", pc |-> 0, stack |-> <<>>, sb |-> 0, result |-> undefined, stash |-> 0,
                       iters |-> <<>>, tries |-> <<>>, calls |-> <<>>, cap |-> 0, ex |-> <<>>], PanicMarker, -1)

Init ==
    /\ prog \in Programs /\ vm = Start /\ trace = <<>>
    /\ code = [kind \in {"main", "fn"} |-> compile(Ast[prog][kind], kind)]

CodeNow == code[vm.prg]

\* [vm.go halted]
halted == vm.ex # <<>> \/ vm.pc < 0 \/ vm.pc >= Len(CodeNow)

op == CodeNow[vm.pc + 1]
At(name) == ~halted /\ op.op = name

Advance(m) == [m EXCEPT !.pc = @ + 1]
Jump(m, n) == [m EXCEPT !.pc = @ + n]
push(m, v) == [m EXCEPT !.stack = Append(@, v)]
pop(m) == [m EXCEPT !.stack = Front(@)]
Peek == Last(vm.stack)

Becomes(m) == vm' = m /\ UNCHANGED <<prog, code, trace>>

\* The frames of handleThrow that have neither clause left are dropped on the way [vm.go:800-808 handleThrow].
RECURSIVE unwound(_)
unwound(m) ==
    LET tf == Last(m.tries)
    IN IF tf.catchPos = -1 /\ tf.finallyPos = -1 THEN unwound(popTryFrame(m)) ELSE m

\* [vm.go restoreStacks] the iterators left behind by an exception, innermost first
Abandoned(m) == LET tf == Last(unwound(m).tries)
                IN SelectSeq(Reverse(SubSeq(m.iters, tf.iters + 1, Len(m.iters))), LAMBDA i : i = "open")

\* [vm.go handleThrow] the frame was located before the iterators are closed; when closing them makes the try stack
\* move, what is written to the frame afterwards goes to the abandoned array.
handleThrow(m, v) ==
    LET u   == unwound(m)
        n   == Len(u.tries)
        tf  == u.tries[n]
        cap == IF Abandoned(m) = <<>> THEN u.cap ELSE Grown(u.cap, n + ReturnFrames)
        stale == cap # u.cap
        ctx == m.calls[tf.calls + 1]
        r   == IF tf.calls = Len(m.calls) THEN u
               ELSE [u EXCEPT !.prg = ctx.prg, !.sb = ctx.sb, !.result = ctx.result, !.pc = ctx.pc,
                              !.calls = SubSeq(@, 1, tf.calls)]
        s   == [r EXCEPT !.stack = SubSeq(@, 1, tf.sp), !.stash = tf.stash, !.iters = SubSeq(@, 1, tf.iters), !.cap = cap]
    IN  IF tf.catchPos = PanicMarker THEN [s EXCEPT !.ex = <<v>>]
        ELSE IF tf.catchPos >= 0 THEN
            [push(s, v) EXCEPT !.pc = tf.catchPos, !.tries[n].catchPos = IF stale THEN @ ELSE -1]
        ELSE [s EXCEPT !.pc = tf.finallyPos,
                       !.tries[n] = IF stale THEN @ ELSE [@ EXCEPT !.ex = <<v>>, !.finallyPos = -1, !.finallyRet = -1]]

\* An exception in the middle of an instruction.  evs are the events before it; each abandoned iterator gets its
\* return() called, whose own exceptions are dropped.
Raise(m, v, evs) ==
    /\ Len(trace) + Len(evs) + Len(Abandoned(m)) <= MaxEvents
    /\ \E outs \in [DOMAIN Abandoned(m) -> {"t", "x"}] :
          trace' = trace \o evs \o [k \in DOMAIN Abandoned(m) |-> <<"return", outs[k]>>]
    /\ vm' = handleThrow(m, v)
    /\ UNCHANGED <<prog, code>>

\* [vm.go loadVal]
LoadVal == At("loadVal") /\ Becomes(Advance(push(vm, op.a)))
\* [vm.go _loadUndef]
LoadUndef == At("loadUndef") /\ Becomes(Advance(push(vm, undefined)))
\* [vm.go _pop]
Pop == At("pop") /\ Becomes(Advance(pop(vm)))
\* [vm.go _dup]
Dup == At("dup") /\ Becomes(Advance(push(vm, Peek)))
\* The variable that holds the discriminant of a switch [vm.go loadStackLex]
LoadDiscr == At("loadDiscr") /\ Becomes(Advance(push(vm, vm.stack[Len(vm.stack) - op.a])))
\* [vm.go _saveResult]
SaveResult == At("saveResult") /\ Becomes(Advance([pop(vm) EXCEPT !.result = Peek]))
\* [vm.go _loadResult]
LoadResult == At("loadResult") /\ Becomes(Advance(push(vm, vm.result)))

\* [vm.go _clearResult]
ClearResult == At("clearResult") /\ Becomes(Advance([vm EXCEPT !.result = undefined]))
\* [vm.go jump]
JumpTo == At("jump") /\ Becomes(Jump(vm, op.a))
\* [vm.go jneP]
JneP == At("jneP") /\ Becomes(Jump(pop(vm), IF Truthy(Peek) THEN 1 ELSE op.a))
\* [vm.go jeqP]
JeqP == At("jeqP") /\ Becomes(Jump(pop(vm), IF Truthy(Peek) THEN op.a ELSE 1))
\* [vm.go _op_strict_eq], on opaque values: equal when both are truthy
StrictEq == LET a == vm.stack[Len(vm.stack) - 1]
            IN At("strictEq") /\ Becomes(Advance(push(pop(pop(vm)), Const(IF a[2] = Peek[2] THEN "t" ELSE "f"))))

\* An opaque expression: a value, or an exception, which is named after the event.
EvalEvent == /\ At("event") /\ Len(trace) < MaxEvents
             /\ \/ \E out \in {"t", "f"} : /\ vm' = Advance(push(vm, <<op.a, out>>))
                                           /\ trace' = Append(trace, <<op.a, out>>) /\ UNCHANGED <<prog, code>>
                \/ op.b = 1 /\ Raise(vm, <<op.a, "t">>, <<<<op.a, "x">>>>)
\* [vm.go _throw]
ThrowValue == At("throw") /\ Raise(vm, Peek, <<>>)

\* [vm.go enterBlock]
Slots(n) == [k \in 1..n |-> <<"slot", "f">>]
EnterScope == At("enterBlock") /\ Becomes(Advance([vm EXCEPT !.stack = @ \o Slots(op.a), !.stash = @ + IF op.b THEN 1 ELSE 0]))
\* [vm.go enterCatchBlock]
EnterCatch == At("enterCatchBlock") /\ Becomes(Advance([vm EXCEPT !.stack = Front(@) \o Slots(op.a), !.stash = @ + 1]))
\* [vm.go leaveBlock]
LeaveScope == /\ At("leaveBlock")
              /\ Becomes(Advance([vm EXCEPT !.stack = SubSeq(@, 1, Len(@) - op.a), !.stash = @ - IF op.b THEN 1 ELSE 0]))
\* [vm.go copyStash]
CopyStash == At("copyStash") /\ Becomes(Advance(vm))
\* [vm.go _enterWith]
EnterWith == At("enterWith") /\ Becomes(Advance([pop(vm) EXCEPT !.stash = @ + 1]))
\* [vm.go _leaveWith]
LeaveWith == At("leaveWith") /\ Becomes(Advance([vm EXCEPT !.stash = @ - 1]))

Tf == Last(vm.tries)
NTries == Len(vm.tries)

\* [vm.go try]
EnterTry == /\ At("try")
            /\ Becomes(Advance(pushTryFrame(vm, IF op.a > 0 THEN vm.pc + op.a ELSE -1, IF op.b > 0 THEN vm.pc + op.b ELSE -1)))
\* [vm.go leaveTry]
LeaveTry == /\ At("leaveTry")
            /\ IF Tf.finallyPos >= 0
               THEN Becomes([vm EXCEPT !.tries[NTries] = [@ EXCEPT !.finallyRet = vm.pc + 1, !.finallyPos = -1, !.catchPos = -1],
                                       !.pc = Tf.finallyPos, !.stack = SubSeq(@, 1, Tf.sp), !.stash = Tf.stash])
               ELSE Becomes(Advance(popTryFrame(vm)))
\* [vm.go enterFinally]
EnterFinally == At("enterFinally") /\ Becomes(Advance([vm EXCEPT !.tries[NTries].finallyPos = -1]))
\* Mutant: the pending exception is dropped.
LeaveFinallyDrops == At("leaveFinally") /\ Becomes([popTryFrame(vm) EXCEPT !.pc = IF Tf.finallyRet # -1 THEN Tf.finallyRet ELSE @ + 1])

\* [vm.go leaveFinally]
LeaveFinally == /\ At("leaveFinally")
                /\ IF Tf.ex # <<>> THEN Raise(popTryFrame(vm), Tf.ex[1], <<>>)
                   ELSE Becomes([popTryFrame(vm) EXCEPT !.pc = IF Tf.finallyRet # -1 THEN Tf.finallyRet ELSE @ + 1])

\* [vm.go _iterateP] and _enumerate: the iterator of a value, which may throw for for-of only
Iterate == /\ At("iterateP") /\ Len(trace) < MaxEvents
           /\ \/ /\ vm' = [Advance(pop(vm)) EXCEPT !.iters = Append(@, "open"), !.cap = Grown(@, NTries + 1)]
                 /\ trace' = Append(trace, <<"iterator", "t">>) /\ UNCHANGED <<prog, code>>
              \/ Raise(vm, <<"iterator", "t">>, <<<<"iterator", "x">>>>)
\* [vm.go _enumerate]
Enumerate == At("enumerate") /\ Becomes([Advance(pop(vm)) EXCEPT !.iters = Append(@, "enum")])
\* [vm.go enumNext]
EnumNext == /\ At("enumNext") /\ Len(trace) < MaxEvents /\ UNCHANGED <<prog, code>>
            /\ \E out \in {"t", "f"} : /\ vm' = Jump(vm, IF out = "t" THEN 1 ELSE op.a)
                                       /\ trace' = Append(trace, <<"key", out>>)
\* [vm.go iterNext] step() runs next() two frames up the try stack; a finished iterator is not closed again, a failed
\* one is dropped.
IterNext == /\ At("iterNext") /\ Len(trace) < MaxEvents
            /\ \E m \in {[vm EXCEPT !.cap = Grown(@, NTries + 2)]} :
                  \/ /\ vm' = Advance(m) /\ trace' = Append(trace, <<"next", "t">>) /\ UNCHANGED <<prog, code>>
                  \/ /\ vm' = Jump([m EXCEPT !.iters[Len(m.iters)] = "done"], op.a)
                     /\ trace' = Append(trace, <<"next", "f">>) /\ UNCHANGED <<prog, code>>
                  \/ Raise([m EXCEPT !.iters = Front(@)], <<"next", "t">>, <<<<"next", "x">>>>)
\* [vm.go _enumGet]
EnumGet == At("enumGet") /\ Becomes(Advance(push(vm, <<"item", "t">>)))
\* [vm.go _enumPop]
EnumPop == At("enumPop") /\ Becomes(Advance([vm EXCEPT !.iters = Front(@)]))
\* [vm.go _enumPopClose] and [runtime.go returnIter]
EnumPopClose ==
    /\ At("enumPopClose")
    /\ LET m == [vm EXCEPT !.iters = Front(@)]
       IN IF Last(vm.iters) # "open" THEN Becomes(Advance(m))
          ELSE /\ Len(trace) < MaxEvents
               /\ \/ /\ vm' = Advance([m EXCEPT !.cap = Grown(@, NTries + ReturnFrames - 1)])
                     /\ trace' = Append(trace, <<"return", "t">>) /\ UNCHANGED <<prog, code>>
                  \/ Raise([m EXCEPT !.cap = Grown(@, NTries + ReturnFrames - 1)], <<"return", "t">>, <<<<"return", "x">>>>)

\* [func.go:481-489 vmCall] and [vm.go pushCtx]: callee and this are on the stack.
CallFn == /\ At("call")
          /\ Becomes([vm EXCEPT !.calls = Append(@, [prg |-> vm.prg, pc |-> vm.pc, sb |-> vm.sb, result |-> vm.result, stash |-> vm.stash]),
                                !.prg = "fn", !.pc = 0, !.stash = 0, !.sb = Len(vm.stack)])
\* [vm.go _ret] and [vm.go popCtx]
Ret == /\ At("ret")
       /\ LET ctx == Last(vm.calls)
          IN Becomes(Advance([vm EXCEPT !.stack = Append(SubSeq(@, 1, vm.sb - 2), Peek), !.calls = Front(@), !.prg = ctx.prg,
                                        !.pc = ctx.pc, !.sb = ctx.sb, !.result = ctx.result, !.stash = ctx.stash]))

Next ==
    \/ LoadVal \/ LoadUndef \/ Pop \/ Dup \/ LoadDiscr \/ SaveResult \/ LoadResult \/ ClearResult
    \/ JumpTo \/ JneP \/ JeqP \/ StrictEq \/ EvalEvent \/ ThrowValue
    \/ EnterScope \/ EnterCatch \/ LeaveScope \/ CopyStash \/ EnterWith \/ LeaveWith
    \/ EnterTry \/ LeaveTry \/ EnterFinally \/ LeaveFinally
    \/ Iterate \/ Enumerate \/ EnumNext \/ IterNext \/ EnumGet \/ EnumPop \/ EnumPopClose
    \/ CallFn \/ Ret

Spec == Init /\ [][Next]_vars /\ WF_vars(Next)
=============================================================================
