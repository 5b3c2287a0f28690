------------------------- MODULE StatementSemantics -------------------------
(***************************************************************************)
(* What ECMAScript makes of the statements of module Statements, by        *)
(* structural recursion with completion records.  The outcomes of opaque   *)
(* expressions are read from the trace of an execution of the VM.          *)
(***************************************************************************)
EXTENDS Statements

\* Completion records: type, value (<<>> when empty) and target; i is the number of events consumed.
Comp(t, v, l, i) == [t |-> t, v |-> v, l |-> l, i |-> i]
Normal(v, i) == Comp("normal", v, "", i)
Thrown(v, i) == Comp("throw", <<v>>, "", i)
Abrupt(c) == c.t # "normal"
Mismatch(i) == Comp("mismatch", <<>>, "", i)

\* UpdateEmpty
Or(c, v) == IF c.v = <<>> THEN [c EXCEPT !.v = v] ELSE c

\* The outcome of the next event, which has to be this one
Outcome(id, i) == IF i < Len(trace) /\ trace[i + 1][1] = id THEN trace[i + 1][2] ELSE "mismatch"

EventResult(id, i) ==
    LET with(out) == CASE out = "x" -> Thrown(<<id, "t">>, i + 1)
                       [] out = "mismatch" -> Mismatch(i)
                       [] OTHER -> Normal(<<<<id, out>>>>, i + 1)
    IN with(Outcome(id, i))

\* ReturnIfAbrupt: a completion that is abrupt is the result, otherwise After of it is
Then(c, After(_)) == LET with(r) == IF Abrupt(r) THEN r ELSE After(r) IN with(c)

RECURSIVE Stmt(_, _, _), List(_, _), Iterations(_, _, _, _, _)

\* The call of the program's function
FnResult(i) ==
    LET of(c) == CASE c.t = "return" -> Normal(c.v, c.i)
                   [] c.t = "normal" -> Normal(<<undefined>>, c.i)
                   [] OTHER -> c
    IN of(List(Ast[prog].fn, i))

Expr(e, i) == CASE e[1] = "const" -> Normal(<<e>>, i)
                [] e[1] \in {"call", "quiet"} -> EventResult(e[2], i)
                [] e[1] = "fn" -> FnResult(i)

List(list, i) == IF list = <<>> THEN Normal(<<>>, i)
                 ELSE Then(Stmt(Head(list), {}, i), LAMBDA c : Or(List(Tail(list), c.i), c.v))

\* IteratorClose: the completion that goes on
Close(c) ==
    LET with(r) == IF r.t = "mismatch" \/ (c.t # "throw" /\ Abrupt(r)) THEN r ELSE [c EXCEPT !.i = r.i]
    IN with(EventResult("return", c.i))

LoopContinues(c, labels) == c.t = "normal" \/ (c.t = "continue" /\ c.l \in labels \cup {""})

\* break with one of these labels ends the statement
Broken(c, labels) == IF c.t = "break" /\ c.l \in labels THEN Normal(c.v, c.i) ELSE c

\* A loop body has ended with c: break and the labels of the loop are consumed.
LeaveLoop(c, labels) == Broken(c, labels \cup {""})

\* The iterations of a loop from a position: "test" evaluates the test or asks the iterator, "body" runs the body, "update"
\* evaluates the update expression.  V is the value so far.
Iterations(s, labels, at, V, i) ==
    LET test == CASE s.k = "forof" -> EventResult("next", i)
                  [] s.k = "forin" -> EventResult("key", i)
                  [] OTHER -> IF s.e = <<>> THEN Normal(<<Const("t")>>, i) ELSE Expr(s.e, i)
        update == IF s.alt = <<>> THEN Normal(<<>>, i) ELSE Expr(s.alt[1], i)
        to(part, value, j) == Iterations(s, labels, part, value, j)
        after(c) == IF c.t = "mismatch" THEN c
                    ELSE IF LoopContinues(c, labels) THEN to(IF s.k = "for" THEN "update" ELSE "test", c.v, c.i)
                    ELSE LeaveLoop(IF s.k = "forof" THEN Close(c) ELSE c, labels)
    IN  CASE at = "test"   -> Then(test, LAMBDA c : IF Truthy(c.v[1]) THEN to("body", V, c.i) ELSE Normal(V, c.i))
          [] at = "body"   -> after(Or(Stmt(s.body[1], {}, i), V))
          [] at = "update" -> Then(update, LAMBDA c : to("test", V, c.i))

TryResult(s, i) ==
    LET caught(b) == IF b.t = "throw" /\ s.alt # <<>> THEN List(s.alt[1].body, b.i) ELSE b
        finally(c) == IF c.t = "mismatch" \/ s.fin = <<>> THEN c ELSE Then(List(s.fin[1].body, c.i), LAMBDA f : [c EXCEPT !.i = f.i])
    IN  Or(finally(caught(List(s.body[1].body, i))), <<undefined>>)

\* The clauses of a switch from clause n on
Clauses(s, n, i) == List(FlattenSeq([k \in 1..(Len(s.body) - n + 1) |-> s.body[n + k - 1].body]), i)

RECURSIVE Selected(_, _, _, _)
Selected(s, v, n, i) ==
    LET default == {k \in DOMAIN s.body : s.body[k].e = <<>>}
        next(j) == Selected(s, v, n + 1, j)
    IN  IF n > Len(s.body) THEN IF default = {} THEN Normal(<<>>, i) ELSE Clauses(s, CHOOSE k \in default : TRUE, i)
        ELSE IF n \in default THEN next(i)
        ELSE Then(Expr(s.body[n].e, i), LAMBDA c : IF c.v[1][2] = v[2] THEN Clauses(s, n, c.i) ELSE next(c.i))

Stmt(s, labels, i) ==
    LET inner(list, j) == Or(Stmt(list[1], {}, j), <<undefined>>)
        loop(at, j) == Iterations(s, labels, at, <<undefined>>, j)
        \* the statement after its expression, which has ended with e
        after(e) ==
            CASE s.k = "expr" -> e
              [] s.k = "throw" -> Thrown(e.v[1], e.i)
              [] s.k = "return" -> Comp("return", e.v, "", e.i)
              [] s.k = "if" -> IF Truthy(e.v[1]) THEN inner(s.body, e.i)
                               ELSE IF s.alt = <<>> THEN Normal(<<undefined>>, e.i) ELSE inner(s.alt, e.i)
              [] s.k = "with" -> inner(s.body, e.i)
              [] s.k = "switch" -> Broken(Or(Selected(s, e.v[1], 1, e.i), <<undefined>>), {""})
              [] s.k = "forin" -> loop("test", e.i)
              [] s.k = "forof" -> Then(EventResult("iterator", e.i), LAMBDA it : loop("test", it.i))
    IN  CASE s.k \in {"empty", "lets"} -> Normal(<<>>, i)
          [] s.k = "return" /\ s.e = <<>> -> Comp("return", <<undefined>>, "", i)
          [] s.k \in {"break", "continue"} -> Comp(s.k, <<>>, s.l, i)
          [] s.k = "block" -> List(s.body, i)
          [] s.k = "try" -> TryResult(s, i)
          [] s.k = "label" -> Broken(Stmt(s.body[1], labels \cup {s.l}, i), {s.l})
          [] s.k \in {"while", "for"} -> loop("test", i)
          [] s.k = "do" -> loop("body", i)
          [] OTHER -> Then(Expr(s.e, i), after)

\* The result of the script: what an embedder gets from RunProgram
Expected == List(Ast[prog].main, 0)

---------------------------------------------------------------------------
(* Properties.                                                             *)

\* When the VM halts, it has evaluated the expressions ECMAScript evaluates, in that order, called return() on the
\* iterators that are to be closed, and has ended normally or with the same exception (compiler_stmt.go, vm.go handleThrow).
Agrees == halted => \A c \in {Expected} : c.i = Len(trace) /\ vm.ex = IF c.t = "throw" THEN c.v ELSE <<>>

\* The jumps that leave a statement: <<kind, label>>
RECURSIVE Exits(_)
Exits(s) ==
    LET parts == s.body \o (IF s.k = "for" THEN <<>> ELSE s.alt) \o s.fin
        inner == UNION {Exits(parts[i]) : i \in DOMAIN parts}
    IN  CASE s.k \in {"break", "continue"} -> {<<s.k, s.l>>}
          [] s.k = "label"  -> inner \ {<<"break", s.l>>, <<"continue", s.l>>}
          [] s.k = "switch" -> inner \ {<<"break", "">>}
          [] s.k \in Loops  -> inner \ {<<"break", "">>, <<"continue", "">>}
          [] OTHER -> inner

\* A jump out of a list of statements is nested when it is in a block, label, with or switch of that list, or below the
\* statements of a finally clause.  The value at a nested jump is not the one ECMAScript prescribes (scanStatements looks
\* for branch statements in the list itself only, compileWithStatement has no clearResult).
RECURSIVE NestedJump(_)
NestedJump(s) ==
    LET parts == s.body \o (IF s.k = "for" THEN <<>> ELSE s.alt) \o s.fin
    IN  \/ s.k \in {"block", "case"} /\ \E i \in DOMAIN s.body : s.body[i].k \in {"block", "label", "with", "switch"} /\ Exits(s.body[i]) # {}
        \/ s.fin # <<>> /\ \E i \in DOMAIN s.fin[1].body : LET x == s.fin[1].body[i] IN x.k \notin {"break", "continue"} /\ Exits(x) # {}
        \/ \E i \in DOMAIN parts : NestedJump(parts[i])

\* The result of a script without nested jumps is its completion value: what the last statement that has one yields, not
\* what a loop, a switch or a try abandoned (saveResult, clearResult and the needResult arguments of compiler_stmt.go).
ResultAgrees == halted /\ vm.ex = <<>> /\ ~NestedJump(Block(0, FALSE, Ast[prog].main)) => vm.result = Or(Expected, <<undefined>>).v[1]

\* When the VM halts, nothing is left behind on its stacks: neither values nor scopes, iterators, frames of try statements
\* or call contexts (vm.go, and RunProgram, which only drops the frame of runTry).
Balanced == halted => /\ vm.stack = <<>> /\ vm.iters = <<>> /\ vm.calls = <<>> /\ vm.stash = 0
                      /\ Len(vm.tries) = 1

\* What a program evaluates, what it yields and what it leaves behind: Agrees, ResultAgrees and Balanced.
ProgramsAgree == Agrees /\ ResultAgrees /\ Balanced
=============================================================================
