---------------------------- MODULE MCStatements ----------------------------
(* Programs that nest up to three statements around a leaf.                *)
EXTENDS StatementSemantics

E(id) == ExprStmt(Event(id))

\* The innermost statement
Leaf(n) ==
    CASE n = "expr" -> E("a")
      [] n = "break" -> Break("")
      [] n = "continue" -> Continue("")
      [] n = "breakL" -> Break("L")
      [] n = "continueL" -> Continue("L")
      [] n = "return" -> Return(Event("r"))
      [] n = "throw" -> Throw(Event("t"))
      [] n = "maybe" -> If(Event("c"), Break(""), <<>>)
      [] n = "call" -> ExprStmt(<<"fn">>)

\* A statement around a statement
Around(n, s) ==
    LET b == Block(0, FALSE, <<s>>)
        d == Block(0, FALSE, <<E("d")>>)
    IN  CASE n = "let" -> Block(1, FALSE, <<Lets, s>>)
          [] n = "seq" -> Block(1, TRUE, <<E("p"), s, E("q")>>)
          [] n = "if" -> If(Event("i"), s, <<E("e")>>)
          [] n = "while" -> While(Event("w"), s)
          [] n = "do" -> DoWhile(Block(0, FALSE, <<E("x"), s>>), Event("w"))
          [] n = "for" -> For(1, TRUE, Event("w"), <<Event("u")>>, s)
          [] n = "forever" -> For(1, FALSE, <<>>, <<Event("u")>>, s)
          [] n = "forof" -> ForOf("o", 1, FALSE, s)
          [] n = "forin" -> ForIn("o", 1, TRUE, s)
          [] n = "try" -> Try(b, 1, FALSE, <<d>>, <<>>)
          [] n = "catch" -> Try(Block(0, FALSE, <<E("y")>>), 1, TRUE, <<b>>, <<>>)
          [] n = "tryfin" -> Try(b, 0, FALSE, <<>>, <<d>>)
          [] n = "fin" -> Try(Block(0, FALSE, <<E("y")>>), 0, FALSE, <<>>, <<b>>)
          [] n = "trycatchfin" -> Try(b, 0, FALSE, <<d>>, <<Block(0, FALSE, <<ExprStmt(Quiet("f"))>>)>>)
          [] n = "throwingfin" -> Try(b, 0, FALSE, <<d>>, <<Block(0, FALSE, <<E("f")>>)>>)
          [] n = "switch" -> Switch(Event("s"), 1, <<Case(Const("t"), <<s>>), Case(<<>>, <<E("z")>>)>>)
          [] n = "switch0" -> Switch(Event("s"), 0, <<Case(<<>>, <<E("z")>>), Case(Event("v"), <<s>>)>>)
          [] n = "with" -> With(Event("h"), s)
          [] n = "labelM" -> Labelled("M", s)
          [] n = "dead" -> If(Const("f"), s, <<>>)
          [] n = "live" -> If(Const("t"), s, <<E("e")>>)

All == {"let", "seq", "if", "while", "do", "for", "forever", "forof", "forin", "try", "catch", "tryfin", "fin", "trycatchfin",
         "switch", "switch0", "with", "labelM", "live"}
Leaves == {"expr", "break", "continue", "breakL", "continueL", "return", "throw", "call"}
LoopNames == {"while", "do", "for", "forever", "forof", "forin"}

\* A program is legal when its branch statements have targets.  The label goes around everything.
Legal(p) ==
    LET around == {p[k] : k \in 1..(Len(p) - 1)}
        leaf == p[Len(p)]
    IN  CASE leaf = "break" -> around \cap (LoopNames \cup {"switch", "switch0"}) # {}
          [] leaf = "continue" -> around \cap LoopNames # {}
          [] leaf = "continueL" -> p[1] \in LoopNames
          [] leaf = "maybe" -> around \cap LoopNames # {}
          [] OTHER -> TRUE

RECURSIVE Tree(_)
Tree(p) == IF Len(p) = 1 THEN Leaf(p[1]) ELSE Around(p[1], Tree(Tail(p)))

\* A script cannot return: such programs are the body of the function that the script calls.  A label L around everything.
AstOf(p) ==
    LET body == <<E("a"), Labelled("L", Tree(p)), E("b")>>
        last == <<E("a"), Labelled("L", Tree(p))>>
    IN  IF p[Len(p)] = "return" THEN [main |-> <<ExprStmt(<<"fn">>)>>, fn |-> body]
        ELSE [main |-> last, fn |-> <<Throw(Event("t"))>>]

Deep == {"tryfin", "fin", "try", "forof", "seq"}
MCPrograms == {p \in (All \X All \X Leaves) \cup (Deep \X Deep \X Deep \X Leaves) : Legal(p)}
MCAst == [p \in MCPrograms |-> AstOf(p)]

\* Programs on which the code and ECMAScript differ: a finally clause that throws after the try block has ended normally,
\* and a branch statement in code that is never run
FinallyPrograms == {<<"throwingfin", "seq", "expr">>}
DeadPrograms == {p \in {"while", "tryfin", "seq"} \X {"let", "switch", "try"} \X {"dead"} \X {"breakL", "break"} : Legal(p)}
=============================================================================
