------------------------------ MODULE Grammar ------------------------------
(***************************************************************************)
(* What ECMAScript says about the text of a syntax tree.  Text(n) is the   *)
(* shortest text that has the tree n, with parentheses only where the      *)
(* grammar asks for them; its statements end in marks that say how the end *)
(* may be left out.  Matches compares such a text with tokens.             *)
(***************************************************************************)
EXTENDS Parser

---------------------------------------------------------------------------
(* The level of an operator, and of the operands it takes.                 *)

Binary == <<{"||", "??"}, {"&&"}, {"|"}, {"^"}, {"&"}, {"==", "!=", "===", "!=="},
            {"<", "<=", ">", ">=", "instanceof", "in"}, {"<<", ">>", ">>>"}, {"+", "-"}, {"*", "/", "%"}, {"**"}>>
OpLevel(op) == 2 + CHOOSE l \in DOMAIN Binary : op \in Binary[l]
AssignL == 1
OrL == 3
BitOrL == 5
UnaryL == 14
UpdateL == 15
LeftL == 16
CallL == 17
MemberL == 18
PrimaryL == 19

RECURSIVE Level(_)
Level(n) ==
    LET k == n[1] IN
    CASE k = "seq" -> 0
      [] k \in {"assign", "arrow", "yield"} -> AssignL
      [] k = "cond" -> 2
      [] k = "bin" -> OpLevel(n[2])
      [] k \in {"unary", "await"} -> UnaryL
      [] k \in {"prefix", "postfix"} -> UpdateL
      [] k = "chain" -> LeftL
      [] k = "new" -> IF n[4] THEN MemberL ELSE LeftL
      [] k \in {"call", "opt"} -> CallL
      [] k \in {"dot", "index"} \/ (k = "template" /\ n[2] # None) -> IF Level(n[2]) = CallL THEN CallL ELSE MemberL
      [] OTHER -> PrimaryL

---------------------------------------------------------------------------
(* The text.                                                               *)

RECURSIVE Raw(_, _), Text(_, _, _), Stmt(_), Stmts(_), Props(_)

\* The operand n of an operator that takes operands of level l; noin where the operator in is not allowed
Text(n, l, noin) ==
    LET hidden == noin /\ n[1] = "bin" /\ n[2] = "in"
    IN IF Level(n) >= l /\ ~hidden THEN Raw(n, noin) ELSE <<"(">> \o Raw(n, FALSE) \o <<")">>
Full(n, l) == Text(n, l, FALSE)

RECURSIVE Flat(_, _)
Flat(texts, sep) == IF Len(texts) < 2 THEN FlattenSeq(texts) ELSE Head(texts) \o sep \o Flat(Tail(texts), sep)
\* Concatenations; the texts are put in a tuple first, where they are evaluated once
Joined(texts) == Flat(<<>> \o texts, <<",">>)
Concat(texts) == Flat(<<>> \o texts, <<>>)
Optional(word, n, l) == IF n = None THEN <<>> ELSE word \o Full(n, l)
Elem(n) == IF n[1] = "spread" THEN <<"...">> \o Full(n[2], AssignL) ELSE Full(n, AssignL)
Args(list) == <<"(">> \o Joined([i \in DOMAIN list |-> Elem(list[i])]) \o <<")">>
Bindings(list, noin) ==
    Joined([i \in DOMAIN list |-> Full(list[i][1], PrimaryL) \o (IF list[i][2] = None THEN <<>> ELSE <<"=">> \o Text(list[i][2], AssignL, noin))])
Parts(texts, rest) == Joined(texts \o (IF rest = None THEN <<>> ELSE <<<<"...">> \o Full(rest, LeftL)>>))
Parameters(p) == <<"(">> \o Parts([i \in DOMAIN p[2] |-> Bindings(<<p[2][i]>>, FALSE)], p[3]) \o <<")">>
Bare(p) == Len(p[2]) = 1 /\ p[3] = None /\ p[2][1][1][1] = "id" /\ p[2][1][2] = None

KeyText(key) == IF key[1] = "computed" THEN <<"[">> \o Full(key[2], AssignL) \o <<"]">> ELSE <<key[2]>>
\* f is a function without its name; what it is called stands before its parameters
Method(key, kind, f) ==
    (CASE kind \in {"get", "set"} -> <<kind>> [] f[5] -> <<"kasync">> [] f[4] -> <<"*">> [] OTHER -> <<>>)
        \o KeyText(key) \o Parameters(f[3]) \o Stmt(f[6])
Prop(p) ==
    CASE p[1] = "spread" -> Elem(p)
      [] p[1] = "short" -> <<p[2]>> \o Optional(<<"=">>, p[3], AssignL)
      [] p[1] = "keyed" -> IF p[3] = "value" THEN KeyText(p[2]) \o <<":">> \o Full(p[4], AssignL) ELSE Method(p[2], p[3], p[4])
Props(list) == [i \in DOMAIN list |-> Prop(list[i])]

\* A hole is a comma of its own.
RECURSIVE Elems(_)
Elems(list) ==
    CASE list = <<>> -> <<>>
      [] list # <<>> /\ list[1] = None -> <<",">> \o Elems(Tail(list))
      [] OTHER -> Elem(list[1]) \o (IF Len(list) > 1 THEN <<",">> ELSE <<>>) \o Elems(Tail(list))

Member(m) ==
    LET st(b) == IF b THEN <<"static">> ELSE <<>> IN
    CASE m[1] = "static" -> <<"static">> \o Stmt(m[2])
      [] m[1] = "method" -> st(m[2]) \o Method(m[3], m[4], m[5])
      [] m[1] = "field" -> st(m[2]) \o KeyText(m[3]) \o Optional(<<"=">>, m[4], AssignL) \o <<";?">>

Raw(n, noin) ==
    LET k == n[1]
        Left == IF n[2][1] = "opt" THEN Full(n[2][2], CallL) \o <<"?.">> ELSE Full(n[2], CallL)
    IN CASE n = <<"lit", "new.target">> -> <<"new", ".", "target">>
         [] k \in {"id", "lit"} -> <<n[2]>>
         [] k = "regexp" -> <<"/", "re/">>
         [] k \in {"super", "private"} -> <<IF k = "super" THEN k ELSE "#a">>
         [] k = "array" -> <<"[">> \o Elems(n[2]) \o (IF n[3] THEN <<",">> ELSE <<>>) \o <<"]">>
         [] k = "arrpat" -> <<"[">> \o Elems(IF n[3] = None THEN n[2] ELSE Append(n[2], <<"spread", n[3]>>)) \o <<"]">>
         [] k = "object" -> <<"{">> \o Joined(Props(n[2])) \o <<"}">>
         [] k = "objpat" -> <<"{">> \o Parts(Props(n[2]), n[3]) \o <<"}">>
         [] k = "template" ->
              (IF n[2] = None THEN <<>> ELSE Full(n[2], CallL)) \o <<"bt">>
                  \o Concat([i \in DOMAIN n[3] |-> <<"mid">> \o Full(n[3][i], 0) \o <<"}">>]) \o <<"end">>
         [] k = "func" ->
              (IF n[5] THEN <<"kasync">> ELSE <<>>) \o <<"function">> \o (IF n[4] THEN <<"*">> ELSE <<>>)
                  \o (IF n[2] = None THEN <<>> ELSE <<n[2][2]>>) \o Parameters(n[3]) \o Stmt(n[6])
         [] k = "class" ->
              <<"class">> \o (IF n[2] = None THEN <<>> ELSE <<n[2][2]>>) \o Optional(<<"extends">>, n[3], LeftL)
                  \o <<"{">> \o Concat([i \in DOMAIN n[4] |-> Member(n[4][i])]) \o <<"}">>
         [] k = "dot" -> IF n[2][1] = "opt" THEN Left \o <<n[3]>> ELSE Left \o <<".", n[3]>>
         [] k = "index" -> Left \o <<"[">> \o Full(n[3], 0) \o <<"]">>
         [] k = "call" -> Left \o Args(n[3])
         [] k = "new" ->
              <<"new">> \o (IF n[2][1] = "new" /\ ~n[2][4] /\ ~n[4] THEN Raw(n[2], FALSE) ELSE Full(n[2], MemberL)) \o (IF n[4] THEN Args(n[3]) ELSE <<>>)
         [] k = "chain" -> Raw(n[2], FALSE)
         [] k = "prefix" -> <<n[2]>> \o Text(n[3], UnaryL, noin)
         [] k = "postfix" -> Text(n[3], LeftL, noin) \o <<IF n[2] = "++" THEN "p++" ELSE "p--">>
         [] k = "unary" -> <<n[2]>> \o Text(n[3], UnaryL, noin)
         [] k = "await" -> <<"await">> \o Text(n[2], UnaryL, noin)
         [] k = "yield" -> <<"yield">> \o (IF n[2] THEN <<"*">> ELSE <<>>) \o (IF n[3] = None THEN <<>> ELSE Text(n[3], AssignL, noin))
         [] k = "bin" ->
              LET l == OpLevel(n[2])
                  same == n[3][1] = "bin" /\ n[3][2] = n[2]
                  left == CASE n[2] = "**" -> UpdateL [] n[2] \in {"||", "??"} -> (IF same THEN OrL ELSE IF n[2] = "??" THEN BitOrL ELSE OrL + 1) [] OTHER -> l
                  right == CASE n[2] = "**" -> l [] n[2] = "??" -> BitOrL [] OTHER -> l + 1
              IN Text(n[3], left, noin) \o <<n[2]>> \o Text(n[4], right, noin)
         [] k = "cond" -> Text(n[2], OrL, noin) \o <<"?">> \o Full(n[3], AssignL) \o <<":">> \o Text(n[4], AssignL, noin)
         [] k = "assign" -> Text(n[3], LeftL, noin) \o <<n[2]>> \o Text(n[4], AssignL, noin)
         [] k = "arrow" ->
              LET body == IF n[4][1] = "block" THEN Stmt(n[4]) ELSE Text(n[4], AssignL, noin)
                  hide == n[4][1] # "block" /\ body[1] = "{"
              IN (IF n[2] THEN <<"kasync">> ELSE <<>>) \o (IF Bare(n[3]) THEN <<n[3][2][1][1][2]>> ELSE Parameters(n[3])) \o <<"=>">>
                     \o (IF hide THEN <<"(h">> \o body \o <<")h">> ELSE body)
         [] k = "seq" -> Joined([i \in DOMAIN n[2] |-> Text(n[2][i], AssignL, noin)])

\* ";?" may be left out before a line break, a brace or the end; ";r" where the line break ends the
\* statement whatever follows; ";d" always.  "(h" and ")h" hide what a statement may not begin with, and
\* the second may come earlier.
End == <<";?">>
ForHead(init) ==
    CASE init = None -> <<>>
      [] init[1] = "expr" -> Text(init[2], 0, TRUE)
      [] OTHER -> <<init[1]>> \o Bindings(init[2], TRUE)
Stmt(n) ==
    LET k == n[1]
        Head1(word, e) == <<word, "(">> \o Full(e, 0) \o <<")">>
        e0 == Full(n[2], 0)
        hide == e0[1] \in {"{", "function", "class"} \/ (Len(e0) > 1 /\ e0[1] = "let" /\ e0[2] = "[") \/ (Len(e0) > 1 /\ e0[1] = "kasync" /\ e0[2] = "function")
    IN CASE k = "empty" -> <<";">>
         [] k = "expr" -> (IF hide THEN <<"(h">> \o e0 \o <<")h">> ELSE e0) \o End
         [] k = "block" -> <<"{">> \o Stmts(n[2]) \o <<"}">>
         [] k \in {"var", "let", "const"} -> <<k>> \o Bindings(n[2], FALSE) \o End
         [] k \in {"fdecl", "cdecl"} -> Raw(n[2], FALSE)
         [] k = "if" -> Head1("if", n[2]) \o Stmt(n[3]) \o (IF n[4] = None THEN <<>> ELSE <<"else">> \o Stmt(n[4]))
         [] k = "do" -> <<"do">> \o Stmt(n[2]) \o Head1("while", n[3]) \o <<";d">>
         [] k \in {"while", "with"} -> Head1(k, n[2]) \o Stmt(n[3])
         [] k = "for" -> <<"for", "(">> \o ForHead(n[2]) \o <<";">> \o Optional(<<>>, n[3], 0) \o <<";">> \o Optional(<<>>, n[4], 0) \o <<")">> \o Stmt(n[5])
         [] k \in {"forin", "forof"} ->
              LET into == IF n[2][1] = "expr" THEN Full(n[2][2], LeftL) ELSE <<n[2][1]>> \o Bindings(<<n[2][2]>>, TRUE)
              IN <<"for", "(">> \o into \o (IF k = "forin" THEN <<"in">> \o Full(n[3], 0) ELSE <<"of">> \o Full(n[3], AssignL)) \o <<")">> \o Stmt(n[4])
         [] k \in {"break", "continue"} -> IF n[2] = "" THEN <<k, ";r">> ELSE <<k, n[2]>> \o End
         [] k = "return" -> IF n[2] = None THEN <<k, ";r">> ELSE <<k>> \o e0 \o End
         [] k = "throw" -> <<k>> \o e0 \o End
         [] k = "debugger" -> <<k>> \o End
         [] k = "label" -> <<n[2], ":">> \o Stmt(n[3])
         [] k = "switch" ->
              Head1("switch", n[2]) \o <<"{">>
                  \o Concat([i \in DOMAIN n[3] |-> (IF n[3][i][1] = None THEN <<"default">> ELSE <<"case">> \o Full(n[3][i][1], 0)) \o <<":">> \o Stmts(n[3][i][2])]) \o <<"}">>
         [] k = "try" ->
              <<"try">> \o Stmt(n[2])
                  \o (IF n[3] = None THEN <<>>
                      ELSE <<"catch">> \o (IF n[3][1] = None THEN <<>> ELSE <<"(">> \o Full(n[3][1], PrimaryL) \o <<")">>) \o Stmt(n[3][2]))
                  \o (IF n[4] = None THEN <<>> ELSE <<"finally">> \o Stmt(n[4]))
Stmts(list) == Concat([i \in DOMAIN list |-> Stmt(list[i])])

---------------------------------------------------------------------------
(* Texts and tokens.                                                       *)

\* A line break before one of these does not end the statement before it.
Continues == UNION {Binary[l] : l \in DOMAIN Binary} \cup {"(", "[", "bt", ".", "?.", "?", ",", "=", "+=", ":", "=>", ")", "]", ";"}
NoBreakAfter == {"return", "throw", "break", "continue", "yield", "kasync"}

\* The token a word of a text stands for
Plain(c) == CASE c \in {";?", ";r", ";d"} -> ";" [] c = "p++" -> "++" [] c = "p--" -> "--" [] c = "kasync" -> "async"
      [] c = "(h" -> "(" [] c = ")h" -> ")" [] OTHER -> c

\* Where the mark may be left out before the token at j
LeftOut(mark, toks, j) ==
    \/ j > Len(toks)
    \/ toks[j].t = "}"
    \/ mark = ";d"
    \/ mark = ";r" /\ toks[j].nl
    \/ mark = ";?" /\ toks[j].nl /\ toks[j].t \notin Continues

\* The text from i on is the tokens from j on, up to extra pairs of parentheses (o of them open) and commas
\* at the end of a list
RECURSIVE MatchFrom(_, _, _, _, _)
MatchFrom(text, toks, i, j, o) ==
    LET c == text[i]
        t == toks[j].t
        glued == c \in {"p++", "p--", "=>"} \/ (i > 1 /\ text[i - 1] \in NoBreakAfter /\ c \notin {";?", ";r"})
    IN IF i > Len(text) /\ j > Len(toks) THEN o = 0
       ELSE \/ i <= Len(text) /\ j <= Len(toks) /\ Plain(c) = t /\ c # ")h" /\ (glued => ~toks[j].nl) /\ MatchFrom(text, toks, i + 1, j + 1, IF c = "(h" THEN o + 1 ELSE o)
            \/ i <= Len(text) /\ c = ")h" /\ MatchFrom(text, toks, i + 1, j, o)
            \/ i <= Len(text) /\ c \in {";?", ";r", ";d"} /\ LeftOut(c, toks, j) /\ MatchFrom(text, toks, i + 1, j, o)
            \/ j <= Len(toks) /\ t = "(" /\ MatchFrom(text, toks, i, j + 1, o + 1)
            \/ j <= Len(toks) /\ t = ")" /\ o > 0 /\ MatchFrom(text, toks, i, j + 1, o - 1)
            \/ j < Len(toks) /\ t = "," /\ toks[j + 1].t \in {")", "}", "]"} /\ MatchFrom(text, toks, i, j + 1, o)
            \/ j <= Len(toks) /\ t = ";" /\ i > 1 /\ text[i - 1] \in {"{", "}", ";?"} /\ MatchFrom(text, toks, i, j + 1, o)
Matches(tree, toks) == MatchFrom(Stmts(tree), toks, 1, 1, 0)

\* The text as tokens, its statements ended by semicolons, or by line breaks where these are enough
RECURSIVE Render(_, _, _)
Render(text, breaks, nl) ==
    IF text = <<>> THEN <<>>
    ELSE LET c == Head(text)
             mark == c \in {";?", ";r", ";d"}
             ends == Len(text) = 1 \/ text[2] = "}" \/ c \in {";r", ";d"} \/ Plain(text[2]) \notin Continues
         IN IF mark /\ breaks /\ ends THEN Render(Tail(text), breaks, TRUE)
            ELSE <<[t |-> Plain(c), nl |-> nl]>> \o Render(Tail(text), breaks, FALSE)

=============================================================================
