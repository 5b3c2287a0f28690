------------------------------ MODULE MCParser ------------------------------
(***************************************************************************)
(* The parser against the grammar: every tree of a bounded set is parsed   *)
(* from its text, and so is every short sequence of tokens of some         *)
(* families.  A step chooses one; the properties parse what it chose.      *)
(***************************************************************************)
EXTENDS Grammar, FiniteSets, TLC

CONSTANTS
    MaxTokens,     \* length of the sequences of tokens
    Unusual        \* with trees of relational operators in a row


VARIABLE
    input      \* nothing, or a tree or tokens

---------------------------------------------------------------------------
(* Trees.                                                                  *)

A == <<"id", "a">>
B == <<"id", "b">>
One == <<"lit", "1">>
Block(list) == <<"block", list>>
P(list, rest) == <<"params", list, rest>>
F(nm, params, gen, async, body) == <<"func", nm, params, gen, async, body>>
Params1 == {P(<<>>, None), P(<<<<A, None>>>>, None), P(<<<<A, None>>, <<B, One>>>>, None), P(<<<<A, None>>>>, B),
            P(<<<<<<"arrpat", <<A, None, B>>, None>>, None>>, <<B, None>>>>, None), P(<<<<<<"objpat", <<<<"short", "a", One>>>>, B>>, None>>>>, None)}

\* An expression with the operand x in one of its places
AroundOps(x) ==
    UNION {{<<"bin", op, x, A>>, <<"bin", op, A, x>>} : op \in {"||", "??", "&&", "|", "^", "&", "===", "<", "in", "<<", "-", "*", "**"}}
        \cup {<<"unary", op, x>> : op \in {"-", "typeof"}}
        \cup {<<"cond", x, A, A>>, <<"cond", A, x, A>>, <<"cond", A, A, x>>, <<"seq", <<x, A>>>>, <<"seq", <<A, x>>>>, <<"assign", "=", A, x>>, <<"assign", "+=", A, x>>}
        \cup {<<"dot", x, "b">>, <<"index", x, A>>, <<"index", A, x>>, <<"call", x, <<A>>>>, <<"call", A, <<A, x>>>>, <<"new", x, <<A>>, TRUE>>, <<"new", x, <<>>, FALSE>>}
        \cup (IF x[1] \in Simple THEN {<<"prefix", "++", x>>, <<"postfix", "++", x>>, <<"assign", "=", x, A>>, <<"assign", "**=", x, A>>} ELSE {})
AroundRest(x) ==
    {<<"array", <<x, None, A>>, FALSE>>, <<"array", <<None, <<"spread", x>>>>, TRUE>>, <<"array", <<A, x, None>>, FALSE>>}
        \cup {<<"object", <<<<"keyed", <<"computed", x>>, "value", A>>, <<"spread", x>>>>>>, <<"object", <<<<"short", "get", None>>, <<"keyed", <<"name", "async">>, "value", x>>>>>>}
        \cup {<<"object", <<<<"keyed", <<"name", "set">>, kd, F(None, p, FALSE, FALSE, Block(<<<<"return", x>>>>))>>>>>> : kd \in {"set"}, p \in {P(<<<<A, x>>>>, None)}}
        \cup {<<"object", <<<<"keyed", <<"name", "if">>, "get", F(None, P(<<>>, None), FALSE, FALSE, Block(<<<<"return", x>>>>))>>,
                            <<"keyed", <<"name", "a">>, "method", F(None, P(<<<<A, x>>>>, None), gen, FALSE, Block(<<>>))>>>>>> : gen \in BOOLEAN}
        \cup {<<"template", None, <<x>>>>, <<"template", x, <<A>>>>, <<"call", <<"super">>, <<<<"spread", x>>>>>>, <<"dot", <<"super">>, "a">>}
        \cup {<<"chain", <<"dot", <<"opt", x>>, "a">>>>, <<"chain", <<"call", <<"dot", <<"index", <<"opt", x>>, A>>, "b">>, <<x>>>>>>,
              <<"chain", <<"call", <<"opt", <<"dot", <<"opt", A>>, "a">>>>, <<x>>>>>>}
        \cup {<<"arrow", FALSE, p, x>> : p \in Params1} \cup {<<"arrow", TRUE, P(<<<<A, None>>>>, None), x>>, <<"arrow", FALSE, P(<<<<A, x>>>>, None), Block(<<<<"return", x>>>>)>>}
        \cup {<<"assign", "=", <<"arrpat", <<A, None, <<"assign", "=", B, x>>>>, <<"dot", A, "b">>>>, A>>,
              <<"assign", "=", <<"objpat", <<<<"short", "a", x>>, <<"keyed", <<"name", "b">>, "value", <<"assign", "=", <<"arrpat", <<A>>, None>>, x>>>>>>, B>>, A>>}
        \cup {F(nm, P(<<<<A, x>>>>, B), FALSE, async, Block(<<<<"return", x>>>>)) : nm \in {None, B}, async \in BOOLEAN}
        \cup {<<"class", None, IF Level(x) >= LeftL THEN x ELSE None, <<<<"method", TRUE, <<"name", "constructor">>, "method", F(None, P(<<>>, None), FALSE, FALSE, Block(<<>>))>>,
                <<"field", FALSE, <<"name", "b">>, x>>, <<"field", TRUE, <<"computed", x>>, None>>, <<"static", Block(<<<<"expr", A>>>>)>>>>>>}
Around(x) == AroundOps(x) \cup AroundRest(x)

Rel == Binary[7]
\* The parser takes these operators from the right.
Usual(n) == Unusual \/ ~(n[1] = "bin" /\ n[2] \in Rel /\ n[3][1] = "bin" /\ n[3][2] \in Rel)

E1 == Around(A) \cup {One, <<"lit", "this">>, <<"lit", "new.target">>, <<"regexp">>}
InFunction(gen, async, list) == <<<<"fdecl", F(A, P(<<>>, None), gen, async, Block(list))>>>>

\* Statements
Leaf1 == {<<"empty">>, <<"expr", A>>, <<"expr", <<"postfix", "++", A>>>>, <<"expr", <<"prefix", "--", A>>>>, <<"expr", <<"call", A, <<>>>>>>, <<"expr", <<"array", <<>>, FALSE>>>>,
          <<"var", <<<<A, None>>>>>>, <<"var", <<<<A, One>>, <<<<"objpat", <<<<"short", "b", None>>>>, None>>, A>>>>>>, <<"break", "">>, <<"break", "b">>, <<"continue", "">>, <<"continue", "b">>,
          <<"return", None>>, <<"return", A>>, <<"throw", A>>, <<"debugger">>, <<"expr", <<"bin", "in", A, B>>>>}
Decls == {<<"let", <<<<A, None>>>>>>, <<"const", <<<<A, One>>>>>>, <<"fdecl", F(A, P(<<>>, None), FALSE, FALSE, Block(<<>>))>>, <<"cdecl", <<"class", A, None, <<>>>>>>}
OpenIf(st) == st[1] = "if" /\ st[4] = None
RECURSIVE EndsOpen(_)
EndsOpen(st) ==
    CASE st[1] = "if" -> st[4] = None \/ EndsOpen(st[4])
      [] st[1] \in {"while", "with", "label"} -> EndsOpen(st[3])
      [] st[1] = "for" -> EndsOpen(st[5])
      [] st[1] \in {"forin", "forof"} -> EndsOpen(st[4])
      [] OTHER -> FALSE
Heads == {None, <<"expr", <<"bin", "in", A, B>>>>, <<"expr", <<"cond", A, <<"bin", "in", A, B>>, B>>>>, <<"var", <<<<A, <<"call", A, <<<<"bin", "in", A, B>>>>>>>>, <<B, None>>>>>>, <<"let", <<<<A, One>>>>>>}
Intos == {<<"expr", A>>, <<"expr", <<"dot", A, "b">>>>, <<"expr", <<"arrpat", <<A, <<"assign", "=", B, One>>>>, None>>>>, <<"var", <<A, None>>>>, <<"let", <<<<"objpat", <<<<"short", "a", None>>>>, None>>, None>>>>, <<"const", <<A, None>>>>}
AroundS(st) ==
    {Block(<<st, <<"expr", A>>>>), <<"if", A, st, None>>, <<"if", A, <<"empty">>, st>>, <<"do", st, A>>, <<"while", A, st>>, <<"with", A, st>>, <<"label", "a", st>>}
        \cup (IF EndsOpen(st) THEN {} ELSE {<<"if", A, st, <<"expr", A>>>>})
        \cup {<<"for", h, A, None, st>> : h \in Heads} \cup {<<"for", None, None, A, st>>}
        \cup {<<k, i, IF k = "forin" THEN <<"seq", <<A, B>>>> ELSE A, st>> : k \in {"forin", "forof"}, i \in Intos}
        \cup {<<"switch", A, <<<<A, <<st, <<"break", "">>>>>>, <<None, <<st>>>>>>>>, <<"try", Block(<<st>>), <<A, Block(<<>>)>>, None>>, <<"try", Block(<<>>), <<None, Block(<<st>>)>>, Block(<<st>>)>>}
AroundD(st) == {Block(<<st, <<"expr", A>>>>), <<"switch", A, <<<<None, <<st>>>>>>>>, <<"try", Block(<<st>>), None, Block(<<>>)>>}
InLoop(list) == InFunction(FALSE, FALSE, <<<<"label", "b", <<"while", One, Block(list)>>>>>>)

Yields == {<<"yield", FALSE, None>>, <<"yield", FALSE, A>>, <<"yield", TRUE, A>>, <<"await", A>>}

---------------------------------------------------------------------------
(* Tokens.                                                                 *)

Tok(t) == [t |-> t, nl |-> FALSE]
Nl(t) == [t |-> t, nl |-> TRUE]
Toks(words) == [i \in DOMAIN words |-> Tok(words[i])]
\* What stands before the tokens, the tokens, the ones with a line break before them, and what stands after
Family(pre, words, breaks, post) == [pre |-> Toks(pre), toks |-> {Tok(w) : w \in words} \cup {Nl(w) : w \in breaks}, post |-> Toks(post)]
Families ==
    {Family(<<>>, {"a", "(", ")", "-", "**", "&&", "??", "||"}, {}, <<>>),
     Family(<<"(", "a", ")">>, {"a", "-", "**", "&&", "||"}, {}, <<>>),
     Family(<<"a">>, {"new", "a", "(", ")", ".", "?.", "["}, {"++"}, <<"]", ";">>),
     Family(<<"(">>, {"a", ")", ",", "=", "=>", "...", "[", "]", "{", "}"}, {}, <<"=>", "a">>),
     Family(<<>>, {"a", "=", "++", "(", ")", ";", "return", "async", "=>"}, {"a", "++", "(", "=>"}, <<>>),
     Family(<<"function", "*", "a", "(", ")", "{">>, {"yield", "*", "a", ",", "=>", "("}, {"a"}, <<"}">>),
     Family(<<"for", "(">>, {"let", "var", "a", "in", "of", ";", "=", "["}, {}, <<")", ";">>),
     Family(<<"if", "(", "a", ")">>, {"a", ";", "else", "{", "}", "let", "function", ":"}, {"a"}, <<>>),
     Family(<<"a", ":", "do">>, {"while", "(", "a", ")", "break", ";", "continue"}, {"a"}, <<>>),
     Family(<<"switch", "(", "a", ")", "{">>, {"case", "a", ":", "default", ";", "break", "}"}, {"a"}, <<"}">>),
     Family(<<"try", "{", "}">>, {"catch", "(", "a", ")", "{", "}", "finally", "["}, {}, <<"{", "}">>),
     Family(<<"{">>, {"var", "let", "a", ",", "=", "1"}, {"a", "let"}, <<"}">>),
     Family(<<"(", "{">>, {"get", "a", ":", ",", "(", ")", "{", "async", "*", "}"}, {}, <<"}", ")">>),
     Family(<<"class", "a", "{">>, {"static", "get", "a", "(", ")", "{", "}", "=", ";", "*"}, {"a"}, <<"}">>)}

---------------------------------------------------------------------------

Init == input = <<>>

Tree(tree, breaks) == input' = [tree |-> tree, breaks |-> breaks, toks |-> <<>>]
Either(tree) == \E breaks \in BOOLEAN : Tree(tree, breaks)

ChooseExpression ==
    /\ input = <<>>
    /\ \/ \E x \in E1 : \E y \in {x} \cup Around(x) : Usual(y) /\ Either(InFunction(FALSE, FALSE, <<<<"return", y>>, <<"expr", y>>>>))
       \/ \E x \in AroundOps(A) \cup {<<"dot", A, "if">>} : \E y \in {u \in AroundOps(x) : Usual(u)} : \E z \in {u \in AroundOps(y) : Usual(u)} : Tree(<<<<"expr", z>>>>, FALSE)
       \/ \E x \in Yields : \E y \in {x} \cup AroundOps(x) : Either(InFunction(TRUE, TRUE, <<<<"expr", y>>, <<"expr", <<"yield", FALSE, None>>>>>>))

ChooseStatement ==
    /\ input = <<>>
    /\ \E after \in {<<"expr", A>>, <<"expr", <<"prefix", "--", A>>>>, <<"expr", <<"array", <<>>, FALSE>>>>} :
         \/ \E st \in Leaf1 \cup Decls : Either(InLoop(<<st, after>>))
         \/ \E x \in Leaf1 : \E st \in AroundS(x) : Either(InLoop(<<st, after>>))
         \/ \E x \in Decls : \E st \in AroundD(x) : Either(InLoop(<<st, after>>))
         \/ \E x \in {<<"expr", A>>, <<"break", "b">>, <<"empty">>} : \E y \in AroundS(x) : \E st \in AroundS(y) : ~(y[1] = "label" /\ st[1] = "label") /\ Either(InLoop(<<st, after>>))

ChooseTokens ==
    /\ input = <<>>
    /\ \E f \in Families, k \in 1..MaxTokens : \E toks \in [1..k -> f.toks] :
         input' = [tree |-> None, breaks |-> FALSE, toks |-> f.pre \o toks \o f.post]

Next == ChooseExpression \/ ChooseStatement \/ ChooseTokens
Spec == Init /\ [][Next]_input

---------------------------------------------------------------------------
(* Properties.                                                             *)

\* Every tree of the grammar is what the parser makes of its text, with semicolons and with line breaks
TreesParsed ==
    [][\A i \in {input'} \ {<<>>} : i.tree # None =>
          \A r \in {parseProgram(Render(Stmts(i.tree), i.breaks, FALSE))} : r.errs = 0 /\ r.n = i.tree]_input

\* Tokens the parser accepts are a text of the tree it returns, and the scope is as it was at the start
TextsMatched ==
    [][\A i \in {input'} \ {<<>>} : i.tree = None =>
          \A r \in {parseProgram(i.toks)} : r.errs = 0 => Matches(r.n, i.toks) /\ [r.sc EXCEPT !.let = FALSE] = Scope]_input

=============================================================================
