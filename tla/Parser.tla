------------------------------- MODULE Parser -------------------------------
(***************************************************************************)
(* The recursive descent parser of package parser, on tokens.  A token is  *)
(* its text and whether a line break stands before it; the text "a" stands *)
(* for an identifier, "1" for a literal.  What a parse function does to    *)
(* the parser is a function from state to state, which leaves the node it  *)
(* built in n.  A node is a tuple that begins with its kind.  Errors are   *)
(* counted; the parser goes on after one, and may take errors back.        *)
(***************************************************************************)
EXTENDS Naturals, Sequences, SequencesExt

None == <<"none">>
Bad == <<"bad">>
Names == {"a", "b", "of", "get", "set", "target", "constructor", "prototype"}

\* [token/token_const.go:86-137 Token] Words with a token of their own that are names in some places, in all places
Unreserved == {"let", "static", "async", "await", "yield"}
Reserved == {"if", "in", "do", "var", "for", "new", "try", "this", "else", "case", "void", "with", "while", "break", "catch", "throw",
             "class", "super", "const", "return", "typeof", "delete", "switch", "default", "finally", "extends", "function",
             "continue", "debugger", "instanceof"}

\* [token/token.go IsId..IsUnreservedWord]
IsId(t) == t = "IDENT" \/ t \in Reserved \cup Unreserved

\* [parser/scope.go _scope..openScope]
Scope == [in |-> TRUE, let |-> FALSE, iter |-> FALSE, sw |-> FALSE, params |-> FALSE, fn |-> FALSE, async |-> FALSE,
          await |-> FALSE, yield |-> FALSE, labels |-> <<>>]

---------------------------------------------------------------------------
(* Tokens and line breaks.                                                 *)

\* After these a line break may end a statement; after the other words the flag stays as it was.
EndsHere == Names \cup {"1", "this", "yield", "break", "throw", "return", "continue", "debugger",
                        ")", "]", "}", "++", "--", "/", "/=", "re/", "mid", "end", "#a"}

\* [parser/lexer.go scan] what the tokens do to the flags; [next] and [peek] use it
next(s) ==
    LET p == s.p + 1
        At(q) == IF q > Len(s.in) THEN [t |-> "EOF", nl |-> FALSE] ELSE s.in[q]
        t == At(p).t
        imp == s.ins /\ (At(p).nl \/ t = "EOF")
        lone == t = "async" /\ At(p + 1).nl
    IN [s EXCEPT !.p = p, !.lit = t, !.imp = imp,
                 !.tok = CASE t \in Names \/ lone -> "IDENT" [] t = "=>" /\ imp -> "ILLEGAL" [] OTHER -> t,
                 !.ins = \/ t \in EndsHere \/ lone
                         \/ t \in Reserved \cup Unreserved /\ s.ins /\ ~At(p).nl]
peek(s) == next(s).tok

\* Mutant: the errors of the attempt are kept
RestoreButErrors(s, m) == [s EXCEPT !.p = m.p, !.lit = m.lit, !.tok = m.tok, !.imp = m.imp, !.ins = m.ins]

\* [parser/lexer.go mark..restore] the scope and the place of the last recovery are not taken back
restore(s, m) == [s EXCEPT !.p = m.p, !.lit = m.lit, !.tok = m.tok, !.imp = m.imp, !.ins = m.ins, !.errs = m.errs]

\* [parser/parser.go parse]
Start(toks) == next([in |-> toks, p |-> 0, tok |-> "", lit |-> "", imp |-> FALSE, ins |-> FALSE, errs |-> 0,
                     rec |-> [p |-> 0, c |-> 0], sc |-> Scope, n |-> None])

Node(s, n) == [s EXCEPT !.n = n]
\* [parser/error.go error..errorUnexpectedToken]
Err(s) == [s EXCEPT !.errs = @ + 1]
ErrIf(s, b) == IF b THEN Err(s) ELSE s

\* [parser/parser.go expect]
expect(s, t) == next(ErrIf(s, s.tok # t))

\* [parser/parser.go optionalSemicolon]
optionalSemicolon(s) ==
    CASE s.tok = ";" -> next(s)
      [] s.imp -> [s EXCEPT !.imp = FALSE]
      [] s.tok \in {"EOF", "}"} -> s
      [] OTHER -> expect(s, ";")

\* [parser/parser.go semicolon]
semicolon(s) ==
    CASE s.tok \in {")", "}"} -> s
      [] s.imp -> [s EXCEPT !.imp = FALSE]
      [] OTHER -> expect(s, ";")

\* [parser/statement.go nextStatement]
RECURSIVE nextStatement(_)
nextStatement(s) ==
    LET sync == s.tok \in {"break", "continue", "for", "if", "return", "switch", "var", "do", "try", "with", "while", "throw", "catch", "finally"}
    IN CASE s.tok = "EOF" -> s
         [] sync /\ s.p = s.rec.p /\ s.rec.c < 10 -> [s EXCEPT !.rec.c = @ + 1]
         [] sync /\ s.p > s.rec.p -> [s EXCEPT !.rec = [p |-> s.p, c |-> 0]]
         [] OTHER -> nextStatement(next(s))
Fail(s) == Node(nextStatement(Err(s)), Bad)

\* [parser/expression.go isBindingId..tokenToBindingId]
isBindingId(s, t) == t = "IDENT" \/ (t = "await" /\ ~s.sc.await) \/ (t = "yield" /\ ~s.sc.yield) \/ t \in {"let", "static", "async"}
tokenToBindingId(s) == IF isBindingId(s, s.tok) THEN [s EXCEPT !.tok = "IDENT"] ELSE s

\* [parser/expression.go parseIdentifier]
parseIdentifier(s) == Node(next(s), <<"id", s.lit>>)

---------------------------------------------------------------------------
(* Expressions that turn out to be patterns.                               *)

Simple == {"id", "dot", "index"}
RECURSIVE asPattern(_, _), asTarget(_, _), asPatternList(_, _, _)

\* A pattern target for an assignment, or for a declaration when bind
\* [parser/expression.go reinterpretAsDestructAssignTarget..reinterpretAsDestructBindingTarget]
asTarget(s, bind) ==
    LET k == s.n[1] IN
    CASE k = "none" -> s
      [] k \in {"arrpat", "objpat"} /\ ~bind -> s
      [] k \in {"array", "object", "arrpat", "objpat"} -> asPattern(s, bind)
      [] k \in Simple /\ (bind => k = "id" /\ (s.sc.await => s.n[2] # "await")) -> s
      [] OTHER -> Node(Err(s), Bad)

\* [parser/expression.go reinterpretAsAssignmentElement..reinterpretAsBindingElement]
asElement(s, bind) ==
    IF s.n[1] # "assign" THEN asTarget(s, bind)
    ELSE IF s.n[2] # "=" THEN Node(Err(s), Bad)
    ELSE LET l == asTarget(Node(s, s.n[3]), bind) IN Node(l, <<"assign", "=", l.n, s.n[4]>>)

\* [parser/expression.go reinterpretAsBinding]
asBinding(s) ==
    LET e == asElement(s, TRUE) IN
    IF e.n[1] = "assign" THEN Node(e, <<e.n[3], e.n[4]>>) ELSE Node(e, <<e.n, None>>)

\* [parser/expression.go reinterpretAsBindingRestElement]
asRest(s) == IF s.n[1] = "id" THEN s ELSE Node(Err(s), Bad)

\* What becomes of each element of an array, each property of an object.  The elements of an array literal
\* become assignment elements even in a declaration; the ones of an array pattern lose their defaults.
\* [parser/expression.go reinterpretArrayAssignPatternAsBinding]
asPatternList(s, todo, bind) ==
    IF todo = <<>> THEN Node(s, <<>>)
    ELSE LET x == Head(todo)
             e == CASE x[1] = "keyed" -> LET v == asElement(Node(s, x[4]), bind) IN Node(v, <<"keyed", x[2], x[3], v.n>>)
                    [] x[1] = "short" -> Node(s, x)
                    [] x[1] \notin {"keyed", "short"} /\ bind -> asTarget(Node(s, x), TRUE)
                    [] OTHER -> asElement(Node(s, x), FALSE)
             r == asPatternList(e, Tail(todo), bind)
         IN Node(r, <<e.n>> \o r.n)

\* [parser/expression.go:1433-1553 reinterpretAsArrayAssignmentPattern]
asPattern(s, bind) ==
    LET k == s.n[1]
        list == s.n[2]
        spreads == {i \in DOMAIN list : list[i][1] = "spread"}
        last == Len(list) \in spreads
        rest == IF last THEN Last(list)[2] ELSE None
        ill == \E i \in DOMAIN list : list[i][1] = "keyed" /\ list[i][3] # "value"
        Pattern(e, r, kind) == Node(r, <<kind, e.n, r.n>>)
        Rest(e, x) == IF x = None \/ ~bind THEN Node(e, x) ELSE asRest(Node(e, x))
    IN CASE k = "arrpat" -> LET e == asPatternList(s, list, TRUE) IN Pattern(e, asTarget(Node(e, s.n[3]), TRUE), k)
         [] k = "objpat" -> LET e == asPatternList(s, list, TRUE) IN Pattern(e, Rest(e, s.n[3]), k)
         [] k \in {"array", "object"} /\ (spreads \ {Len(list)} # {} \/ ill) -> Node(Err(s), Bad)
         [] OTHER ->
              LET front == IF last THEN Front(list) ELSE list
                  e == asPatternList(ErrIf(s, k = "array" /\ last /\ s.n[3]), front, bind /\ k = "object")
              IN IF k = "array" THEN Pattern(e, asTarget(Node(e, rest), bind), "arrpat") ELSE Pattern(e, Rest(e, rest), "objpat")

\* [parser/expression.go reinterpretSequenceAsArrowFuncParams]
RECURSIVE asParams(_, _, _)
asParams(s, list, acc) ==
    IF list = <<>> THEN Node(s, <<"params", acc, None>>)
    ELSE LET b == asBinding(Node(s, Head(list))) IN asParams(b, Tail(list), Append(acc, b.n))

---------------------------------------------------------------------------
(* Expressions.                                                            *)

RECURSIVE parseAssignmentExpression(_), parseExpression(_), parseUnaryExpression(_), parseBinary(_, _), parseExponentiationExpression(_)
RECURSIVE parseRelationalExpression(_), parseStatement(_), parseStatementList(_), parseLeftHandSideExpression(_), parseClass(_, _)
RECURSIVE parseFunction(_, _, _), parseTemplateLiteral(_)

SpreadOr(s) ==
    IF s.tok # "..." THEN parseAssignmentExpression(s)
    ELSE LET e == parseAssignmentExpression(next(s)) IN Node(e, <<"spread", e.n>>)

\* [parser/statement.go parseBlockStatement..parseEmptyStatement]
parseBlockStatement(s) ==
    LET l == parseStatementList(expect(s, "{")) IN Node(expect(l, "}"), <<"block", l.n>>)

\* [parser/expression.go parseBindingTarget..parseVarDeclarationList] an array or object literal becomes a pattern
RECURSIVE parseArrayLiteral(_), parseObjectLiteral(_), parseVariableDeclarationList(_)
parseBindingTarget(s0) ==
    LET s == tokenToBindingId(s0) IN
    CASE s.tok = "IDENT" -> parseIdentifier(s)
      [] s.tok = "[" -> asPattern(parseArrayLiteral(s), TRUE)
      [] s.tok = "{" -> asPattern(parseObjectLiteral(s), TRUE)
      [] OTHER -> Node(nextStatement(expect(s, "IDENT")), Bad)
parseVariableDeclaration(s) ==
    LET t == parseBindingTarget(s) IN
    IF t.tok # "=" THEN Node(t, <<t.n, None>>)
    ELSE LET e == parseAssignmentExpression(next(t)) IN Node(e, <<t.n, e.n>>)
parseVariableDeclarationList(s) ==
    LET d == parseVariableDeclaration(s) IN
    IF d.tok # "," THEN Node(d, <<d.n>>)
    ELSE LET r == parseVariableDeclarationList(next(d)) IN Node(r, <<d.n>> \o r.n)

\* [parser/statement.go parseFunctionParameterList]
RECURSIVE Params(_, _)
Params(s, acc) ==
    CASE s.tok \in {")", "EOF"} -> Node(s, <<"params", acc, None>>)
      [] s.tok = "..." -> LET r == asTarget(parseAssignmentExpression(next(s)), TRUE) IN Node(r, <<"params", acc, r.n>>)
      [] OTHER -> LET d == parseVariableDeclaration(s)
                  IN Params(IF d.tok = ")" THEN d ELSE expect(d, ","), Append(acc, d.n))
parseFunctionParameterList(s) ==
    LET o == expect(s, "(")
        p == Params([o EXCEPT !.sc.params = TRUE], <<>>)
        c == expect(p, ")")
    IN [c EXCEPT !.sc = s.sc]

\* [parser/statement.go parseFunctionBlock] in a scope of its own
parseFunctionBlock(s, async, await, yield) ==
    LET b == parseBlockStatement([s EXCEPT !.sc = [Scope EXCEPT !.fn = TRUE, !.async = async, !.await = await, !.yield = yield]])
    IN [b EXCEPT !.sc = s.sc]

\* [parser/expression.go parseMethodDefinition]
parseMethodDefinition(s, kind, gen, async) ==
    LET p == parseFunctionParameterList([s EXCEPT !.sc.yield = gen, !.sc.await = async])
        arity == (kind = "get" /\ p.n # <<"params", <<>>, None>>) \/ (kind = "set" /\ (Len(p.n[2]) # 1 \/ p.n[3] # None))
        b == parseFunctionBlock(ErrIf(p, arity), async, async, gen)
    IN Node([b EXCEPT !.sc = s.sc], <<"func", None, p.n, gen, async, b.n>>)

\* [parser/statement.go parseMaybeAsyncFunction..parseFunction] a declaration is named in the outer scope
parseFunction(s, decl, async) ==
    LET f == expect(s, "function")
        gen == f.tok = "*"
        g == IF gen THEN next(f) ELSE f
        Inside(x) == [x EXCEPT !.sc.await = async, !.sc.yield = gen]
        i == tokenToBindingId(IF decl THEN g ELSE Inside(g))
        nm == CASE i.tok = "IDENT" -> parseIdentifier(i) [] i.tok # "IDENT" /\ decl -> Node(expect(i, "IDENT"), None) [] OTHER -> Node(i, None)
        p == parseFunctionParameterList(Inside(nm))
        b == parseFunctionBlock(p, async, async, gen)
    IN Node([b EXCEPT !.sc = s.sc], <<"func", nm.n, p.n, gen, async, b.n>>)

\* [parser/statement.go parseArrowFunctionBody]
parseArrowFunctionBody(s, async) ==
    IF s.tok = "{" THEN parseFunctionBlock(s, async, async, FALSE)
    ELSE LET t == IF async # s.sc.async \/ async # s.sc.await
                  THEN [s EXCEPT !.sc.async = async, !.sc.await = async, !.sc.yield = FALSE] ELSE s
             e == parseAssignmentExpression(t)
         IN [e EXCEPT !.sc = s.sc]

\* [parser/expression.go parseArrowFunction..parseSingleArgArrowFunction]
parseArrowFunction(s, params, async) ==
    LET b == parseArrowFunctionBody(expect(s, "=>"), async) IN Node(b, <<"arrow", async, params, b.n>>)
parseSingleArgArrowFunction(s, async) ==
    LET t == tokenToBindingId([s EXCEPT !.sc.await = async])
        i == parseIdentifier(t)
        r == IF t.tok # "IDENT" THEN Node(next(Err(t)), Bad)
             ELSE parseArrowFunction(i, <<"params", <<<<i.n, None>>>>, None>>, async)
    IN [r EXCEPT !.sc = s.sc]

\* The key, and the token it began with
\* [parser/expression.go parseObjectPropertyKey]
parseObjectPropertyKey(s) ==
    IF s.tok = "[" THEN LET e == parseAssignmentExpression(next(s)) IN Node(expect(e, "]"), <<"key", "ILLEGAL", "", <<"computed", e.n>>>>)
    ELSE LET k == next(s) IN
         IF IsId(s.tok) \/ s.tok \in {"1", "#a"} THEN Node(k, <<"key", s.tok, s.lit, <<"name", s.lit>>>>) ELSE Node(Err(k), None)

\* [parser/expression.go parseObjectProperty]
parseObjectProperty(s) ==
    LET gen == s.tok = "*"
        k == parseObjectPropertyKey(IF gen THEN next(s) ELSE s)
        tkn == k.n[2]
        named == k.n # None /\ tkn # "#a"
        Method(x, key, kind, g, async) == LET m == parseMethodDefinition(x, kind, g, async) IN Node(m, <<"keyed", key, kind, m.n>>)
        short == named /\ k.tok \in {",", "}", "="}
        accessor == named /\ (k.n[3] \in {"get", "set"} \/ tkn = "async") /\ k.tok # ":"
        k2 == parseObjectPropertyKey(k)
        i == parseAssignmentExpression(next(k))
        v == parseAssignmentExpression(expect(ErrIf(k, short), ":"))
    IN CASE s.tok = "..." -> SpreadOr(s)
         [] s.tok # "..." /\ k.n = None -> k
         [] named /\ gen -> Method(k, k.n[4], "method", TRUE, FALSE)
         [] named /\ ~gen /\ k.tok = "(" -> Method(k, k.n[4], "method", FALSE, FALSE)
         [] short /\ ~gen /\ isBindingId(k, tkn) /\ k.tok = "=" -> Node(i, <<"short", k.n[3], i.n>>)
         [] short /\ ~gen /\ isBindingId(k, tkn) /\ k.tok # "=" -> Node(k, <<"short", k.n[3], None>>)
         [] accessor /\ ~gen /\ ~short /\ k.tok # "(" ->
              IF k2.n = None THEN k2
              ELSE Method(k2, k2.n[4], IF tkn = "async" THEN "method" ELSE k.n[3], FALSE, tkn = "async")
         [] OTHER -> Node(v, <<"keyed", k.n[4], "value", v.n>>)

\* [parser/expression.go parseObjectLiteral]
RECURSIVE Properties(_, _)
Properties(s, acc) ==
    IF s.tok \in {"}", "EOF"} THEN Node(s, acc)
    ELSE LET p == parseObjectProperty(s)
             a == IF p.n = None THEN acc ELSE Append(acc, p.n)
         IN IF p.tok = "}" THEN Node(p, a) ELSE Properties(expect(p, ","), a)
parseObjectLiteral(s) == LET l == Properties(expect(s, "{"), <<>>) IN Node(expect(l, "}"), <<"object", l.n>>)

\* With the information if a comma follows the last element
\* [parser/expression.go parseArrayLiteral]
RECURSIVE Elements(_, _, _)
Elements(s, acc, comma) ==
    CASE s.tok \in {"]", "EOF"} -> Node(s, <<"array", acc, comma>>)
      [] s.tok = "," -> Elements(next(s), Append(acc, None), FALSE)
      [] OTHER -> LET e == SpreadOr(s) IN Elements(IF e.tok = "]" THEN e ELSE expect(e, ","), Append(acc, e.n), e.tok # "]")
parseArrayLiteral(s) == LET l == Elements(expect(s, "["), <<>>, FALSE) IN expect(l, "]")

\* A template is the token "bt", pieces that end in "mid" before an expression, and a last piece "end"
\* [parser/expression.go parseTemplateLiteral..parseTaggedTemplateLiteral]
parseTemplateLiteral(s) ==
    LET c == next(s)
        e == parseExpression(next(c))
        r == parseTemplateLiteral(ErrIf(e, e.tok # "}"))
    IN IF c.tok # "mid" THEN Node(next(ErrIf(c, c.tok # "end")), <<>>) ELSE Node(r, <<e.n>> \o r.n)
Template(s, tag) == LET t == parseTemplateLiteral(s) IN Node(t, <<"template", tag, t.n>>)

\* [parser/expression.go parseArgumentList..parseCallExpression]
RECURSIVE Arguments(_, _)
Arguments(s, acc) ==
    IF s.tok = ")" THEN Node(s, acc)
    ELSE LET e == SpreadOr(s) IN IF e.tok # "," THEN Node(e, Append(acc, e.n)) ELSE Arguments(next(e), Append(acc, e.n))
parseArgumentList(s) == expect(Arguments(expect(s, "("), <<>>), ")")
parseCallExpression(s) == LET l == parseArgumentList(s) IN Node(l, <<"call", s.n, l.n>>)

\* [parser/expression.go parseDotMember..parseBracketMember]
parseDotMember(s) ==
    LET d == next(s) IN
    IF d.tok = "#a" \/ IsId(d.tok) THEN Node(next(d), <<"dot", s.n, d.lit>>) ELSE Node(nextStatement(expect(d, "IDENT")), Bad)
parseBracketMember(s) == LET e == parseExpression(expect(s, "[")) IN Node(expect(e, "]"), <<"index", s.n, e.n>>)

\* [parser/expression.go parseSuperProperty]
parseSuperProperty(s) ==
    LET m == Node(next(s), <<"super">>) IN
    CASE m.tok = "." -> parseDotMember(m)
      [] m.tok = "[" -> parseBracketMember(m)
      [] m.tok = "(" -> parseCallExpression(m)
      [] OTHER -> Fail(m)

\* [parser/expression.go parseParenthesisedExpression]
RECURSIVE Parenthesised(_, _)
Parenthesised(s, acc) ==
    LET e == parseAssignmentExpression(IF s.tok = "..." THEN next(Err(s)) ELSE s)
        a == Append(acc, IF s.tok = "..." THEN Bad ELSE e.n)
    IN CASE e.tok # "," -> Node(e, a)
         [] e.tok = "," /\ peek(e) = ")" -> Node(Err(next(e)), a)
         [] OTHER -> Parenthesised(next(e), a)
parseParenthesisedExpression(s) ==
    LET o == expect(s, "(")
        l == IF o.tok = ")" THEN Node(o, <<>>) ELSE Parenthesised(o, <<>>)
        c == expect(l, ")")
    IN CASE Len(l.n) = 1 /\ c.errs = 0 -> Node(c, l.n[1])
         [] l.n = <<>> -> Node(Err(c), Bad)
         [] OTHER -> Node(c, <<"seq", l.n>>)

\* The rest of the line is lost when the literal does not end; its flags are a token of their own
\* [parser/expression.go parseRegExpLiteral]
RECURSIVE SkipLine(_)
SkipLine(s) == IF s.tok = "EOF" \/ s.in[s.p].nl THEN s ELSE SkipLine(next(s))
parseRegExpLiteral(s) ==
    LET r == next(s) IN Node(IF r.tok = "re/" THEN next(r) ELSE SkipLine(Err(r)), <<"regexp">>)

\* [parser/expression.go parsePrimaryExpression]
parsePrimaryExpression(s) ==
    CASE s.tok = "IDENT" -> parseIdentifier(s)
      [] s.tok \in {"1", "this"} -> Node(next(s), <<"lit", s.tok>>)
      [] s.tok \in {"/", "/="} -> parseRegExpLiteral(s)
      [] s.tok = "{" -> parseObjectLiteral(s)
      [] s.tok = "[" -> parseArrayLiteral(s)
      [] s.tok = "(" -> parseParenthesisedExpression(s)
      [] s.tok = "bt" -> Template(s, None)
      [] s.tok = "super" -> parseSuperProperty(s)
      [] s.tok = "async" /\ peek(s) = "function" -> parseFunction(next(s), FALSE, TRUE)
      [] s.tok = "function" -> parseFunction(s, FALSE, FALSE)
      [] s.tok = "class" -> parseClass(s, FALSE)
      [] OTHER -> IF isBindingId(s, s.tok) THEN parseIdentifier(s) ELSE Fail(s)

\* [parser/expression.go parseNewExpression]
parseNewExpression(s) ==
    LET n == expect(s, "new")
        d == next(n)
        c == parseLeftHandSideExpression(IF n.tok = "." THEN Err(d) ELSE n)
        a == parseArgumentList(c)
    IN CASE n.tok = "." /\ d.lit = "target" -> Node(next(d), <<"lit", "new.target">>)
         [] c.n = Bad -> c
         [] c.tok = "(" -> Node(a, <<"new", c.n, a.n, TRUE>>)
         [] OTHER -> Node(c, <<"new", c.n, <<>>, FALSE>>)

\* [parser/expression.go parseLeftHandSideExpression]
RECURSIVE Members(_)
Members(s) ==
    CASE s.tok = "." -> Members(parseDotMember(s))
      [] s.tok = "[" -> Members(parseBracketMember(s))
      [] s.tok = "bt" -> Members(Template(s, s.n))
      [] OTHER -> s
parseLeftHandSideExpression(s) == Members(IF s.tok = "new" THEN parseNewExpression(s) ELSE parsePrimaryExpression(s))

\* [parser/expression.go parseLeftHandSideExpressionAllowCall]
RECURSIVE Calls(_, _)
Calls(s, optional) ==
    LET o == Node(s, <<"opt", s.n>>) IN
    CASE s.tok = "." -> Calls(parseDotMember(s), optional)
      [] s.tok = "[" -> Calls(parseBracketMember(s), optional)
      [] s.tok = "(" -> Calls(parseCallExpression(s), optional)
      [] s.tok = "bt" -> IF optional THEN Fail(s) ELSE Calls(Template(s, s.n), optional)
      [] s.tok = "?." -> Calls(IF peek(s) \in {"[", "(", "bt"} THEN next(o) ELSE parseDotMember(o), TRUE)
      [] OTHER -> IF optional THEN Node(s, <<"chain", s.n>>) ELSE s
parseLeftHandSideExpressionAllowCall(s) ==
    LET t == [s EXCEPT !.sc.in = TRUE]
        r == Calls(IF s.tok = "new" THEN parseNewExpression(t) ELSE parsePrimaryExpression(t), FALSE)
    IN [r EXCEPT !.sc.in = s.sc.in]

\* [parser/expression.go parseUpdateExpression]
parseUpdateExpression(s) ==
    LET Update(x, kind, operand) == IF operand[1] \in Simple THEN Node(x, <<kind, s.tok, operand>>) ELSE Fail(x)
        u == parseUnaryExpression(next(s))
        e == parseLeftHandSideExpressionAllowCall(s)
    IN CASE s.tok \in {"++", "--"} -> Update(u, "prefix", u.n)
         [] s.tok \notin {"++", "--"} /\ e.tok \in {"++", "--"} /\ ~e.imp ->
              IF e.n[1] \in Simple THEN Node(next(e), <<"postfix", e.tok, e.n>>) ELSE Fail(next(e))
         [] OTHER -> e

\* [parser/expression.go parseUnaryExpression]
parseUnaryExpression(s) ==
    LET u == parseUnaryExpression(next(s))
        w == next(s)
        v == parseUnaryExpression(ErrIf(w, s.sc.params))
    IN CASE s.tok \in {"+", "-", "!", "~", "delete", "void", "typeof"} -> Node(u, <<"unary", s.tok, u.n>>)
         [] s.tok = "await" /\ s.sc.await -> IF s.sc.async THEN Node(v, <<"await", v.n>>) ELSE Node(Err(w), Bad)
         [] OTHER -> parseUpdateExpression(s)

\* Mutant: any operand on the left
ExponentiationAny(s) ==
    LET l == parseUnaryExpression(s)
        r == parseExponentiationExpression(next(l))
    IN IF l.tok = "**" THEN Node(r, <<"bin", "**", l.n, r.n>>) ELSE l

\* [parser/expression.go parseExponentiationExpression]
parseExponentiationExpression(s) ==
    LET l == parseUnaryExpression(s)
        r == parseExponentiationExpression(next(ErrIf(l, s.tok # "(" /\ l.n[1] = "unary")))
    IN IF l.tok = "**" THEN Node(r, <<"bin", "**", l.n, r.n>>) ELSE l

\* The binary operators that associate to the left, the weakest first
\* [parser/expression.go parseEqualityExpression..parseLogicalAndExpression]
BitwiseOps == <<{"&&"}, {"|"}, {"^"}, {"&"}, {"==", "!=", "===", "!=="}>>
\* [parser/expression.go parseMultiplicativeExpression..parseShiftExpression]
ArithmeticOps == <<{"<<", ">>", ">>>"}, {"+", "-"}, {"*", "/", "%"}>>
Ops == BitwiseOps \o <<{}>> \o ArithmeticOps
Relational == Len(BitwiseOps) + 1

RECURSIVE LeftAssoc(_, _)
LeftAssoc(s, l) ==
    IF s.tok \notin Ops[l] THEN s
    ELSE LET r == parseBinary(next(s), l + 1) IN LeftAssoc(Node(r, <<"bin", s.tok, s.n, r.n>>), l)
parseBinary(s, l) ==
    CASE l = Relational -> parseRelationalExpression(s)
      [] l > Len(Ops) -> parseExponentiationExpression(s)
      [] OTHER -> LeftAssoc(parseBinary(s, l + 1), l)

\* The operator of `#a in b` is the token the parser is at when it makes the node: that behind `in`, or, as Go does not say which is read first, that
\* behind b.  Nothing that reads the tree looks at it.
\* [parser/expression.go parseRelationalExpression]
parseRelationalExpression(s) ==
    LET p == Node(next(s), <<"private">>)
        right == next(p)
        q == parseBinary(right, Relational + 1)
        l == parseBinary(s, Relational + 1)
        r == parseRelationalExpression(next([l EXCEPT !.sc.in = TRUE]))
    IN CASE s.sc.in /\ s.tok = "#a" -> IF p.tok = "in" THEN Node(q, <<"bin", right.tok, p.n, q.n>>) ELSE p
         [] ~(s.sc.in /\ s.tok = "#a") /\ (l.tok \in {"<", "<=", ">", ">=", "instanceof"} \/ (l.tok = "in" /\ s.sc.in)) ->
              Node([r EXCEPT !.sc.in = s.sc.in], <<"bin", l.tok, l.n, r.n>>)
         [] OTHER -> l

\* [parser/expression.go isLogicalAndExpr..parseLogicalOrExpression]
isLogicalAndExpr(n) == n[1] = "bin" /\ n[2] = "&&"
RECURSIVE Disjunction(_), Coalescing(_)
Disjunction(s) ==
    LET r == parseBinary(next(s), 1) IN
    CASE s.tok = "||" -> Disjunction(Node(r, <<"bin", "||", s.n, r.n>>))
      [] s.tok = "??" -> Err(s)
      [] OTHER -> s
Coalescing(s) ==
    LET n == next(s)
        r == parseBinary(n, 1)
    IN CASE s.tok = "??" -> IF n.tok # "(" /\ isLogicalAndExpr(r.n) THEN Node(Err(r), s.n) ELSE Coalescing(Node(r, <<"bin", "??", s.n, r.n>>))
         [] s.tok = "||" -> Err(s)
         [] OTHER -> s
parseLogicalOrExpression(s) ==
    LET l == parseBinary(s, 1) IN
    IF l.tok = "||" \/ (s.tok # "(" /\ isLogicalAndExpr(l.n)) THEN Disjunction(l) ELSE Coalescing(l)

\* [parser/expression.go parseConditionalExpression]
parseConditionalExpression(s) ==
    LET t == parseLogicalOrExpression(s)
        c == parseAssignmentExpression(next([t EXCEPT !.sc.in = TRUE]))
        a == parseAssignmentExpression(expect([c EXCEPT !.sc.in = t.sc.in], ":"))
    IN IF t.tok = "?" THEN Node(a, <<"cond", t.n, c.n, a.n>>) ELSE t

\* An error in the argument is taken back together with the argument
\* [parser/expression.go parseYieldExpression]
parseYieldExpression(s) ==
    LET y == ErrIf(expect(s, "yield"), s.sc.params)
        star == ~y.imp /\ y.tok = "*"
        d == IF star THEN next(y) ELSE y
        e == parseAssignmentExpression(d)
    IN CASE d.imp \/ d.tok \in {";", "}", "EOF"} -> Node(d, <<"yield", star, None>>)
         [] ~d.imp /\ d.tok \notin {";", "}", "EOF"} /\ e.n = Bad -> Node(restore(e, d), <<"yield", star, None>>)
         [] OTHER -> Node(e, <<"yield", star, e.n>>)

\* What stands before an arrow is a parameter after all
\* [parser/expression.go:1295-1331 parseAssignmentExpression]
Arrow(s, l, async) ==
    LET paren == s.tok = "("
        inner == [s EXCEPT !.sc.await = TRUE]
        p == CASE l.n[1] = "id" -> Node(l, <<"params", <<<<l.n, None>>>>, None>>)
               [] l.n[1] # "id" /\ paren ->
                    IF l.n[1] = "seq" /\ l.errs = 0 THEN asParams(l, l.n[2], <<>>) ELSE parseFunctionParameterList(restore(l, s))
               [] l.n[1] = "call" /\ async -> parseFunctionParameterList(next(restore([l EXCEPT !.sc.await = TRUE], inner)))
               [] OTHER -> Node(l, None)
        t == [p EXCEPT !.sc.await = s.sc.await \/ (async /\ l.n[1] # "id")]
        r == IF p.n = None THEN Node(Err(p), Bad) ELSE parseArrowFunction(t, p.n, async)
    IN [r EXCEPT !.sc = s.sc]

\* [parser/expression.go parseAssignmentExpression]
parseAssignmentExpression(s) ==
    LET async == s.tok = "async" /\ peek(s) = "("
        arrow == s.tok = "async" /\ isBindingId(s, peek(s))
        l == parseConditionalExpression(IF s.tok \in {"(", "async"} THEN s ELSE tokenToBindingId(s))
        assigns == l.tok \in {"=", "+=", "-=", "*=", "**=", "/=", "%=", "&=", "|=", "^=", "<<=", ">>=", ">>>=", "&&=", "||=", "??="}
        literal == l.n[1] \in {"array", "object"} /\ s.tok # "(" /\ l.tok = "="
        t == IF literal THEN asPattern(next(l), FALSE) ELSE next(l)
        r == parseAssignmentExpression(t)
    IN CASE arrow -> parseSingleArgArrowFunction(next(s), TRUE)
         [] s.tok = "yield" /\ s.sc.yield -> parseYieldExpression(s)
         [] OTHER -> CASE l.tok = "=>" -> Arrow(s, l, async)
                       [] assigns -> IF l.n[1] \in Simple \/ literal THEN Node(r, <<"assign", l.tok, t.n, r.n>>) ELSE Fail(next(l))
                       [] OTHER -> l

\* [parser/expression.go parseExpression]
RECURSIVE Sequence(_, _)
Sequence(s, acc) ==
    IF s.tok # "," THEN Node(s, <<"seq", acc>>)
    ELSE LET e == parseAssignmentExpression(next(s)) IN Sequence(e, Append(acc, e.n))
parseExpression(s) == LET e == parseAssignmentExpression(s) IN IF e.tok = "," THEN Sequence(e, <<e.n>>) ELSE e

---------------------------------------------------------------------------
(* Statements.                                                             *)

\* [parser/statement.go ensurePatternInit]
ensurePatternInit(s) == ErrIf(s, \E i \in DOMAIN s.n : s.n[i][1][1] \in {"arrpat", "objpat"} /\ s.n[i][2] = None)

\* [parser/statement.go parseVariableStatement..parseLexicalDeclaration]
Declaration(s) ==
    LET k == ErrIf(expect(s, s.tok), s.tok # "var" /\ ~s.sc.let)
        l == ensurePatternInit(parseVariableDeclarationList(k))
    IN Node(semicolon(l), <<s.tok, l.n>>)

Single(s) == parseStatement([s EXCEPT !.sc.let = FALSE])

\* [parser/statement.go parseIterationStatement]
parseIterationStatement(s) ==
    LET b == Single([s EXCEPT !.sc.iter = TRUE]) IN [b EXCEPT !.sc.iter = s.sc.iter]

\* [parser/statement.go parseForIn..parseFor] the three kinds of loops, after their first part
ForInOf(s, kind, into) ==
    LET e == IF kind = "forin" THEN parseExpression(s) ELSE parseAssignmentExpression(s)
        b == parseIterationStatement(expect(e, ")"))
    IN Node(b, <<kind, into, e.n, b.n>>)
parseFor(s, init) ==
    LET t == IF s.tok = ";" THEN Node(s, None) ELSE parseExpression(s)
        u == expect(t, ";")
        v == IF u.tok = ")" THEN Node(u, None) ELSE parseExpression(u)
        b == parseIterationStatement(expect(v, ")"))
    IN Node(b, <<"for", init, t.n, v.n, b.n>>)

\* [parser/statement.go parseForOrForInStatement] a loop with a wrong left side leaves allowIn off
parseForOrForInStatement(s) ==
    LET o == expect(expect(s, "for"), "(")
        h == [o EXCEPT !.sc.in = FALSE]
        decl == o.tok \in {"var", "const"} \/ (o.tok = "let" /\ peek(o) \in {"IDENT", "[", "{"})
        d == IF decl THEN parseVariableDeclarationList(next(h)) ELSE parseExpression(h)
        kind == CASE decl /\ Len(d.n) # 1 -> "for"
                  [] d.tok = "in" -> "forin"
                  [] d.tok = "IDENT" /\ d.lit = "of" -> "forof"
                  [] OTHER -> "for"
        i == next(d)
        p == IF d.n[1] \in {"array", "object"} THEN asPattern(i, FALSE) ELSE i
        Back(x) == [x EXCEPT !.sc.in = o.sc.in]
        init == IF decl THEN <<o.tok, d.n>> ELSE <<"expr", d.n>>
    IN CASE o.tok = ";" -> parseFor(expect(o, ";"), None)
         [] o.tok # ";" /\ kind = "for" -> parseFor(expect(Back(IF decl THEN ensurePatternInit(d) ELSE d), ";"), init)
         [] o.tok # ";" /\ kind # "for" /\ decl -> ForInOf(Back(ErrIf(i, d.n[1][2] # None)), kind, <<o.tok, d.n[1]>>)
         [] OTHER -> IF d.n[1] \in Simple \cup {"array", "object"} THEN ForInOf(Back(p), kind, <<"expr", p.n>>) ELSE Fail(i)

\* [parser/statement.go parseDoWhileStatement]
parseDoWhileStatement(s) ==
    LET o == expect([s EXCEPT !.sc.iter = TRUE], "do")
        b == IF o.tok = "{" THEN parseBlockStatement(o) ELSE Single(o)
        t == parseExpression(expect(expect(b, "while"), "("))
        c == expect(t, ")")
        e == IF c.tok = ";" THEN next(c) ELSE c
    IN Node([e EXCEPT !.sc.iter = s.sc.iter], <<"do", b.n, t.n>>)

\* [parser/statement.go parseWhileStatement..parseIfStatement]
parseWhileStatement(s) ==
    LET t == parseExpression(expect(expect(s, "while"), "("))
        b == parseIterationStatement(expect(t, ")"))
    IN Node(b, <<"while", t.n, b.n>>)
parseIfStatement(s) ==
    LET t == parseExpression(expect(expect(s, "if"), "("))
        c == expect(t, ")")
        b == IF c.tok = "{" THEN parseBlockStatement(c) ELSE Single(c)
        a == Single(next(b))
    IN IF b.tok = "else" THEN Node(a, <<"if", t.n, b.n, a.n>>) ELSE Node(b, <<"if", t.n, b.n, None>>)

\* [parser/statement.go parseWithStatement]
parseWithStatement(s) ==
    LET t == parseExpression(expect(expect(s, "with"), "("))
        b == Single(expect(t, ")"))
    IN Node(b, <<"with", t.n, b.n>>)

\* [parser/statement.go parseTryStatement]
parseTryStatement(s) ==
    LET b == parseBlockStatement(expect(s, "try"))
        k == next(b)
        p == IF k.tok = "(" THEN parseBindingTarget(next(k)) ELSE Node(k, None)
        h == parseBlockStatement(IF k.tok = "(" THEN expect(p, ")") ELSE p)
        c == IF b.tok = "catch" THEN Node(h, <<p.n, h.n>>) ELSE Node(b, None)
        f == IF c.tok = "finally" THEN parseBlockStatement(next(c)) ELSE Node(c, None)
    IN IF c.n = None /\ f.n = None THEN Node(Err(f), Bad) ELSE Node(f, <<"try", b.n, c.n, f.n>>)

\* [parser/statement.go parseCaseStatement]
RECURSIVE Consequent(_, _)
Consequent(s, acc) ==
    IF s.tok \in {"EOF", "}", "case", "default"} THEN Node(s, acc)
    ELSE LET r == parseStatement([s EXCEPT !.sc.let = TRUE]) IN Consequent(r, Append(acc, r.n))
parseCaseStatement(s) ==
    LET t == IF s.tok = "default" THEN Node(next(s), None) ELSE parseExpression(expect(s, "case"))
        l == Consequent(expect(t, ":"), <<>>)
    IN Node(l, <<t.n, l.n>>)

\* [parser/statement.go parseSwitchStatement]
RECURSIVE Cases(_, _)
Cases(s, acc) ==
    LET c == parseCaseStatement(s) IN
    CASE s.tok = "EOF" -> Node(s, acc)
      [] s.tok = "}" -> Node(next(s), acc)
      [] OTHER -> Cases(ErrIf(c, c.n[1] = None /\ \E i \in DOMAIN acc : acc[i][1] = None), Append(acc, c.n))
parseSwitchStatement(s) ==
    LET d == parseExpression(expect(expect(s, "switch"), "("))
        o == expect(expect(d, ")"), "{")
        l == Cases([o EXCEPT !.sc.sw = TRUE], <<>>)
    IN Node([l EXCEPT !.sc.sw = s.sc.sw], <<"switch", d.n, l.n>>)

\* [parser/statement.go parseReturnStatement..parseThrowStatement]
parseReturnStatement(s) ==
    LET k == expect(s, "return")
        e == IF k.imp \/ k.tok \in {";", "}", "EOF"} THEN Node(k, None) ELSE parseExpression(k)
    IN IF s.sc.fn THEN Node(semicolon(e), <<"return", e.n>>) ELSE Fail(k)
parseThrowStatement(s) ==
    LET k == expect(s, "throw")
        e == parseExpression(k)
    IN IF k.imp THEN Fail(k) ELSE Node(semicolon(e), <<"throw", e.n>>)

\* [parser/statement.go parseBreakStatement..parseContinueStatement] a label is searched in the function only
Branch(s) ==
    LET k == expect(s, s.tok)
        e == IF k.tok = ";" THEN next(k) ELSE k
        legal == s.sc.iter \/ (s.tok = "break" /\ s.sc.sw)
        i == tokenToBindingId(k)
        l == parseIdentifier(i)
    IN CASE k.imp \/ k.tok \in {";", "}"} -> LET x == [e EXCEPT !.imp = FALSE] IN IF legal THEN Node(x, <<s.tok, "">>) ELSE Fail(x)
         [] ~k.imp /\ k.tok \notin {";", "}"} /\ i.tok = "IDENT" ->
              CASE i.lit \notin ToSet(s.sc.labels) -> Node(Err(l), Bad)
                [] i.lit \in ToSet(s.sc.labels) /\ s.tok = "continue" /\ ~s.sc.iter -> Fail(l)
                [] OTHER -> Node(semicolon(l), <<s.tok, i.lit>>)
         [] OTHER -> Fail(expect(i, "IDENT"))

\* The members of a class; a field ends like a statement
\* [parser/statement.go parseClass]
RECURSIVE ClassBody(_, _)
ClassBody(s, acc) ==
    LET static == s.tok = "static" /\ peek(s) \notin {"=", ";", "}", "("}
        a == IF static THEN next(s) ELSE s
        blk == parseFunctionBlock(a, FALSE, TRUE, FALSE)
        word == (a.lit \in {"get", "set"} \/ a.tok = "async") /\ peek(a) \notin {";", "("}
        b == IF word THEN next(a) ELSE a
        gen == b.tok = "*" /\ (word => a.tok = "async")
        k == parseObjectPropertyKey(IF gen THEN next(b) ELSE b)
        lit == k.n[3]
        private == k.n[2] = "#a"
        kind == CASE word /\ a.tok # "async" -> a.lit
                  [] gen \/ (word /\ a.tok = "async") \/ k.tok = "(" -> "method"
                  [] OTHER -> "field"
        ctor == lit = "constructor" /\ ~private
        illegal == \/ static /\ ~private /\ lit = "prototype"
                   \/ ctor /\ kind = "field"
                   \/ ctor /\ kind # "field" /\ ~static /\ (kind # "method" \/ word \/ gen)
        m == parseMethodDefinition(ErrIf(k, illegal), kind, gen, word /\ a.tok = "async")
        j == ErrIf(k, illegal)
        f == IF j.tok = "=" THEN parseExpression(next(j)) ELSE Node(j, None)
    IN CASE s.tok \in {"}", "EOF"} -> Node(s, acc)
         [] s.tok = ";" -> ClassBody(next(s), acc)
         [] static /\ a.tok = "{" -> ClassBody(blk, Append(acc, <<"static", blk.n>>))
         [] OTHER ->
              CASE k.n = None -> ClassBody(k, acc)
                [] k.n # None /\ kind # "field" -> ClassBody(m, Append(acc, <<"method", static, k.n[4], kind, m.n>>))
                [] k.n # None /\ kind = "field" /\ ~f.imp /\ f.tok \notin {";", "}"} -> Node(Err(f), acc)
                [] OTHER -> ClassBody(f, Append(acc, <<"field", static, k.n[4], f.n>>))
parseClass(s, decl) ==
    LET c == tokenToBindingId(expect(ErrIf(s, decl /\ ~s.sc.let), "class"))
        nm == CASE c.tok = "IDENT" -> parseIdentifier(c) [] c.tok # "IDENT" /\ decl -> Node(expect(c, "IDENT"), None) [] OTHER -> Node(c, None)
        u == IF nm.tok = "{" THEN Node(nm, None) ELSE parseLeftHandSideExpressionAllowCall(expect(nm, "extends"))
        b == ClassBody(expect(u, "{"), <<>>)
    IN Node(expect(b, "}"), <<"class", nm.n, u.n, b.n>>)

\* An expression statement, or a label and its statement
\* [parser/statement.go:101-128 parseStatement]
LabelledOrExpression(s) ==
    LET e == parseExpression(s)
        c == next(ErrIf(e, e.n[1] = "id" /\ e.n[2] \in ToSet(e.sc.labels)))
        b == Single([c EXCEPT !.sc.labels = Append(@, e.n[2])])
    IN IF e.n[1] = "id" /\ e.tok = ":" THEN Node([b EXCEPT !.sc.labels = e.sc.labels], <<"label", e.n[2], b.n>>)
       ELSE Node(optionalSemicolon(e), <<"expr", e.n>>)

\* [parser/statement.go parseStatement]
parseStatement(s) ==
    LET Decl(x, kind) == Node(x, <<kind, x.n>>)
        lets == peek(s) = "[" \/ (s.sc.let /\ (IsId(peek(s)) \/ peek(s) = "{"))
        t == s.tok
    IN CASE t = "EOF" -> Node(Err(s), Bad)
         [] t = ";" -> Node(next(s), <<"empty">>)
         [] t = "{" -> parseBlockStatement(s)
         [] t = "if" -> parseIfStatement(s)
         [] t = "do" -> parseDoWhileStatement(s)
         [] t = "while" -> parseWhileStatement(s)
         [] t = "for" -> parseForOrForInStatement(s)
         [] t \in {"break", "continue"} -> Branch(s)
         [] t = "debugger" -> Node(semicolon(next(s)), <<"debugger">>)
         [] t = "with" -> parseWithStatement(s)
         [] t \in {"var", "const"} \/ (t = "let" /\ lets) -> Declaration(s)
         [] t = "let" /\ ~lets -> LabelledOrExpression([s EXCEPT !.ins = TRUE])
         [] t = "async" /\ peek(s) = "function" -> Decl(parseFunction(next(s), TRUE, TRUE), "fdecl")
         [] t = "function" -> Decl(parseFunction(s, TRUE, FALSE), "fdecl")
         [] t = "class" -> Decl(parseClass(s, TRUE), "cdecl")
         [] t = "switch" -> parseSwitchStatement(s)
         [] t = "return" -> parseReturnStatement(s)
         [] t = "throw" -> parseThrowStatement(s)
         [] t = "try" -> parseTryStatement(s)
         [] OTHER -> LabelledOrExpression(s)

\* [parser/statement.go parseStatementList]
RECURSIVE StatementList(_, _, _)
StatementList(s, stop, acc) ==
    IF s.tok \in stop THEN Node(s, acc)
    ELSE LET r == parseStatement([s EXCEPT !.sc.let = TRUE]) IN StatementList(r, stop, Append(acc, r.n))
parseStatementList(s) == StatementList(s, {"}", "EOF"}, <<>>)

\* [parser/statement.go parseSourceElements..parseProgram]
parseProgram(toks) == StatementList(Start(toks), {"EOF"}, <<>>)

=============================================================================
