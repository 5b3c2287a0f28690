----------------------------- MODULE MCCompiler -----------------------------
(* The two halves of the compiler: source text is parsed, or a program is  *)
(* compiled and run.                                                       *)
EXTENDS MCStatements

VARIABLE input     \* of MCParser

P == INSTANCE MCParser WITH MaxTokens <- 4, Unusual <- FALSE

CompilerInit == Init /\ P!Init

\* Texts are parsed beside the first program, before it runs.
Parsing == trace = <<>> /\ vm = Start /\ prog = <<"let", "let", "expr">> /\ UNCHANGED vars
ChooseExpression == Parsing /\ P!ChooseExpression
ChooseStatement == Parsing /\ P!ChooseStatement
ChooseTokens == Parsing /\ P!ChooseTokens
RunProgram == input = <<>> /\ Next /\ UNCHANGED input

CompilerNext == ChooseExpression \/ ChooseStatement \/ ChooseTokens \/ RunProgram
CompilerSpec == CompilerInit /\ [][CompilerNext]_<<vars, input>>

\* Every tree of the bounded set is what the parser makes of its text (parser/statement.go, parser/expression.go).
TreesParsed == P!TreesParsed
\* Every short sequence of tokens that the parser accepts is a text of the tree it returns (the same, and lexer.go).
TextsMatched == P!TextsMatched
=============================================================================
