------------------------------ MODULE MCSession ------------------------------
(***************************************************************************)
(* Sessions of a few lines, parsed by the parser and run by a stand-in for *)
(* the back ends: it knows which names are defined, and a name that is not *)
(* fails.                                                                  *)
(***************************************************************************)
EXTENDS Session, AST

Grammar == INSTANCE Parser WITH kMaxExpressionDepth <- 100

ParseLines(toks) ==
  LET parsed == Grammar!Parsing(toks)
  IN  [verdict |-> IF parsed.crashed THEN "crash" ELSE IF parsed.errors # << >> THEN "error" ELSE "ok",
       program |-> parsed.statements]

\* The names a program leaves defined, and whether it reached its end.
RECURSIVE RunStatements(_, _)
Uses(e) == CASE e.node = "Identifier" -> {e.name}
             [] e.node = "Call"       -> {e.function.name}
             [] OTHER                 -> {}
RunStatement(s, names) ==
  CASE s.node = "Initialization" -> [globals |-> names \cup {s.name}, ok |-> TRUE]
    [] s.node = "Function"       -> [globals |-> names \cup {s.name}, ok |-> TRUE]
    [] s.node = "If"             -> [globals |-> names,
                                     ok |-> Uses(s.condition) \subseteq names /\ RunStatements(s.consequence, names).ok]
    [] s.node = "Expression"     -> [globals |-> names, ok |-> Uses(s.expression) \subseteq names]
RunStatements(program, names) ==
  IF program = << >> THEN [globals |-> names, ok |-> TRUE]
  ELSE LET first == RunStatement(Head(program), names)
       IN  IF first.ok THEN RunStatements(Tail(program), first.globals) ELSE first

RunLines(program, names) == LET ran == RunStatements(program, names) IN ran

-----------------------------------------------------------------------------
Name(x)     == Token("IDENTIFIER", x)
Header(x)   == <<T("IF"), Name(x), T("THEN"), T("COLON")>>
Define(x)   == <<Token("TYPE", "int"), Name(x), T("ASSIGN"), Token("INTEGER", 1)>>
FunctionOf(x) == <<T("FUNCTION"), Name(x), T("LPAREN"), T("RPAREN"), T("COLON")>>
LambdaOf    == <<T("FUNCTION"), T("LPAREN"), T("RPAREN"), T("RIGHT_ARROW")>>
Use(x)      == <<Name(x)>>

CarefulLines ==
  {Line(0, FunctionOf("f")), Line(0, Header("a")), Line(4, Header("a")), Line(0, Define("a")), Line(4, Use("a")),
   Line(8, Define("b")), Line(0, <<BadCharacter>>), Line(0, << >>), Line(4, << >>),
   Line(0, <<T("ELSE"), T("COLON")>>), Line(0, LambdaOf),
   Commented(Line(0, Use("a")), "closed"), Commented(Line(4, << >>), "closed")}

=============================================================================
