----------------------------- MODULE MCPlayground -----------------------------
(***************************************************************************)
(* A page that executes a few texts, parsed by the parser and run by a     *)
(* stand-in for the back ends: a name is printed; calling it writes a file *)
(* of that name, or fails when there is one; a loop runs until the limiter *)
(* stops it.                                                               *)
(***************************************************************************)
EXTENDS Playground, AST

Grammar == INSTANCE Parser WITH kMaxExpressionDepth <- 100

ParseLines(toks) ==
  LET parsed == Grammar!Parsing(toks)
  IN  [verdict |-> IF parsed.crashed THEN "crash" ELSE IF parsed.errors # << >> THEN "error" ELSE "ok",
       program |-> parsed.statements]

RunStatement(s, ran) ==
  CASE ran.verdict # "ran"      -> ran
    [] ran.verdict = "ran" /\ s.node = "While" -> [ran EXCEPT !.verdict = "stopped"]
    [] ran.verdict = "ran" /\ s.node = "Expression" /\ s.expression.node = "Identifier" ->
         [ran EXCEPT !.output = Append(@, s.expression.name)]
    [] OTHER -> IF s.expression.function.name \in DOMAIN ran.files THEN [ran EXCEPT !.verdict = "failed"]
                ELSE [ran EXCEPT !.files = (s.expression.function.name :> "made") @@ @]
RunLines(vm, program, given) ==
  {FoldLeft(LAMBDA ran, s : RunStatement(s, ran), [verdict |-> "ran", output |-> << >>, files |-> given], program)}

-----------------------------------------------------------------------------
Name(x)   == Token("IDENTIFIER", x)
CallOf(x) == <<Name(x), T("LPAREN"), T("RPAREN")>>
Forever   == <<T("LOOP"), Name("a"), T("WHILE"), T("COLON")>>
End       == Line(0, << >>)

\* Texts that close their blocks, or have none.
Closed ==
  {<<Line(0, <<Name("a")>>), Line(0, CallOf("f"))>>, <<Line(0, CallOf("f")), Line(0, <<Name("a")>>), End>>, <<End>>,
   <<Line(0, <<BadCharacter>>)>>, <<Line(4, <<Name("a")>>), End>>, <<Line(0, <<T("RPAREN")>>)>>,
   <<Line(0, <<T("FUNCTION"), T("LPAREN"), T("RPAREN"), T("RIGHT_ARROW")>>)>>,
   <<Line(0, CallOf("g")), Line(0, Forever), Line(4, <<Name("a")>>), End>>}

\* Texts that end or break off in a block, and some that are only blank or begin
\* in one.
Open ==
  {<<Line(0, Forever), Line(4, <<Name("a")>>)>>, <<Line(0, Forever), Line(4, <<BadCharacter>>), End>>,
   <<Line(0, Forever), Line(4, Forever), Line(8, CallOf("f"))>>,
   <<Line(0, Forever), Commented(Line(4, <<Name("a")>>), "open"), Line(0, <<Name("a")>>)>>,
   <<Line(0, Forever), Line(8, <<Name("a")>>), Line(4, << >>)>>,
   <<Line(4, << >>)>>, <<Line(4, << >>), Line(8, << >>)>>, <<Line(4, CallOf("f"))>>}

PageTexts == Closed \cup Open

=============================================================================
