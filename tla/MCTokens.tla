------------------------------ MODULE MCTokens ------------------------------
(***************************************************************************)
(* The parser on every short sequence of tokens: a text is typed token by  *)
(* token and parsed as it stands, as an editor does.                       *)
(***************************************************************************)
EXTENDS Parser

CONSTANTS Alphabet, MaxTokens

P == INSTANCE Printer

VARIABLES
  typed,    \* the tokens of the text
  line,     \* those of its last line
  parsed,   \* what the parser makes of the text
  alone     \* and of each of its lines as a text of its own
vars == <<typed, line, parsed, alone>>

EndsLine(toks)  == toks # << >> /\ Last(toks) = NewLine
TokensOf(toks)  == LexText(0, <<Line(0, IF EndsLine(toks) THEN Front(toks) ELSE toks)>>).tokens
ParsingOf(toks) == Parsing(TokensOf(toks))

Init == /\ typed = << >> /\ line = << >>
        /\ parsed = [statements |-> << >>, errors |-> << >>, crashed |-> FALSE]
        /\ alone = << >>

\* No line is blank.
TypeToken(token) ==
  LET begins == typed = << >> \/ EndsLine(typed)
  IN  /\ Len(typed) < MaxTokens
      /\ ~(begins /\ token = NewLine)
      /\ typed'  = Append(typed, token)
      /\ line'   = IF begins THEN <<token>> ELSE Append(line, token)
      /\ parsed' = ParsingOf(typed')
      /\ alone'  = Append(IF begins THEN alone ELSE Front(alone), ParsingOf(line'))

Next == \E token \in Alphabet : TypeToken(token)
Spec == Init /\ [][Next]_vars

RECURSIVE Height(_)
HeightOfAll(es) == LET all == {Height(es[i]) : i \in DOMAIN es} IN IF all = {} THEN 0 ELSE CHOOSE h \in all : \A k \in all : h >= k
Children(e) ==
  CASE e.node = "Infix"  -> <<e.left, e.right>>
    [] e.node = "Prefix" -> <<e.right>>
    [] e.node = "Index"  -> <<e.name, e.index>>
    [] e.node = "Slice"  -> <<e.object>> \o e.start \o e.end
    [] e.node = "Call"   -> <<e.function>> \o e.arguments
    [] e.node = "Array"  -> e.elements
    [] e.node = "Interpolated" -> e.segments
    [] OTHER             -> << >>
Height(e) == 1 + HeightOfAll(Children(e))

\* The expressions of a statement.
Roots(s) == CASE s.node = "Expression"      -> {s.expression}
              [] s.node = "IndexAssignment" -> {s.index, s.value}
              [] OTHER                      -> {s.value}

\* However an expression is built, by recursion or by a loop over operators, its
\* tree is never deeper than kMaxExpressionDepth: the passes after the parser
\* recurse over it.
AllBounded(trees) == \A i \in DOMAIN trees : \A e \in Roots(trees[i]) : Height(e) <= kMaxExpressionDepth
DepthBounded == AllBounded(parsed.statements)

\* A text that is accepted is what one writes to mean its tree: nothing is
\* skipped, added or bound otherwise than the grammar says.
Written(program) ==
  LET written == FlattenSeq([i \in DOMAIN program |-> P!Printed(<<program[i]>>)[1].toks \o <<NewLine>>]) IN written
AcceptsOnlySentences ==
  typed # << >> /\ parsed.errors = << >> => Written(parsed.statements) = TokensOf(typed)

\* Where lines are statements of their own, an error costs its line and no other:
\* a text is parsed as its lines are parsed one by one.
LinesIndependent ==
  /\ parsed.statements = FlattenSeq([i \in DOMAIN alone |-> alone[i].statements])
  /\ Len(parsed.errors) = Len(FlattenSeq([i \in DOMAIN alone |-> alone[i].errors]))

Name == Token("IDENTIFIER", "a")
String == Token("STRING", <<OpenBrace, T("MINUS"), Name, CloseBrace>>)
ExpressionTokens == {Name, String, T("MINUS"), T("POWER"), T("LBRACKET"), T("RBRACKET"), T("COLON"), T("ASSIGN"), NewLine}

=============================================================================
