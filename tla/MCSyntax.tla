------------------------------ MODULE MCSyntax ------------------------------
(***************************************************************************)
(* The lexer and parser on texts that are edited: the text of a program is *)
(* printed, blank lines are put into it, or one of its lines is spoiled,   *)
(* and after each edit it is lexed and parsed from the start.              *)
(***************************************************************************)
EXTENDS Parser, Texts

CONSTANTS
  Sources,            \* the programs, as trees
  MaxBlanks           \* how many blank lines and comments are put in

P == INSTANCE Printer

VARIABLES         \* lines is its text
  source,   \* the program that is meant
  blanks,   \* how many blank lines and comments it has been given
  spoiled   \* the line of the printed text that was spoiled, or 0
vars == <<source, lines, blanks, spoiled>>

Printed(program) == LET printed == P!Printed(program) IN printed

Init == /\ source \in Sources
        /\ lines = Printed(source)
        /\ blanks = 0 /\ spoiled = 0

\* A line that means nothing, before line i or at the end.
InsertLine(i, line) ==
  /\ blanks < MaxBlanks /\ spoiled = 0 /\ Len(lines) > 1
  /\ lines' = SubSeq(lines, 1, i - 1) \o <<line>> \o SubSeq(lines, i, Len(lines))
  /\ blanks' = blanks + 1
  /\ UNCHANGED <<source, spoiled>>

\* A line that is part of the statement before it.
Continues(line) == line.toks # << >> /\ line.toks[1] \in {T("ELSE"), T("FAIL")}

Widths == {0, 4, 10}
InsertBlank(i)   == \E spaces \in Widths : InsertLine(i, Line(spaces, << >>))
\* A comment that is its line's only code.  It ends the statement before it, so
\* that none may come between the parts of one.
InsertComment(i) ==
  /\ ~Continues(lines[i])
  /\ InsertLine(i, Commented(Line(lines[i].spaces, << >>), "closed"))

\* A line that is no statement takes the place of line i.
SpoilLine(i) ==
  /\ blanks = 0 /\ spoiled = 0 /\ Len(lines) > 1
  /\ lines' = [lines EXCEPT ![i].toks = <<T("RPAREN")>>]
  /\ spoiled' = i
  /\ UNCHANGED <<source, blanks>>

Next == \/ \E i \in 1..Len(lines) + 1 : InsertBlank(i)
        \/ \E i \in DOMAIN lines : InsertComment(i) \/ SpoilLine(i)

Spec == Init /\ [][Next]_vars

Parsed == LET parsed == Parsing(LexText(0, lines).tokens) IN parsed

\* A text means the program it was printed from, with blank lines of any
\* width put anywhere into it and comments where the next statement begins:
\* indentation gives back every block, operators bind as the grammar says, and
\* no statement is taken for another kind.
Accepted(program) == [statements |-> program, errors |-> << >>, crashed |-> FALSE]
ParsesBack == spoiled = 0 => Parsed = Accepted(source)

-----------------------------------------------------------------------------
(* The statement of the program the spoiled line belongs to.               *)

Spoilt == CHOOSE k \in DOMAIN source :
            /\ Len(Printed(SubSeq(source, 1, k - 1))) < spoiled
            /\ spoiled <= Len(Printed(SubSeq(source, 1, k)))
OneLine(k) == Len(Printed(<<source[k]>>)) = 1

\* A line that cannot be parsed is reported, it does not take statements before
\* it along, and at the top level costs no other statement.
Recovers(p) ==
  /\ p.errors # << >> /\ ~p.crashed
  /\ IsPrefix(SubSeq(source, 1, Spoilt - 1), p.statements)
  /\ OneLine(Spoilt) => Len(p.errors) = 1 /\ p.statements = RemoveAt(source, Spoilt)
ErrorsRecover == spoiled # 0 => Recovers(Parsed)

-----------------------------------------------------------------------------
(* Programs.                                                               *)

A == Identifier("a")
B == Identifier("b")

Loose == {"OR", "AND", "BITOR", "BITAND", "EQUAL", "LESS", "ADD", "SUB", "MUL", "POW"}
Operands == {A, Num(1)}
Infixes  == {Infix(op, A, B) : op \in Loose}
Simple ==
  Infixes \cup
  {Prefix("NEGATE", A), Prefix("NOT", A), Postfix("ADD", "a"), Call(A, << >>),
   Call(A, <<B, Num(1)>>), Member(A, "m"), MethodCall(A, "m", <<B>>), Index(A, B), Slice(A, None, Some(B)),
   Slice(A, Some(B), None), Slice(A, Some(B), Some(Num(1))), ArrayLit(<<A, B>>), TupleLit(<<A, B>>),
   MapLit(<<A, B, Num(1), A>>), Lambda(<<Param("a", Type("int"), None)>>, Type("any"), A),
   Lambda(<<Param("a", Type("int"), None), Param("b", Type("function"), None)>>, Type("str"), B)}
Over(es) ==
  {Infix(op, l, r) : op \in Loose, l \in Infixes, r \in Infixes}
  \cup {Infix(op, e, A) : op \in Loose, e \in es} \cup {Infix(op, A, e) : op \in Loose, e \in es}
  \cup {Prefix("NEGATE", e) : e \in es} \cup {Call(e, <<A>>) : e \in es} \cup {Call(A, <<e, e>>) : e \in es}
  \cup {Member(e, "m") : e \in es} \cup {MethodCall(e, "m", <<e>>) : e \in es} \cup {Index(e, A) : e \in es}
  \cup {Index(A, e) : e \in es} \cup {Slice(e, Some(e), Some(e)) : e \in es} \cup {TupleLit(<<e, A>>) : e \in es}
  \cup {MapLit(<<e, e>>) : e \in es} \cup {Lambda(<< >>, Type("any"), e) : e \in es}
\* Strings around expressions, which may hold strings around expressions.
Characters     == {Letter("a"), OpenBrace, CloseBrace, Quote, Backslash}
Literal(chars) == Lit(Str(chars))
UpToTwo == {<< >>} \cup {<<c>> : c \in Characters} \cup {<<c, d>> : c, d \in Characters}
Edges   == {<< >>, <<OpenBrace>>, <<CloseBrace>>, <<Quote>>, <<Backslash>>}
Between(l, e, r) == Interpolated(<<Literal(l), e, Literal(r)>>)
Indexed    == {Index(MapLit(<<Literal(s), B>>), Literal(s)) : s \in Edges}
InStrings  == {A, Infix("POW", A, B), MapLit(<<A, B>>), TupleLit(<<A, B>>)} \cup Indexed
              \cup {Between(s, e, s) : s \in Edges, e \in {A, Literal(<<Quote>>)}}
Strings ==
  {Literal(s) : s \in UpToTwo} \cup {Between(l, e, r) : l, r \in Edges, e \in InStrings}
  \cup {Interpolated(<<Literal(s), e, Literal(s), A, Literal(s)>>) : s \in Edges, e \in InStrings}
  \cup {Infix("ADD", Between(s, e, s), Between(s, e, s)) : s \in Edges, e \in Indexed}

Expressions == {<<ExprStmt(e)>> : e \in Over(Simple \cup Operands) \cup Strings}

Leaves ==
  {ExprStmt(A), Declare(Type("int"), "a", B), Declare(OptType("str"), "a", Lit(Null)), Declare(Type("Point"), "a", B),
   Declare(OptType("Point"), "a", B), Declare(Type("function"), "a", Lambda(<< >>, Type("any"), B)), Assign("a", B),
   SelfAssign("a", B), ExprStmt(Member(Identifier("self"), "a")), Compound("SUB", "a", B), IndexAssign(A, Index(B, A), B),
   ExprStmt(Index(A, B)), ExprStmt(Infix("EQUAL", Index(A, B), B)), Return(A), Yield(A), Break, ContinueStmt, Import(<<Letter("lib")>>)}

ParamA == Param("a", Type("int"), None)
ParamB == Param("b", OptType("Point"), Some(IntVal(1)))
Compounds(body) ==
  {If(A, body, None), If(A, body, Some(body)), If(A, body, Some(<<If(B, body, Some(body))>>)),
   If(A, body, Some(<<If(B, body, None)>>)), While(A, body), ForRange("i", A, B, body), ForEach(Type("int"), "e", A, body),
   TryCatch(body, "err", body), Function("f", << >>, Type("any"), body), Function("f", <<ParamA, ParamB>>, OptType("int"), body),
   Match(A, <<MatchCase(ValuePattern(B), None, body), MatchCase(RangePattern(Num(1), Num(2)), Some(B), body),
              MatchCase(TypePattern("int"), None, body)>>, Some(body)),
   Match(A, <<MatchCase(ValuePattern(B), Some(A), body)>>, None),
   ClassStmt("C", "", "x" :> Type("int"), None, << >>),
   ClassStmt("C", "P", ("x" :> Type("int")) @@ ("y" :> Type("str")), Some(Function("", <<ParamA>>, Type("any"), body)),
             <<Function("m", << >>, Type("int"), body), Function("k", <<ParamA>>, Type("any"), body)>>)}

Bodies      == {<<l>> : l \in {ExprStmt(A), Return(A)}}
Nested1     == UNION {Compounds(b) : b \in Bodies}
Nested2     == UNION {Compounds(<<ExprStmt(B), s>>) : s \in Nested1}
Statements  == Leaves \cup Nested1 \cup Nested2
Texts       == {<<s>> : s \in Statements} \cup {<<ExprStmt(B), s, ExprStmt(A)>> : s \in Leaves \cup Nested1}

EditedTexts == {<<ExprStmt(B), s, If(A, <<ExprStmt(A)>>, None), ExprStmt(A)>> : s \in Leaves \cup Nested1}

SyntaxSources  == Expressions \cup Texts \cup EditedTexts

=============================================================================
