------------------------------- MODULE MCClaims -------------------------------
(***************************************************************************)
(* What comments and documents say of the lexer, the parser, the type      *)
(* check and the integers, each with a text, a program or a pair of        *)
(* numbers for which the code does something else.  The code is given one  *)
(* after the other, the next when the claim about the last did not hold.   *)
(***************************************************************************)
EXTENDS TypeChecker, Lexer

CONSTANT Examples

Grammar == INSTANCE Parser WITH kMaxExpressionDepth <- 100
Run     == INSTANCE Evaluator WITH MAX_RECURSION_DEPTH <- 1000, HasLimiter <- FALSE, MaxLoopIterations <- 0

VARIABLES
  given,   \* how many of the examples the code was given
  found    \* what it made of the last one
vars == <<given, found>>

Example == Examples[given]
Given   == Examples[given + 1]

\* What is said, as it applies to the example that was given last.
ClaimHolds ==
  given > 0 =>
    CASE Example.claim = "comments mean nothing"       -> found.statements = Example.meant /\ found.errors = << >>
      [] Example.claim = "errors are reported"         -> found.errors # << >>
      [] Example.claim = "never reads past the end"    -> ~found.crashed
      [] Example.claim = "what passes the check runs"  -> found.checker.diags = << >> => found.ended = "returned"
      [] Example.claim = "what is diagnosed fails"     -> found.checker.diags # << >> => found.ended = "failed"
      [] Example.claim = "the check ends"              -> ~found.checker.stuck
      [] Example.claim = "overflows only are reported" -> found = Example.meant

Give(kind) == /\ given < Len(Examples) /\ Given.kind = kind
              /\ given = 0 \/ ~ClaimHolds
              /\ given' = given + 1

\* A text, to a new lexer and parser.
ParseText == Give("text") /\ found' = Grammar!Parsing(LexText(0, Given.lines).tokens)

\* A program, to the check and to the evaluator.
JudgeProgram ==
  /\ Give("program")
  /\ \E program \in {Given.program} :
       found' = [checker |-> FoldLeft(LAMBDA s, n : checkStatement(n, s), NewChecker, program),
                 ended   |-> Run!Evaluate(program, << >>).ended]

RaiseNumber == Give("numbers") /\ found' = pow(Given.base, Given.exponent)

Init == given = 0 /\ found = << >>
Next == ParseText \/ JudgeProgram \/ RaiseNumber
Spec == Init /\ [][Next]_vars

\* One at least of the claims holds for its example.
OneHolds == given = Len(Examples) => ClaimHolds

-----------------------------------------------------------------------------
(* Texts.                                                                  *)

A == Identifier("a")
Name   == Token("IDENTIFIER", "a")
Header == <<T("IF"), Name, T("THEN"), T("COLON")>>
TextExample(claim, lines, meant) == [kind |-> "text", claim |-> claim, lines |-> lines, meant |-> meant]

\* lexer.cpp:136 says that lines with nothing but a comment have no effect on the
\* indentation; here is one at the margin inside a block.
Commenting == TextExample("comments mean nothing",
  <<Line(0, Header), Line(4, <<Name>>), Commented(Line(0, << >>), "closed"), Line(4, <<Name>>)>>,
  <<If(A, <<ExprStmt(A), ExprStmt(A)>>, None)>>)

\* parser.cpp:1147 relies on a NEW_LINE at the end of every statement, so that the
\* parser never reads a token that is not there: two texts on which it does.
LambdaType  == TextExample("never reads past the end",
  <<Line(0, <<T("FUNCTION"), T("LPAREN"), T("RPAREN"), T("RIGHT_ARROW")>>)>>, << >>)
OpenComment == TextExample("never reads past the end", <<Commented(Line(0, <<Name, T("ASSIGN")>>), "open")>>, << >>)

\* parser.cpp:1004 says that what is wrong in the braces of a string is a parse
\* error; what comes after a newline in them is not looked at.
HalfRead == TextExample("errors are reported",
  <<Line(0, <<Token("STRING", <<OpenBrace, Name, Newline, T("RPAREN"), CloseBrace>>)>>)>>, << >>)

-----------------------------------------------------------------------------
(* Programs.  static-type-system-phase-b-design.md:19 has two principles:  *)
(* what passes the static check passes at run time, and only what both     *)
(* back ends reject is diagnosed.                                          *)

B == Identifier("b")
R == Identifier("r")
IntT == Type("int")
StrT == Type("str")
OptT == OptType("int")
One  == Num(1)
Txt  == Lit(Str(<<"t">>))
Nil  == Lit(Null)
Made(class) == Call(Identifier(class), << >>)
ProgramExample(claim, program) == [kind |-> "program", claim |-> claim, program |-> program]

\* What a condition has shown of b holds in the first round of the loop only.
LoopTypes == ProgramExample("what passes the check runs",
  <<Declare(OptT, "b", One), Declare(IntT, "a", One),
    If(Infix("NOT_EQUAL", B, Nil), <<ForRange("i", Num(0), Num(2), <<Assign("a", B), Assign("b", Nil)>>)>>, None)>>)

\* The s of a case that is not run is taken for the s outside.
CaseTypes == ProgramExample("what is diagnosed fails",
  <<Declare(StrT, "s", Txt), Match(Num(2), <<MatchCase(ValuePattern(One), None, <<Declare(IntT, "s", One)>>)>>, None),
    Assign("s", Txt)>>)

\* r is declared as a P, has the methods of a Q, and is called one of them.
SubclassTypes == ProgramExample("what is diagnosed fails",
  <<ClassStmt("P", "", "left" :> IntT, Some(Function("", << >>, Type("any"), <<SelfAssign("left", One)>>)), << >>),
    ClassStmt("Q", "P", << >>, None, <<Function("put", << >>, IntT, <<Return(One)>>)>>),
    Declare(Type("P"), "r", Made("Q")), ExprStmt(MethodCall(R, "put", << >>))>>)

\* type_checker.h:24 says that the check prints its diagnostics and the run goes
\* on; in a class that is its own parent it searches a member for ever.
CircularTypes == ProgramExample("the check ends",
  <<ClassStmt("P", "", "left" :> IntT, None, << >>), ClassStmt("P", "P", << >>, None, << >>),
    Declare(Type("P"), "r", Made("P")), ExprStmt(Member(R, "none"))>>)

-----------------------------------------------------------------------------
\* checked_int.h:126 says that pow reports an overflow just when the result leaves
\* the range; -8 is the least integer here.
LeastPower == [kind |-> "numbers", claim |-> "overflows only are reported", base |-> -2, exponent |-> 3, meant |-> Some(-8)]

AllExamples == <<Commenting, LambdaType, OpenComment, HalfRead,
                 LoopTypes, CaseTypes, SubclassTypes, CircularTypes, LeastPower>>

=============================================================================
