------------------------------- MODULE MCTypes -------------------------------
(***************************************************************************)
(* What the static check finds in a program, and what the evaluator makes  *)
(* of it: programs of a few statements about an integer a, an optional     *)
(* integer b, a text s and functions f and g, or about two classes and     *)
(* their objects p, q and r.                                               *)
(*                                                                         *)
(* docs/superpowers/specs/2026-06-11-static-type-system-phase-b-design.md  *)
(* :19 states the principle: what passes the static check passes at run    *)
(* time, and only what both back ends reject is diagnosed.                 *)
(***************************************************************************)
EXTENDS TypeChecker

CONSTANTS
  Families,   \* what programs are made of, and how long they get
  Direct      \* those statements that run at once and need no optional value

Run == INSTANCE Evaluator WITH MAX_RECURSION_DEPTH <- 1000, HasLimiter <- FALSE, MaxLoopIterations <- 0

VARIABLES family, program, checker, ended
vars == <<family, program, checker, ended>>

Init == family \in Families /\ program = << >> /\ checker = NewChecker /\ ended = "returned"

Clean == checker.diags = << >> /\ ended = "returned"

\* The check says nothing of a name that is declared twice, nor of a type that
\* is no class yet; the evaluator rejects both.
InReach(n) ==
  n.node = "Initialization" =>
    /\ \A i \in DOMAIN program : program[i].node = "Initialization" => program[i].name # n.name
    /\ n.type.type \in BasicTypes \cup DOMAIN checker.classTypes

\* A program that is rejected, by either, is not continued.
Next ==
  /\ Clean /\ Len(program) < family.length
  /\ \E n \in family.statements :
       /\ InReach(n)
       /\ program' = Append(program, n)
       /\ checker' = checkStatement(n, checker)
       /\ UNCHANGED family
       /\ ended'   = Run!Evaluate(Append(program, n), << >>).ended

Spec == Init /\ [][Next]_vars

-----------------------------------------------------------------------------

\* A program without diagnostics does not fail: values have the types that the
\* check gave to their expressions, names are known where it knows them, and an
\* optional value is used only where a condition has shown that there is one.
SafetyNet == checker.diags = << >> => ended = "returned"

\* What is diagnosed in a statement that runs at once does fail there.
OnlyRejected == checker.diags # << >> /\ Last(program) \in Direct => ended = "failed"

-----------------------------------------------------------------------------
IntT == Type("int")
StrT == Type("str")
OptT == OptType("int")
A == Identifier("a")
B == Identifier("b")
S == Identifier("s")
P == Identifier("p")
Q == Identifier("q")
R == Identifier("r")
One == Num(1)
Txt == Lit(Str(<<"t">>))
Nil == Lit(Null)
Plus(l, r)  == Infix("ADD", l, r)
CallF(args) == Call(Identifier("f"), args)

DirectStatements ==
  {Declare(IntT, "a", One), Declare(IntT, "a", Txt), Declare(IntT, "a", Plus(S, Txt)), Declare(StrT, "s", Txt),
   Declare(StrT, "s", A), Assign("a", Nil), Assign("a", Plus(A, One)), Assign("a", Plus(A, Txt)), Assign("s", Plus(S, Txt)),
   Assign("a", CallF(<<One>>)), Assign("a", CallF(<<Txt>>)), Assign("a", CallF(<< >>)), Assign("s", CallF(<<One>>)),
   ExprStmt(Infix("EQUAL", A, S)), ExprStmt(Infix("AND", A, Infix("EQUAL", A, One))), ExprStmt(Call(Identifier("length"), << >>)),
   ExprStmt(Interpolated(<<A, S>>))}

\* f takes one integer and another one that may be left out or be null; g tells
\* null from a number itself.
DefineF == Function("f", <<Param("x", IntT, None), Param("y", OptT, Some(Null))>>, IntT, <<Return(Plus(Identifier("x"), One))>>)
DefineG == Function("g", <<Param("x", OptT, None)>>, IntT,
                    <<If(Infix("EQUAL", Identifier("x"), Nil), <<Return(One)>>, Some(<<Return(Identifier("x"))>>))>>)

Optionals ==
  {Declare(OptT, "b", Nil), Declare(OptT, "b", One), Assign("b", A), Assign("b", Nil), Assign("b", Txt), Assign("a", B),
   Assign("a", Plus(B, One)), Assign("a", CallF(<<One, B>>)), Assign("a", Call(Identifier("g"), <<B>>)),
   If(Infix("NOT_EQUAL", B, Nil), <<Assign("a", Plus(B, One))>>, None),
   If(Infix("NOT_EQUAL", B, Nil), <<Assign("b", Nil), Assign("a", Plus(B, One))>>, None),
   If(Infix("NOT_EQUAL", B, Nil), <<Declare(OptT, "b", Nil), Assign("a", Plus(B, One))>>, None),
   If(Infix("EQUAL", Nil, B), <<Assign("b", One)>>, Some(<<Assign("a", B)>>)),
   If(Infix("AND", Infix("NOT_EQUAL", B, Nil), Infix("EQUAL", A, One)), <<Assign("a", B)>>, Some(<<Declare(IntT, "c", One)>>)),
   ExprStmt(Identifier("c"))}

Blocks ==
  {DefineF, DefineG, ForEach(StrT, "e", S, <<Assign("s", Plus(Identifier("e"), Txt))>>), ForEach(StrT, "e", A, << >>),
   ForRange("i", Num(0), A, <<Assign("a", Identifier("i"))>>), ForRange("i", S, One, << >>),
   TryCatch(<<Declare(IntT, "a", Txt)>>, "err", <<ExprStmt(A)>>)}

\* A class whose constructor gives its field a value, and one that inherits it.
Self == Identifier("self")
ClassP == ClassStmt("P", "", "left" :> IntT, Some(Function("", <<Param("w", IntT, None)>>, Type("any"), <<SelfAssign("left", Identifier("w"))>>)),
            <<Function("get", << >>, IntT, <<Return(Member(Self, "left"))>>)>>)
ClassQ == ClassStmt("Q", "P", << >>, None, <<Function("put", <<Param("v", IntT, None)>>, IntT,
                                            <<SelfAssign("left", Identifier("v")), Return(MethodCall(Self, "get", << >>))>>)>>)
ClassBad == ClassStmt("P", "", "left" :> IntT, Some(Function("", << >>, Type("any"), <<SelfAssign("left", Txt)>>)), << >>)
\* p is a P, q a Q, and r a P that was made as a Q.
PMade(args) == Call(Identifier("P"), args)
QMade(args) == Call(Identifier("Q"), args)
Classes == {ClassP, ClassQ, ClassBad}
Objects == Classes \cup
  {Declare(Type("P"), "p", PMade(<<One>>)), Declare(Type("P"), "p", PMade(<< >>)), Declare(Type("Q"), "q", QMade(<<One>>)),
   Declare(Type("Q"), "q", PMade(<<One>>)), Declare(Type("P"), "r", QMade(<<One>>)),
   Declare(IntT, "a", Member(P, "left")), Declare(StrT, "s", MethodCall(P, "get", << >>)), ExprStmt(Member(P, "none")),
   ExprStmt(MethodCall(P, "put", <<One>>)), Declare(IntT, "a", MethodCall(Q, "put", <<One>>)), ExprStmt(MethodCall(Q, "put", <<Txt>>)),
   Declare(IntT, "a", MethodCall(Q, "get", <<One>>)), Declare(StrT, "s", Member(Q, "left")), Declare(IntT, "c", MethodCall(R, "get", << >>))}

BothFamilies  == {[statements |-> DirectStatements \cup Optionals \cup Blocks, length |-> 4],
                  [statements |-> Objects, length |-> 5]}
AllDirect     == DirectStatements \cup (Objects \ Classes)

=============================================================================
