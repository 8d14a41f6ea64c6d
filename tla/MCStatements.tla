---------------------------- MODULE MCStatements ----------------------------
(***************************************************************************)
(* The VM on every program of a grammar of nested statements: a function f *)
(* whose body prints, fails, returns, breaks and continues inside branches,*)
(* loops and try blocks, up to Depth deep, called from a try block; and on *)
(* the programs of MCFeatures.                                             *)
(*                                                                         *)
(* Left out are the forms on which the back ends are known to differ (see  *)
(* MCDivergence): a jump out of a loop past locals, and locals in for-each.*)
(***************************************************************************)
EXTENDS MCFeatures

CONSTANT Depth   \* how deep the statements of f nest

X         == V("x")
FirstTime == Infix("EQUAL", X, Num(1))
When(s)   == If(FirstTime, <<s>>, None)
CallG     == PrintStmt(Call(Identifier("g"), << >>))
Scratch   == If(Lit(Bool(TRUE)), <<Declare(IntType, "y", X), PrintStmt(Identifier("y"))>>, None)

\* A `continue` on the last round is among the known differences.
Leaves(inLoop) ==
  {PrintStmt(X), Fail, When(Fail), Return(X), When(Return(Num(7))), CallG, Scratch}
  \cup (IF inLoop THEN {Break, When(Break), When(ContinueStmt)} ELSE {})

Handlers == {<<Say("caught")>>, <<Fail>>, <<Return(Num(6))>>}

Count == Compound("ADD", "x", Num(1))

RECURSIVE Statements(_, _)
Bodies(depth, inLoop) == {<<s>> : s \in Statements(depth, inLoop)}
                         \cup {<<s, Say("after")>> : s \in Statements(depth, inLoop)}
Statements(depth, inLoop) ==
  Leaves(inLoop) \cup
  IF depth = 0 THEN {} ELSE
  {TryCatch(b, "err", h) : b \in Bodies(depth - 1, inLoop), h \in Handlers}
  \cup {If(FirstTime, b, Some(<<Say("else")>>)) : b \in Bodies(depth - 1, inLoop)}
  \cup {While(Infix("LESS", X, Num(2)), <<Count>> \o b) : b \in Bodies(depth - 1, TRUE)}
  \cup {ForRange("i", Num(0), Num(2), <<Count>> \o b) : b \in Bodies(depth - 1, TRUE)}
  \cup {ForEach(IntType, "e", ArrayLit(<<Num(1), Num(2)>>), <<Count>> \o b) : b \in Bodies(depth - 1, FALSE)}

\* g returns from inside its try block.
G == Function("g", << >>, IntType, <<TryCatch(<<Return(Num(5))>>, "err", <<Return(Num(4))>>), Return(Num(3))>>)
F(s) == Function("f", << >>, IntType, <<Declare(IntType, "x", Num(0)), s, Return(X)>>)
Source(s) == <<G, F(s), TryCatch(<<PrintStmt(Call(Identifier("f"), << >>))>>, "err", <<Say("failed")>>), Say("end")>>

StatementSources == {[text |-> Source(s), files |-> << >>] : s \in Statements(Depth, FALSE)}

MCPrograms == LET sources == StatementSources \cup FeatureSources
              IN  {Compiled(s.text, s.files) : s \in sources}

=============================================================================
