----------------------------- MODULE ConstantFold -----------------------------
(***************************************************************************)
(* vm/compiler_expr.cpp: the values the compiler knows, as instructions.   *)
(* An operation on two literals is done at compile time where it can be.   *)
(***************************************************************************)
EXTENDS AST, Bytecode

\* A wrong variant of FoldOverflows: sums are folded without the test.
FoldOverflowsNoAdd(op, l, r) ==
  CASE op = "ADD" -> FALSE
    [] op = "SUB" -> SubOverflowTest(l, r)
    [] op = "MUL" -> MulOverflowTest(l, r)
    [] op = "DIV" -> r = 0 \/ div(l, r) = None
    [] op = "MOD" -> r = 0
    [] op = "POW" -> r < 0 \/ pow(l, r) = None

\* tryConstantFold: an operation on two literals, done at compile time.  A
\* result that would leave the range, or a division by zero, is not folded.
FoldOverflows(op, l, r) ==
  CASE op = "ADD" -> AddOverflowTest(l, r)
    [] op = "SUB" -> SubOverflowTest(l, r)
    [] op = "MUL" -> MulOverflowTest(l, r)
    [] op = "DIV" -> r = 0 \/ div(l, r) = None
    [] op = "MOD" -> r = 0
    [] op = "POW" -> r < 0 \/ pow(l, r) = None

FoldedInt(op, l, r) ==
  CASE op = "ADD" -> l + r            [] op = "SUB" -> l - r
    [] op = "MUL" -> l * r            [] op = "DIV" -> div(l, r)[1]
    [] op = "MOD" -> mod(l, r)        [] op = "POW" -> pow(l, r)[1]

tryConstantFold(op, l, r) ==
  IF l.node # "Literal" \/ r.node # "Literal" THEN None
  ELSE IF IsInt(l.value) /\ IsInt(r.value)
       THEN IF op \in Comparisons
            THEN Some(Op(IF Comparison(op, l.value[2], r.value[2]) THEN "TRUE" ELSE "FALSE"))
            ELSE IF op \notin Arithmetic \/ FoldOverflows(op, l.value[2], r.value[2]) THEN None
            ELSE Some(I("CONSTANT", IntVal(FoldedInt(op, l.value[2], r.value[2]))))
  ELSE IF Tag(l.value) = "str" /\ Tag(r.value) = "str" /\ op = "ADD"
       THEN Some(I("CONSTANT", Str(l.value[2] \o r.value[2])))
  ELSE None

literal(v) == CASE v = Null        -> Op("NULL")
                [] Tag(v) = "bool" -> Op(IF v[2] THEN "TRUE" ELSE "FALSE")
                [] OTHER           -> I("CONSTANT", v)

=============================================================================
