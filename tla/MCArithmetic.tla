---------------------------- MODULE MCArithmetic ----------------------------
(***************************************************************************)
(* Integer arithmetic on every operator and every pair of operands of a    *)
(* small word: the branch for compilers without overflow builtins, the     *)
(* power loop and constant folding against what they are to compute.       *)
(***************************************************************************)
EXTENDS ConstantFold

VARIABLES op, left, right
vars == <<op, left, right>>

Foldable == Arithmetic \cup Comparisons

Init == op \in Foldable /\ left \in Word /\ right \in Word

Next == op' \in Foldable /\ UNCHANGED <<left, right>>

Spec == Init /\ [][Next]_vars

\* The power, or some number outside the word when the power is outside it.
Power(base, exp) ==
  LET Times(p) == IF Magnitude(p) > MaxInt + 1 THEN p ELSE base * p
      P[e \in 0..exp] == IF e = 0 THEN 1 ELSE Times(P[e - 1])
  IN  P[exp]

\* Both branches of the preprocessor conditional in add, sub and mul accept
\* the same operands and give the same result, so a program means the same
\* whatever compiler built the interpreter.
PortableAgrees ==
  /\ portableAdd(left, right) = add(left, right)
  /\ portableSub(left, right) = sub(left, right)
  /\ portableMul(left, right) = mul(left, right)

\* Repeated squaring gives the power, and reports an overflow neither too late
\* nor, but for results that are the least integer, too early: no partial
\* product leaves the range while the power itself is inside.
PowExceptMin ==
  right >= 0 =>
    LET p == Power(left, right)
    IN  pow(left, right) = IF Fits(p) /\ p # MinInt THEN Some(p) ELSE None

\* An operation on two literals is folded just when it would give an integer
\* or a truth value at run time, and the folded value is the one it would give:
\* folding never hides an overflow or a division by zero.
FoldExact ==
  LET folded == tryConstantFold(op, Num(left), Num(right))
      result == binaryOp(op, IntVal(left), IntVal(right))
  IN  IF result.ok /\ Tag(result.val) \in {"int", "bool"}
      THEN folded # None /\ literal(result.val) = folded[1]
      ELSE folded = None

=============================================================================
