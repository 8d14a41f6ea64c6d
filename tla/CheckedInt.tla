----------------------------- MODULE CheckedInt -----------------------------
(***************************************************************************)
(* util/checked_int.h: the integer arithmetic both back ends share.        *)
(* `long long` is a two's complement integer up to MaxInt (2^63 - 1 in the *)
(* program); std::optional is the empty or one-element sequence.           *)
(* Results are mathematical integers, so an undetected overflow shows as a *)
(* value outside Word.                                                     *)
(***************************************************************************)
EXTENDS Integers, Sequences

CONSTANT MaxInt          \* std::numeric_limits<long long>::max()

\* A `long long` has at least one value bit.
ASSUME MaxIntAssumption == MaxInt \in Nat \ {0}

MinInt == -MaxInt - 1
Word   == MinInt..MaxInt

None    == << >>
Some(v) == <<v>>

Fits(n)    == MinInt <= n /\ n <= MaxInt
IfFits(n)  == IF Fits(n) THEN Some(n) ELSE None
Magnitude(n) == IF n < 0 THEN -n ELSE n

\* C++ division rounds toward zero; \div rounds toward minus infinity.
TruncDiv(a, b) == LET q == Magnitude(a) \div Magnitude(b)
                  IN  IF (a < 0) = (b < 0) THEN q ELSE -q

\* GCC and Clang: __builtin_*_overflow tells whether the exact result fits.
add(a, b) == IfFits(a + b)
sub(a, b) == IfFits(a - b)
mul(a, b) == IfFits(a * b)

\* The branch for compilers without the builtins: range tests that must not
\* themselves leave the range.
AddOverflowTest(a, b) == \/ b > 0 /\ a > MaxInt - b
                         \/ b < 0 /\ a < MinInt - b
\* A wrong variant of SubOverflowTest: off by one.
SubOverflowTestEarly(a, b) == \/ b < 0 /\ a >= MaxInt + b
                              \/ b > 0 /\ a <= MinInt + b

SubOverflowTest(a, b) == \/ b < 0 /\ a > MaxInt + b
                         \/ b > 0 /\ a < MinInt + b
MulOverflowTest(a, b) ==
  \/ a > 0 /\ b > 0 /\ a > TruncDiv(MaxInt, b)
  \/ a > 0 /\ b <= 0 /\ b < TruncDiv(MinInt, a)
  \/ a < 0 /\ b > 0 /\ a < TruncDiv(MinInt, b)
  \/ a < 0 /\ b < 0 /\ a < TruncDiv(MaxInt, b)

portableAdd(a, b) == IF AddOverflowTest(a, b) THEN None ELSE Some(a + b)
portableSub(a, b) == IF SubOverflowTest(a, b) THEN None ELSE Some(a - b)
portableMul(a, b) == IF MulOverflowTest(a, b) THEN None ELSE Some(a * b)

neg(a) == IF a = MinInt THEN None ELSE Some(-a)

div(a, b) == IF a = MinInt /\ b = -1 THEN None ELSE Some(TruncDiv(a, b))

mod(a, b) == IF b = -1 THEN 0 ELSE a - b * TruncDiv(a, b)

\* A wrong variant of mulOverflows: off by one.
mulOverflowsEarly(a, b) ==
  /\ a # 0 /\ b # 0
  /\ \/ a = MinInt \/ b = MinInt
     \/ Magnitude(a) >= MaxInt \div Magnitude(b)

mulOverflows(a, b) ==
  /\ a # 0 /\ b # 0
  /\ \/ a = MinInt \/ b = MinInt
     \/ Magnitude(a) > MaxInt \div Magnitude(b)

(***************************************************************************)
(* pow squares the base once per remaining bit of the exponent.  A turn of *)
(* its loop leaves a state that is done as it is.                          *)
(***************************************************************************)
powTurn(s) ==
  LET odd  == s.exp % 2 = 1
      rest == s.exp \div 2
      over == (odd /\ mulOverflows(s.result, s.base)) \/ (rest > 0 /\ mulOverflows(s.base, s.base))
  IN  IF s.over \/ s.exp = 0 THEN s
      ELSE IF over THEN [s EXCEPT !.over = TRUE]
      ELSE [result |-> IF odd THEN s.result * s.base ELSE s.result,
            base   |-> IF rest > 0 THEN s.base * s.base ELSE s.base,
            exp    |-> rest,
            over   |-> FALSE]

pow(base, exp) ==
  LET start == [result |-> 1, base |-> base, exp |-> exp, over |-> FALSE]
      After[i \in 0..exp] == IF i = 0 THEN start ELSE powTurn(After[i - 1])
  IN  IF After[exp].over THEN None ELSE Some(After[exp].result)

=============================================================================
