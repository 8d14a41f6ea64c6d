-------------------------- MODULE CheckedIntProofs --------------------------
(***************************************************************************)
(* The integer arithmetic of util/checked_int.h and the constant folding   *)
(* of vm/compiler_expr.cpp, for every width of word and all operands.      *)
(***************************************************************************)
EXTENDS MCArithmetic, Induction

\* What the range tests compute on the way stays in the word, so the tests
\* have no overflow of their own.
THEOREM RangeTestsFit ==
  ASSUME NEW b \in Word
  PROVE  /\ b > 0 => MaxInt - b \in Word /\ MinInt + b \in Word
         /\ b < 0 => MinInt - b \in Word /\ MaxInt + b \in Word
BY MaxIntAssumption DEF Word, MinInt

\* The quotients they compute are in the word too, the only one that is not being
\* MinInt over -1, which no test asks for.
LEMMA QuotientsFit ==
  ASSUME NEW b \in Word
  PROVE  /\ b # 0 => TruncDiv(MaxInt, b) \in Word
         /\ b > 0 => TruncDiv(MinInt, b) \in Word
BY MaxIntAssumption DEF Word, MinInt, TruncDiv, Magnitude

LEMMA AddTest == ASSUME NEW a \in Word, NEW b \in Word PROVE AddOverflowTest(a, b) <=> ~Fits(a + b)
BY MaxIntAssumption DEF AddOverflowTest, Fits, Word, MinInt

LEMMA SubTest == ASSUME NEW a \in Word, NEW b \in Word PROVE SubOverflowTest(a, b) <=> ~Fits(a - b)
BY MaxIntAssumption DEF SubOverflowTest, Fits, Word, MinInt

LEMMA MulTest == ASSUME NEW a \in Word, NEW b \in Word PROVE MulOverflowTest(a, b) <=> ~Fits(a * b)
BY MaxIntAssumption DEF MulOverflowTest, Fits, Word, MinInt, TruncDiv, Magnitude

\* Addition, subtraction and multiplication by range tests, as built without the
\* compiler's overflow checks, accept the operands that those with them accept,
\* with the same results (checked_int.h:15-45, 103-124).
THEOREM PortableArithmetic == ASSUME left \in Word, right \in Word PROVE PortableAgrees
BY AddTest, SubTest, MulTest
   DEF PortableAgrees, portableAdd, portableSub, portableMul, add, sub, mul, IfFits

-----------------------------------------------------------------------------
(* Powers.                                                                 *)

\* f has the powers of b up to the n-th.
Powers(f, b, n) == f = [i \in 0..n |-> IF i = 0 THEN 1 ELSE b * f[i - 1]]

LEMMA PowersExist == ASSUME NEW b \in Int, NEW n \in Nat PROVE \E f : Powers(f, b, n)
<1> DEFINE S == {m \in Nat : \E f : Powers(f, b, m)}
<1>1. 0 \in S
  <2> DEFINE f == [i \in 0..0 |-> 1]
  <2>1. Powers(f, b, 0)
    BY DEF Powers
  <2>. QED
    BY <2>1
<1>2. ASSUME NEW m \in Nat, m \in S PROVE m + 1 \in S
  <2>1. PICK f : Powers(f, b, m)
    BY <1>2
  <2> DEFINE g == [i \in 0..m + 1 |-> IF i <= m THEN f[i] ELSE b * f[m]]
  <2>2. \A i \in 0..m : f[i] = IF i = 0 THEN 1 ELSE b * f[i - 1]
    BY <2>1 DEF Powers
  <2>3. ASSUME NEW i \in 0..m + 1 PROVE g[i] = IF i = 0 THEN 1 ELSE b * g[i - 1]
    <3>1. CASE i = m + 1
      <4>1. g[i] = b * f[m] /\ i - 1 = m /\ g[m] = f[m] /\ i # 0
        BY <3>1
      <4>. QED
        BY <4>1
    <3>2. CASE i \in 0..m
      <4>1. g[i] = f[i]
        BY <3>2
      <4>2. i # 0 => g[i - 1] = f[i - 1]
        BY <3>2
      <4>. HIDE DEF g
      <4>. QED
        BY <2>2, <3>2, <4>1, <4>2
    <3>. QED
      BY <3>1, <3>2
  <2>4. g = [i \in 0..m + 1 |-> g[i]]
    OBVIOUS
  <2>. HIDE DEF g
  <2>5. Powers(g, b, m + 1)
    BY <2>3, <2>4 DEF Powers
  <2>. QED
    BY <2>5
<1>. HIDE DEF S
<1>3. n \in S
  BY <1>1, <1>2, SetInduction
<1>. QED
  BY <1>3 DEF S

LEMMA PowersFacts ==
  ASSUME NEW b \in Int, NEW n \in Nat, NEW f, Powers(f, b, n)
  PROVE  /\ f[0] = 1
         /\ \A i \in 1..n : f[i] = b * f[i - 1]
         /\ \A i \in 0..n : f[i] \in Int /\ (b # 0 => f[i] # 0)
<1>1. \A i \in 0..n : f[i] = IF i = 0 THEN 1 ELSE b * f[i - 1]
  BY DEF Powers
<1> DEFINE S == {i \in Nat : i <= n => f[i] \in Int /\ (b # 0 => f[i] # 0)}
<1>2. 0 \in S
  BY <1>1
<1>3. ASSUME NEW i \in Nat, i \in S PROVE i + 1 \in S
  <2>1. SUFFICES ASSUME i + 1 <= n PROVE f[i + 1] \in Int /\ (b # 0 => f[i + 1] # 0)
    OBVIOUS
  <2>2. f[i] \in Int /\ (b # 0 => f[i] # 0)
    BY <1>3, <2>1
  <2>3. f[i + 1] = b * f[i]
    <3>1. i + 1 \in 0..n /\ i + 1 # 0 /\ i + 1 - 1 = i
      BY <2>1
    <3>. QED
      BY <1>1, <3>1
  <2>. QED
    BY <2>2, <2>3
<1>. HIDE DEF S
<1>4. \A i \in Nat : i \in S
  BY <1>2, <1>3, SetInduction
<1>. QED
  BY <1>1, <1>4 DEF S

\* A power of the square is an even power.
LEMMA SquarePowers ==
  ASSUME NEW b \in Int, NEW n \in Nat, NEW f, Powers(f, b, n), NEW m \in Nat, 2 * m <= n,
         NEW g, Powers(g, b * b, m)
  PROVE  g[m] = f[2 * m]
<1> DEFINE S == {i \in Nat : i <= m => g[i] = f[2 * i]}
<1>1. b * b \in Int
  OBVIOUS
<1>2. /\ f[0] = 1 /\ \A i \in 1..n : f[i] = b * f[i - 1]
      /\ \A i \in 0..n : f[i] \in Int
  BY PowersFacts
<1>3. /\ g[0] = 1 /\ \A i \in 1..m : g[i] = b * b * g[i - 1]
      /\ \A i \in 0..m : g[i] \in Int
  BY <1>1, PowersFacts
<1>4. 0 \in S
  BY <1>2, <1>3
<1>5. ASSUME NEW i \in Nat, i \in S PROVE i + 1 \in S
  <2>1. SUFFICES ASSUME i + 1 <= m PROVE g[i + 1] = f[2 * (i + 1)]
    OBVIOUS
  <2>2. g[i] = f[2 * i]
    BY <1>5, <2>1
  <2>3. g[i + 1] = b * b * g[i]
    <3>1. i + 1 \in 1..m /\ i + 1 - 1 = i
      BY <2>1
    <3>. QED
      BY <1>3, <3>1
  <2>4. f[2 * i + 1] = b * f[2 * i] /\ f[2 * i + 2] = b * f[2 * i + 1]
    <3>1. /\ 2 * i + 1 \in 1..n /\ 2 * i + 1 - 1 = 2 * i
          /\ 2 * i + 2 \in 1..n /\ 2 * i + 2 - 1 = 2 * i + 1
      BY <2>1
    <3>. QED
      BY <1>2, <3>1
  <2>5. 2 * (i + 1) = 2 * i + 2 /\ f[2 * i] \in Int
    <3>1. 2 * i \in 0..n
      BY <2>1
    <3>. QED
      BY <1>2, <3>1
  <2>6. b * b * f[2 * i] = b * (b * f[2 * i])
    BY <2>5
  <2>. QED
    BY <2>2, <2>3, <2>4, <2>5, <2>6
<1>. HIDE DEF S
<1>6. m \in S
  BY <1>4, <1>5, SetInduction
<1>. QED
  BY <1>6 DEF S

\* mulOverflows asks whether the product is larger than MaxInt on either side of
\* zero: MinInt is no product to it.
LEMMA MulOverflowsExact ==
  ASSUME NEW a \in Word, NEW b \in Word
  PROVE  mulOverflows(a, b) <=> Magnitude(a * b) > MaxInt
<1>1. MaxInt \in Nat /\ MaxInt > 0 /\ a \in Int /\ b \in Int /\ a >= MinInt /\ b >= MinInt
  BY MaxIntAssumption DEF Word, MinInt
<1>2. CASE a = 0 \/ b = 0
  <2>1. a * b = 0
    BY <1>1, <1>2
  <2>. QED
    BY <1>1, <1>2, <2>1 DEF mulOverflows, Magnitude
<1>3. CASE a # 0 /\ b # 0
  <2> DEFINE m == Magnitude(a)
             k == Magnitude(b)
  <2>1. m \in Nat \ {0} /\ k \in Nat \ {0} /\ Magnitude(a * b) = m * k
    BY <1>1, <1>3 DEF Magnitude
  <2>2. (a = MinInt => m = MaxInt + 1) /\ (b = MinInt => k = MaxInt + 1)
    BY <1>1 DEF Magnitude, MinInt
  <2>3. mulOverflows(a, b) <=> a = MinInt \/ b = MinInt \/ m > MaxInt \div k
    BY <1>3 DEF mulOverflows
  <2>. HIDE DEF m, k
  <2>4. m > MaxInt \div k <=> m * k > MaxInt
    BY <1>1, <2>1
  <2>5. (m = MaxInt + 1 => m * k > MaxInt) /\ (k = MaxInt + 1 => m * k > MaxInt)
    BY <1>1, <2>1
  <2>. QED
    BY <2>1, <2>2, <2>3, <2>4, <2>5
<1>. QED
  BY <1>2, <1>3

LEMMA MagnitudeGrows ==
  ASSUME NEW a \in Int, NEW c \in Int, c # 0
  PROVE  Magnitude(a * c) \in Nat /\ Magnitude(a) \in Nat /\ Magnitude(a * c) >= Magnitude(a)
BY DEF Magnitude

\* A state of the loop, of which so many turns at most are left: result times the
\* power that is left is the power, or the power is too large.
Good(s, target, turns) ==
  \/ s.over = TRUE /\ Magnitude(target) > MaxInt
  \/ \E r \in Int, b \in Word, e \in 0..turns :
       /\ s = [result |-> r, base |-> b, exp |-> e, over |-> FALSE]
       /\ Magnitude(r) <= MaxInt
       /\ r # 0 \/ b = 0
       /\ \A f : Powers(f, b, e) => r * f[e] = target

LEMMA TurnGood ==
  ASSUME NEW target \in Int, NEW turns \in Nat, NEW s, Good(s, target, turns + 1)
  PROVE  Good(powTurn(s), target, turns)
<1>1. CASE s.over = TRUE /\ Magnitude(target) > MaxInt
  <2>1. powTurn(s) = s
    BY <1>1 DEF powTurn
  <2>. QED
    BY <1>1, <2>1 DEF Good
<1>2. CASE ~(s.over = TRUE /\ Magnitude(target) > MaxInt)
  <2>1. PICK r \in Int, b \in Word, e \in 0..turns + 1 :
          /\ s = [result |-> r, base |-> b, exp |-> e, over |-> FALSE]
          /\ Magnitude(r) <= MaxInt
          /\ r # 0 \/ b = 0
          /\ \A f : Powers(f, b, e) => r * f[e] = target
    BY <1>2 DEF Good
  <2>2. b \in Int /\ MaxInt \in Nat /\ r \in Word
    BY <2>1, MaxIntAssumption DEF Word, MinInt, Magnitude
  <2>3. CASE e = 0
    <3>1. powTurn(s) = s /\ e \in 0..turns
      BY <2>1, <2>3 DEF powTurn
    <3>. QED
      BY <2>1, <3>1 DEF Good
  <2>4. CASE e # 0
    <3> DEFINE odd  == e % 2 = 1
               rest == e \div 2
               over == (odd /\ mulOverflows(r, b)) \/ (rest > 0 /\ mulOverflows(b, b))
    <3>1. /\ e \in Nat /\ e > 0 /\ rest \in 0..turns
          /\ e = 2 * rest + (IF odd THEN 1 ELSE 0)
      BY <2>4
    <3>2. PICK f : Powers(f, b, e)
      BY <2>2, <3>1, PowersExist
    <3>3. /\ f[0] = 1 /\ \A i \in 1..e : f[i] = b * f[i - 1]
          /\ \A i \in 0..e : f[i] \in Int /\ (b # 0 => f[i] # 0)
      BY <2>2, <3>1, <3>2, PowersFacts
    <3>4. target = r * f[e]
      BY <2>1, <3>2
    <3>5. f[e] = b * f[e - 1] /\ f[e - 1] \in Int /\ (b # 0 => f[e - 1] # 0)
      <4>1. e \in 1..e /\ e - 1 \in 0..e
        BY <3>1
      <4>. QED
        BY <3>3, <4>1
    <3>6. powTurn(s) = IF over THEN [s EXCEPT !.over = TRUE]
                       ELSE [result |-> IF odd THEN r * b ELSE r, base |-> IF rest > 0 THEN b * b ELSE b,
                             exp |-> rest, over |-> FALSE]
      BY <2>1, <2>4 DEF powTurn
    <3>. HIDE DEF odd, rest
    <3>7. CASE over
      <4>1. powTurn(s).over = TRUE
        BY <2>1, <3>6, <3>7
      <4>2. CASE odd /\ mulOverflows(r, b)
        <5>1. Magnitude(r * b) > MaxInt
          BY <2>2, <4>2, MulOverflowsExact
        <5>2. b # 0
          BY <2>2, <5>1 DEF Magnitude
        <5>3. target = (r * b) * f[e - 1]
          BY <2>2, <3>4, <3>5
        <5>4. Magnitude(target) >= Magnitude(r * b) /\ Magnitude(target) \in Nat /\ Magnitude(r * b) \in Nat
          <6>1. r * b \in Int /\ f[e - 1] \in Int /\ f[e - 1] # 0
            BY <2>2, <3>5, <5>2
          <6>. QED
            BY <5>3, <6>1, MagnitudeGrows
        <5>. QED
          BY <2>2, <4>1, <5>1, <5>4 DEF Good
      <4>3. CASE rest > 0 /\ mulOverflows(b, b)
        <5>1. Magnitude(b * b) > MaxInt
          BY <2>2, <4>3, MulOverflowsExact
        <5>2. b # 0 /\ r # 0
          BY <2>1, <2>2, <5>1 DEF Magnitude
        <5>3. f[e - 1] = b * f[e - 2] /\ f[e - 2] \in Int /\ f[e - 2] # 0
          <6>1. e - 1 \in 1..e /\ e - 2 \in 0..e /\ e - 1 - 1 = e - 2
            BY <3>1, <4>3
          <6>. QED
            BY <3>3, <5>2, <6>1
        <5>4. target = (b * b) * (r * f[e - 2]) /\ r * f[e - 2] \in Int /\ r * f[e - 2] # 0
          <6>1. target = r * (b * (b * f[e - 2]))
            BY <3>4, <3>5, <5>3
          <6>. HIDE DEF rest
          <6>2. \A x \in Int : r * (b * (b * x)) = (b * b) * (r * x) /\ r * x \in Int /\ (x # 0 => r * x # 0)
            BY <2>2, <5>2
          <6>. QED
            BY <5>3, <6>1, <6>2
        <5>5. b * b \in Int
          BY <2>2
        <5>6. /\ Magnitude(target) >= Magnitude(b * b) /\ Magnitude(target) \in Nat /\ Magnitude(b * b) \in Nat
          BY <5>4, <5>5, MagnitudeGrows
        <5>. QED
          BY <2>2, <4>1, <5>1, <5>6 DEF Good
      <4>. QED
        BY <3>7, <4>2, <4>3
    <3>8. CASE ~over
      <4> DEFINE r2 == IF odd THEN r * b ELSE r
                 b2 == IF rest > 0 THEN b * b ELSE b
      <4>1. powTurn(s) = [result |-> r2, base |-> b2, exp |-> rest, over |-> FALSE]
        BY <3>6, <3>8
      <4>2. r2 \in Int /\ Magnitude(r2) <= MaxInt /\ (r2 # 0 \/ b = 0)
        <5>1. CASE odd
          <6>1. ~(Magnitude(r * b) > MaxInt) /\ r * b \in Int
            BY <2>2, <3>8, <5>1, MulOverflowsExact
          <6>2. Magnitude(r * b) \in Nat
            BY <6>1 DEF Magnitude
          <6>3. r # 0 /\ b # 0 => r * b # 0
            BY <2>2
          <6>. QED
            BY <2>1, <2>2, <5>1, <6>1, <6>2, <6>3
        <5>2. CASE ~odd
          BY <2>1, <2>2, <5>2
        <5>. QED
          BY <5>1, <5>2
      <4>3. b2 \in Word /\ (b = 0 => b2 = 0)
        <5>1. CASE rest > 0
          <6>1. ~(Magnitude(b * b) > MaxInt) /\ b * b \in Int
            BY <2>2, <3>8, <5>1, MulOverflowsExact
          <6>2. b * b \in Word
            BY <2>2, <6>1 DEF Word, MinInt, Magnitude
          <6>. QED
            BY <5>1, <6>2
        <5>2. CASE ~(rest > 0)
          BY <5>2
        <5>. QED
          BY <5>1, <5>2
      <4>4. ASSUME NEW g, Powers(g, b2, rest) PROVE r2 * g[rest] = target
        <5>1. g[rest] = f[2 * rest]
          <6>1. CASE rest > 0
            <7>1. Powers(g, b * b, rest) /\ rest \in Nat /\ 2 * rest <= e
              BY <3>1, <4>4, <6>1
            <7>. QED
              BY <2>2, <3>1, <3>2, <7>1, SquarePowers
          <6>2. CASE ~(rest > 0)
            <7>1. rest = 0 /\ 2 * rest = 0
              BY <3>1, <6>2
            <7>2. g[0] = 1
              BY <2>2, <4>4, <6>2, <7>1, PowersFacts
            <7>. QED
              BY <3>3, <7>1, <7>2
          <6>. QED
            BY <6>1, <6>2
        <5>2. CASE odd
          <6>1. 2 * rest = e - 1
            BY <3>1, <5>2
          <6>2. target = r * (b * f[e - 1]) /\ g[rest] = f[e - 1] /\ r2 = r * b
            BY <3>4, <3>5, <5>1, <5>2, <6>1
          <6>3. r * (b * f[e - 1]) = (r * b) * f[e - 1]
            BY <2>2, <3>5
          <6>. QED
            BY <6>2, <6>3
        <5>3. CASE ~odd
          <6>1. 2 * rest = e
            BY <3>1, <5>3
          <6>. QED
            BY <3>4, <5>1, <5>3, <6>1
        <5>. QED
          BY <5>2, <5>3
      <4>. HIDE DEF r2, b2
      <4>5. r2 # 0 \/ b2 = 0
        BY <4>2, <4>3
      <4>. QED
        BY <3>1, <4>1, <4>2, <4>3, <4>4, <4>5 DEF Good
    <3>. QED
      BY <3>7, <3>8
  <2>. QED
    BY <2>3, <2>4
<1>. QED
  BY <1>1, <1>2

-----------------------------------------------------------------------------
(* The loop from its start to its end.                                     *)

Begins(base, exp) == [result |-> 1, base |-> base, exp |-> exp, over |-> FALSE]

\* f is what the first n turns make of the state.
Turns(f, base, exp, n) == f = [i \in 0..n |-> IF i = 0 THEN Begins(base, exp) ELSE powTurn(f[i - 1])]
AfterTurns(base, exp)  == CHOOSE f : Turns(f, base, exp, exp)

LEMMA TurnsExist == ASSUME NEW base, NEW exp, NEW n \in Nat PROVE \E f : Turns(f, base, exp, n)
<1> DEFINE S == {m \in Nat : \E f : Turns(f, base, exp, m)}
<1>1. 0 \in S
  <2> DEFINE f == [i \in 0..0 |-> Begins(base, exp)]
  <2>1. Turns(f, base, exp, 0)
    BY DEF Turns
  <2>. QED
    BY <2>1
<1>2. ASSUME NEW m \in Nat, m \in S PROVE m + 1 \in S
  <2>1. PICK f : Turns(f, base, exp, m)
    BY <1>2
  <2> DEFINE g == [i \in 0..m + 1 |-> IF i <= m THEN f[i] ELSE powTurn(f[m])]
  <2>2. \A i \in 0..m : f[i] = IF i = 0 THEN Begins(base, exp) ELSE powTurn(f[i - 1])
    BY <2>1 DEF Turns
  <2>3. ASSUME NEW i \in 0..m + 1 PROVE g[i] = IF i = 0 THEN Begins(base, exp) ELSE powTurn(g[i - 1])
    <3>1. CASE i = m + 1
      <4>1. g[i] = powTurn(f[m]) /\ i - 1 = m /\ g[m] = f[m] /\ i # 0
        BY <3>1
      <4>. QED
        BY <4>1
    <3>2. CASE i \in 0..m
      <4>1. g[i] = f[i]
        BY <3>2
      <4>2. i # 0 => g[i - 1] = f[i - 1]
        BY <3>2
      <4>. HIDE DEF g
      <4>. QED
        BY <2>2, <3>2, <4>1, <4>2
    <3>. QED
      BY <3>1, <3>2
  <2>4. g = [i \in 0..m + 1 |-> g[i]]
    OBVIOUS
  <2>. HIDE DEF g
  <2>5. Turns(g, base, exp, m + 1)
    BY <2>3, <2>4 DEF Turns
  <2>. QED
    BY <2>5
<1>. HIDE DEF S
<1>3. n \in S
  BY <1>1, <1>2, SetInduction
<1>. QED
  BY <1>3 DEF S

\* The power, or None when it is larger than MaxInt on either side of zero.
LEMMA PowExact ==
  ASSUME NEW base \in Word, NEW exp \in Nat, NEW f, Powers(f, base, exp)
  PROVE  pow(base, exp) = IF Magnitude(f[exp]) <= MaxInt THEN Some(f[exp]) ELSE None
<1> DEFINE target == f[exp]
           after  == AfterTurns(base, exp)
           S      == {i \in Nat : i <= exp => Good(after[i], target, exp - i)}
<1>1. base \in Int /\ MaxInt \in Nat /\ MaxInt > 0
  BY MaxIntAssumption DEF Word, MinInt
<1>2. target \in Int
  BY <1>1, PowersFacts
<1>3. pow(base, exp) = IF after[exp].over THEN None ELSE Some(after[exp].result)
  BY DEF pow, AfterTurns, Turns, Begins
<1>4. \A i \in 0..exp : after[i] = IF i = 0 THEN Begins(base, exp) ELSE powTurn(after[i - 1])
  <2>1. Turns(after, base, exp, exp)
    BY TurnsExist DEF AfterTurns
  <2>. HIDE DEF after
  <2>. QED
    BY <2>1 DEF Turns
<1>. HIDE DEF after
<1>5. 0 \in S
  <2>1. after[0] = Begins(base, exp) /\ exp - 0 = exp
    BY <1>4
  <2>2. \A g : Powers(g, base, exp) => g = f
    <3>1. TAKE g
    <3>2. SUFFICES ASSUME Powers(g, base, exp) PROVE g = f
      OBVIOUS
    <3> DEFINE Same == {i \in Nat : i <= exp => g[i] = f[i]}
    <3>3. /\ f[0] = 1 /\ \A i \in 1..exp : f[i] = base * f[i - 1]
          /\ g[0] = 1 /\ \A i \in 1..exp : g[i] = base * g[i - 1]
      BY <1>1, <3>2, PowersFacts
    <3>4. 0 \in Same
      BY <3>3
    <3>5. ASSUME NEW i \in Nat, i \in Same PROVE i + 1 \in Same
      <4>1. i + 1 <= exp => i + 1 \in 1..exp /\ i + 1 - 1 = i /\ i <= exp
        OBVIOUS
      <4>. QED
        BY <3>3, <3>5, <4>1
    <3>. HIDE DEF Same
    <3>6. \A i \in Nat : i \in Same
      BY <3>4, <3>5, SetInduction
    <3>7. \A i \in 0..exp : g[i] = f[i]
      BY <3>6 DEF Same
    <3>8. DOMAIN g = 0..exp /\ DOMAIN f = 0..exp /\ g = [i \in 0..exp |-> g[i]] /\ f = [i \in 0..exp |-> f[i]]
      BY <3>2 DEF Powers
    <3>. QED
      BY <3>7, <3>8
  <2>3. \A g : Powers(g, base, exp) => 1 * g[exp] = target
    BY <1>2, <2>2
  <2>4. 1 \in Int /\ Magnitude(1) <= MaxInt /\ exp \in 0..exp
    BY <1>1 DEF Magnitude
  <2>. HIDE DEF target
  <2>5. Good(Begins(base, exp), target, exp)
    <3>1. \E r \in Int, b \in Word, e \in 0..exp :
            /\ Begins(base, exp) = [result |-> r, base |-> b, exp |-> e, over |-> FALSE]
            /\ Magnitude(r) <= MaxInt
            /\ r # 0 \/ b = 0
            /\ \A g : Powers(g, b, e) => r * g[e] = target
      <4>1. WITNESS 1 \in Int, base \in Word, exp \in 0..exp
      <4>. QED
        BY <2>3, <2>4 DEF Begins
    <3>. QED
      BY <3>1 DEF Good
  <2>. QED
    BY <2>1, <2>5
<1>6. ASSUME NEW i \in Nat, i \in S PROVE i + 1 \in S
  <2>1. SUFFICES ASSUME i + 1 <= exp PROVE Good(after[i + 1], target, exp - (i + 1))
    OBVIOUS
  <2>2. Good(after[i], target, exp - i)
    BY <1>6, <2>1
  <2>3. after[i + 1] = powTurn(after[i])
    <3>1. i + 1 \in 0..exp /\ i + 1 # 0 /\ i + 1 - 1 = i
      BY <2>1
    <3>. QED
      BY <1>4, <3>1
  <2>4. exp - (i + 1) \in Nat /\ exp - i = exp - (i + 1) + 1
    BY <2>1
  <2>. HIDE DEF target
  <2>5. Good(after[i], target, exp - (i + 1) + 1)
    BY <2>2, <2>4
  <2>. QED
    BY <1>2, <2>3, <2>4, <2>5, TurnGood
<1>. HIDE DEF S
<1>7. Good(after[exp], target, 0)
  <2>1. exp \in S
    BY <1>5, <1>6, SetInduction
  <2>2. exp - exp = 0
    OBVIOUS
  <2>. QED
    BY <2>1, <2>2 DEF S
<1>. HIDE DEF target
<1>8. CASE after[exp].over = TRUE /\ Magnitude(target) > MaxInt
  BY <1>1, <1>2, <1>3, <1>8 DEF Magnitude, target
<1>9. CASE ~(after[exp].over = TRUE /\ Magnitude(target) > MaxInt)
  <2>1. PICK r \in Int, b \in Word, e \in 0..0 :
          /\ after[exp] = [result |-> r, base |-> b, exp |-> e, over |-> FALSE]
          /\ Magnitude(r) <= MaxInt
          /\ \A g : Powers(g, b, e) => r * g[e] = target
    BY <1>7, <1>9 DEF Good
  <2>2. e = 0 /\ b \in Int
    BY <1>1 DEF Word, MinInt
  <2>3. PICK g : Powers(g, b, e)
    BY <2>2, PowersExist
  <2>4. g[e] = 1
    BY <2>2, <2>3, PowersFacts
  <2>5. r = target
    BY <2>1, <2>3, <2>4
  <2>. QED
    BY <1>3, <2>1, <2>5 DEF target
<1>. QED
  BY <1>8, <1>9

-----------------------------------------------------------------------------
(* Power, which stops at the first power that is out of the word.          *)

Stepped(b, p)     == IF Magnitude(p) > MaxInt + 1 THEN p ELSE b * p
Cuts(f, b, n)   == f = [i \in 0..n |-> IF i = 0 THEN 1 ELSE Stepped(b, f[i - 1])]
CutPowers(b, n) == CHOOSE f : Cuts(f, b, n)

LEMMA CutPowersExist == ASSUME NEW b, NEW n \in Nat PROVE \E f : Cuts(f, b, n)
<1> DEFINE S == {m \in Nat : \E f : Cuts(f, b, m)}
<1>1. 0 \in S
  <2> DEFINE f == [i \in 0..0 |-> 1]
  <2>1. Cuts(f, b, 0)
    BY DEF Cuts
  <2>. QED
    BY <2>1
<1>2. ASSUME NEW m \in Nat, m \in S PROVE m + 1 \in S
  <2>1. PICK f : Cuts(f, b, m)
    BY <1>2
  <2> DEFINE g == [i \in 0..m + 1 |-> IF i <= m THEN f[i] ELSE Stepped(b, f[m])]
  <2>2. \A i \in 0..m : f[i] = IF i = 0 THEN 1 ELSE Stepped(b, f[i - 1])
    BY <2>1 DEF Cuts
  <2>3. ASSUME NEW i \in 0..m + 1 PROVE g[i] = IF i = 0 THEN 1 ELSE Stepped(b, g[i - 1])
    <3>1. CASE i = m + 1
      <4>1. g[i] = Stepped(b, f[m]) /\ i - 1 = m /\ g[m] = f[m] /\ i # 0
        BY <3>1
      <4>. QED
        BY <4>1
    <3>2. CASE i \in 0..m
      <4>1. g[i] = f[i]
        BY <3>2
      <4>2. i # 0 => g[i - 1] = f[i - 1]
        BY <3>2
      <4>. HIDE DEF g
      <4>. QED
        BY <2>2, <3>2, <4>1, <4>2
    <3>. QED
      BY <3>1, <3>2
  <2>4. g = [i \in 0..m + 1 |-> g[i]]
    OBVIOUS
  <2>. HIDE DEF g
  <2>5. Cuts(g, b, m + 1)
    BY <2>3, <2>4 DEF Cuts
  <2>. QED
    BY <2>5
<1>. HIDE DEF S
<1>3. n \in S
  BY <1>1, <1>2, SetInduction
<1>. QED
  BY <1>3 DEF S

\* It is the power as long as that is in the word, and both leave the word.
LEMMA PowerFacts ==
  ASSUME NEW b \in Int, NEW n \in Nat, NEW f, Powers(f, b, n)
  PROVE  \/ Power(b, n) = f[n]
         \/ Power(b, n) \in Int /\ Magnitude(Power(b, n)) > MaxInt + 1 /\ Magnitude(f[n]) > MaxInt + 1
<1> DEFINE p     == CutPowers(b, n)
           Outside(x) == x \in Int /\ Magnitude(x) > MaxInt + 1
           S     == {i \in Nat : i <= n => p[i] = f[i] \/ (Outside(p[i]) /\ Outside(f[i]))}
<1>1. Power(b, n) = p[n]
  BY DEF Power, CutPowers, Cuts, Stepped
<1>2. \A i \in 0..n : p[i] = IF i = 0 THEN 1 ELSE Stepped(b, p[i - 1])
  <2>1. Cuts(p, b, n)
    BY CutPowersExist DEF CutPowers
  <2>. HIDE DEF p
  <2>. QED
    BY <2>1 DEF Cuts
<1>. HIDE DEF p
<1>3. /\ f[0] = 1 /\ \A i \in 1..n : f[i] = b * f[i - 1]
      /\ \A i \in 0..n : f[i] \in Int /\ (b # 0 => f[i] # 0)
  BY PowersFacts
<1>4. 0 \in S
  BY <1>2, <1>3
<1>5. ASSUME NEW i \in Nat, i \in S PROVE i + 1 \in S
  <2>1. SUFFICES ASSUME i + 1 <= n PROVE p[i + 1] = f[i + 1] \/ (Outside(p[i + 1]) /\ Outside(f[i + 1]))
    OBVIOUS
  <2>2. p[i] = f[i] \/ (Outside(p[i]) /\ Outside(f[i]))
    BY <1>5, <2>1
  <2>3. p[i + 1] = Stepped(b, p[i]) /\ f[i + 1] = b * f[i] /\ f[i] \in Int
    <3>1. i + 1 \in 0..n /\ i + 1 \in 1..n /\ i + 1 # 0 /\ i + 1 - 1 = i /\ i \in 0..n
      BY <2>1
    <3>. QED
      BY <1>2, <1>3, <3>1
  <2>4. CASE p[i] = f[i] /\ ~Outside(f[i])
    BY <2>3, <2>4 DEF Stepped
  <2>5. CASE Outside(p[i]) /\ Outside(f[i])
    <3>1. b # 0
      <4>1. SUFFICES ASSUME b = 0 PROVE FALSE
        OBVIOUS
      <4>2. i = 0 => f[i] = 1
        BY <1>3
      <4>3. i # 0 => f[i] = 0
        <5>1. SUFFICES ASSUME i # 0 PROVE f[i] = 0
          OBVIOUS
        <5>2. i \in 1..n /\ i - 1 \in 0..n
          BY <2>1, <5>1
        <5>3. f[i] = b * f[i - 1] /\ f[i - 1] \in Int
          BY <1>3, <5>2
        <5>. QED
          BY <4>1, <5>3
      <4>. QED
        BY <2>5, <4>2, <4>3, MaxIntAssumption DEF Magnitude
    <3>2. f[i + 1] = f[i] * b /\ f[i] * b \in Int
      BY <2>3
    <3>3. Magnitude(f[i] * b) >= Magnitude(f[i]) /\ Magnitude(f[i] * b) \in Nat /\ Magnitude(f[i]) \in Nat
      BY <2>3, <3>1, MagnitudeGrows
    <3>4. Outside(f[i + 1])
      BY <2>5, <3>2, <3>3, MaxIntAssumption
    <3>. QED
      BY <2>3, <2>5, <3>4 DEF Stepped
  <2>. QED
    BY <2>2, <2>4, <2>5
<1>. HIDE DEF S
<1>6. n \in S
  BY <1>4, <1>5, SetInduction
<1>. QED
  BY <1>1, <1>6 DEF S

\* Repeated squaring gives the power whenever that is between -MaxInt and MaxInt,
\* and None whenever it is not: no partial product leaves the word before the
\* power itself does (checked_int.h:126-147).
THEOREM PowIsExact == ASSUME left \in Word, right \in Word PROVE PowExceptMin
<1>1. SUFFICES ASSUME right >= 0
               PROVE  pow(left, right) = IF Fits(Power(left, right)) /\ Power(left, right) # MinInt
                                         THEN Some(Power(left, right)) ELSE None
  BY DEF PowExceptMin
<1>2. left \in Int /\ right \in Nat /\ MaxInt \in Nat
  BY <1>1, MaxIntAssumption DEF Word, MinInt
<1>3. PICK f : Powers(f, left, right)
  BY <1>2, PowersExist
<1>4. f[right] \in Int
  BY <1>2, <1>3, PowersFacts
<1>5. pow(left, right) = IF Magnitude(f[right]) <= MaxInt THEN Some(f[right]) ELSE None
  BY <1>2, <1>3, PowExact
<1>6. \A x \in Int : Fits(x) /\ x # MinInt <=> Magnitude(x) <= MaxInt
  BY <1>2 DEF Fits, MinInt, Magnitude
<1>7. CASE Power(left, right) = f[right]
  BY <1>4, <1>5, <1>6, <1>7
<1>8. CASE /\ Power(left, right) \in Int /\ Magnitude(Power(left, right)) > MaxInt + 1
           /\ Magnitude(f[right]) > MaxInt + 1
  <2>1. \A x \in Int : Magnitude(x) \in Int
    BY DEF Magnitude
  <2>2. ~(Magnitude(f[right]) <= MaxInt) /\ ~(Magnitude(Power(left, right)) <= MaxInt)
    BY <1>2, <1>4, <1>8, <2>1
  <2>. QED
    BY <1>5, <1>6, <1>8, <2>2
<1>. QED
  BY <1>2, <1>3, <1>7, <1>8, PowerFacts

-----------------------------------------------------------------------------
(* Constant folding.                                                       *)

LEMMA ValueFacts ==
  /\ \A n : IntVal(n) # Null /\ Tag(IntVal(n)) = "int" /\ IntVal(n)[2] = n
  /\ \A b : Bool(b) # Null /\ Tag(Bool(b)) = "bool" /\ Bool(b)[2] = b
  /\ \A x : Tag(Float(x)) = "float"
  /\ \A x : Some(x) # None /\ Some(x)[1] = x
BY DEF IntVal, Null, Tag, Bool, Float, Some, None

\* What is computed of two integers, at compile time and at run time: the same
\* integer, or at compile time none where at run time there is none either.
LEMMA FoldAgrees ==
  ASSUME NEW o \in Arithmetic, NEW l \in Word, NEW r \in Word
  PROVE  \/ ~FoldOverflows(o, l, r) /\ IntArithmetic(o, l, r) = Ok(IntVal(FoldedInt(o, l, r)))
         \/ /\ FoldOverflows(o, l, r)
            /\ (\E m : IntArithmetic(o, l, r) = Throws(m)) \/ (\E x : IntArithmetic(o, l, r) = Ok(Float(x)))
<1>1. CASE o = "ADD"
  BY <1>1, AddTest, ValueFacts DEF FoldOverflows, FoldedInt, IntArithmetic, IfSome, add, IfFits
<1>2. CASE o = "SUB"
  BY <1>2, SubTest, ValueFacts DEF FoldOverflows, FoldedInt, IntArithmetic, IfSome, sub, IfFits
<1>3. CASE o = "MUL"
  BY <1>3, MulTest, ValueFacts DEF FoldOverflows, FoldedInt, IntArithmetic, IfSome, mul, IfFits
<1>4. CASE o = "DIV"
  BY <1>4, ValueFacts DEF FoldOverflows, FoldedInt, IntArithmetic, IfSome
<1>5. CASE o = "MOD"
  BY <1>5, ValueFacts DEF FoldOverflows, FoldedInt, IntArithmetic
<1>6. CASE o = "POW"
  <2>1. r < 0 <=> ~(r >= 0)
    BY MaxIntAssumption DEF Word, MinInt
  <2>. QED
    BY <1>6, <2>1, ValueFacts DEF FoldOverflows, FoldedInt, IntArithmetic
<1>. QED
  BY <1>1, <1>2, <1>3, <1>4, <1>5, <1>6 DEF Arithmetic

\* What the compiler makes of two integer literals is the constant that the
\* operation would give when it runs, and it makes nothing of them just when the
\* operation would throw or leave the integers (compiler_expr.cpp:210-369).
THEOREM FoldingIsExact == ASSUME op \in Foldable, left \in Word, right \in Word PROVE FoldExact
<1> DEFINE folded == tryConstantFold(op, Num(left), Num(right))
           result == binaryOp(op, IntVal(left), IntVal(right))
<1>1. /\ Num(left).node = "Literal" /\ Num(right).node = "Literal"
      /\ Num(left).value = IntVal(left) /\ Num(right).value = IntVal(right)
  BY DEF Num, Lit
<1>2. \A n : IsInt(IntVal(n))
  BY ValueFacts DEF IsInt
<1>3. \A v : Ok(v).ok = TRUE /\ Ok(v).val = v
  BY DEF Ok
<1>4. \A m : Throws(m).ok = FALSE
  BY DEF Throws
<1>5. CASE op \in Comparisons
  <2> DEFINE holds == Comparison(op, left, right)
  <2>1. folded = Some(Op(IF holds THEN "TRUE" ELSE "FALSE"))
    BY <1>1, <1>2, <1>5, ValueFacts DEF tryConstantFold
  <2>2. result = Ok(Bool(holds))
    BY <1>5, ValueFacts DEF binaryOp
  <2>3. literal(Bool(holds)) = Op(IF holds THEN "TRUE" ELSE "FALSE")
    BY ValueFacts DEF literal
  <2>. HIDE DEF folded, result, holds
  <2>. QED
    BY <1>3, <2>1, <2>2, <2>3, ValueFacts DEF FoldExact, folded, result
<1>6. CASE op \in Arithmetic
  <2>1. op \notin Comparisons
    BY <1>6 DEF Comparisons, Arithmetic
  <2>2. folded = IF FoldOverflows(op, left, right) THEN None
                 ELSE Some(I("CONSTANT", IntVal(FoldedInt(op, left, right))))
    BY <1>1, <1>2, <1>6, <2>1, ValueFacts DEF tryConstantFold
  <2>3. result = IntArithmetic(op, left, right)
    BY <1>6, <2>1, ValueFacts DEF binaryOp
  <2>4. \A n : literal(IntVal(n)) = I("CONSTANT", IntVal(n))
    BY ValueFacts DEF literal
  <2>. HIDE DEF folded, result
  <2>5. CASE ~FoldOverflows(op, left, right) /\ result = Ok(IntVal(FoldedInt(op, left, right)))
    BY <1>3, <2>2, <2>4, <2>5, ValueFacts DEF FoldExact, folded, result
  <2>6. CASE FoldOverflows(op, left, right) /\ ~(result.ok /\ Tag(result.val) \in {"int", "bool"})
    BY <2>2, <2>6, ValueFacts DEF FoldExact, folded, result
  <2>. QED
    BY <1>3, <1>4, <1>6, <2>3, <2>5, <2>6, FoldAgrees, ValueFacts
<1>. QED
  BY <1>5, <1>6 DEF Foldable

=============================================================================
