--------------------------- MODULE PlaygroundProofs ---------------------------
(***************************************************************************)
(* The page of the playground, for every set of texts, every parser and    *)
(* every back end: whatever is executed, the lexer is left as deep in a    *)
(* block as the lines of the texts say, a text with code covers what the   *)
(* texts before it left, and therefore the page keeps its promise.         *)
(*                                                                         *)
(* Tokenize is a recursive function of the lines, and what Leaves says of  *)
(* a text is a minimum over its last lines.  By induction on the lines the *)
(* lexer's indent is that minimum from the last line with code on.         *)
(***************************************************************************)
EXTENDS Playground, SequenceTheorems, Induction

Begin(indent) == [indent |-> indent, tokens |-> << >>, ok |-> TRUE]

-----------------------------------------------------------------------------
(* Tokenize, one line after another.                                       *)

\* f is what becomes of the first n lines of text.
Lexes(f, text, indent, n) == f = [i \in 0..n |-> IF i = 0 THEN Begin(indent) ELSE TokenizeLine(text, f[i - 1], i)]
After(text, indent)       == CHOOSE f : Lexes(f, text, indent, Len(text))

LEMMA LexesExists == ASSUME NEW text, NEW indent, NEW n \in Nat PROVE \E f : Lexes(f, text, indent, n)
<1> DEFINE S == {m \in Nat : \E f : Lexes(f, text, indent, m)}
<1>1. 0 \in S
  <2> DEFINE f == [i \in 0..0 |-> Begin(indent)]
  <2>1. Lexes(f, text, indent, 0)
    BY DEF Lexes
  <2>. QED
    BY <2>1
<1>2. ASSUME NEW m \in Nat, m \in S PROVE m + 1 \in S
  <2>1. PICK f : Lexes(f, text, indent, m)
    BY <1>2
  <2> DEFINE g == [i \in 0..m + 1 |-> IF i <= m THEN f[i] ELSE TokenizeLine(text, f[m], m + 1)]
  <2>2. \A i \in 0..m : f[i] = IF i = 0 THEN Begin(indent) ELSE TokenizeLine(text, f[i - 1], i)
    BY <2>1 DEF Lexes
  <2>3. ASSUME NEW i \in 0..m + 1
        PROVE  g[i] = IF i = 0 THEN Begin(indent) ELSE TokenizeLine(text, g[i - 1], i)
    <3>1. CASE i = m + 1
      <4>1. g[i] = TokenizeLine(text, f[m], m + 1) /\ i - 1 = m /\ g[m] = f[m] /\ i # 0
        BY <3>1
      <4>. QED
        BY <3>1, <4>1
    <3>2. CASE i \in 0..m
      <4>1. g[i] = f[i]
        BY <3>2
      <4>2. i # 0 => g[i - 1] = f[i - 1]
        BY <3>2
      <4>. HIDE DEF g
      <4>. QED
        BY <2>2, <3>2, <4>1, <4>2
    <3>. QED
      BY <3>1, <3>2
  <2>4. g = [i \in 0..m + 1 |-> g[i]]
    OBVIOUS
  <2>. HIDE DEF g
  <2>5. Lexes(g, text, indent, m + 1)
    BY <2>3, <2>4 DEF Lexes
  <2>. QED
    BY <2>5
<1>. HIDE DEF S
<1>3. n \in S
  BY <1>1, <1>2, SetInduction
<1>. QED
  BY <1>3 DEF S

LEMMA AfterFacts ==
  ASSUME NEW text, Len(text) \in Nat, NEW indent
  PROVE  /\ After(text, indent)[0] = Begin(indent)
         /\ \A i \in 1..Len(text) : After(text, indent)[i] = TokenizeLine(text, After(text, indent)[i - 1], i)
         /\ text # << >> => Tokenize(indent, text) = After(text, indent)[Len(text)]
<1>1. Lexes(After(text, indent), text, indent, Len(text))
  BY LexesExists DEF After
<1>2. \A i \in 0..Len(text) :
        After(text, indent)[i] = IF i = 0 THEN Begin(indent) ELSE TokenizeLine(text, After(text, indent)[i - 1], i)
  BY <1>1 DEF Lexes
<1>3. text # << >> => Tokenize(indent, text) = After(text, indent)[Len(text)]
  BY DEF Tokenize, After, Lexes, Begin
<1>4. 0 \in 0..Len(text) /\ \A i \in 1..Len(text) : i \in 0..Len(text) /\ i # 0
  OBVIOUS
<1>. QED
  BY <1>2, <1>3, <1>4

-----------------------------------------------------------------------------
(* One line.                                                               *)

Fields == {"indent", "tokens", "ok"}
Level(line) == line.spaces \div IndentWidth
Readable(line) == \A k \in DOMAIN line.toks : line.toks[k] # BadCharacter

\* A line is skipped after an exception, after a comment that is never closed, and
\* when it is blank and code follows.
Skipped(text, ok, i) ==
  \/ ~ok
  \/ \E j \in 1..i - 1 : Swallows(text[j])
  \/ isBlankLine(text[i]) /\ hasCodeAfterBlankLines(text, i)

LEMMA StepFacts ==
  ASSUME NEW text, NEW y, DOMAIN y = Fields, NEW i
  PROVE  /\ DOMAIN TokenizeLine(text, y, i) = Fields
         /\ Skipped(text, y.ok, i) => TokenizeLine(text, y, i) = y
         /\ ~Skipped(text, y.ok, i) => /\ TokenizeLine(text, y, i).indent = LineIndent(y.indent, text[i])
                                       /\ TokenizeLine(text, y, i).ok <=> Readable(text[i])
<1>1. Skipped(text, y.ok, i) => TokenizeLine(text, y, i) = y
  BY DEF Skipped, TokenizeLine
<1>2. PICK next : next = LexLine(y.indent, text[i])
  OBVIOUS
<1>3. /\ DOMAIN next = Fields /\ next.indent = LineIndent(y.indent, text[i])
      /\ next.ok <=> Readable(text[i])
  BY <1>2 DEF LexLine, Fields, Readable
<1>4. PICK all : all = y.tokens \o next.tokens
  OBVIOUS
<1>5. ~Skipped(text, y.ok, i) => TokenizeLine(text, y, i) = [next EXCEPT !.tokens = all]
  BY <1>2, <1>4 DEF Skipped, TokenizeLine
<1>6. PICK x : x = [next EXCEPT !.tokens = all]
  OBVIOUS
<1>7. DOMAIN x = Fields /\ x.indent = next.indent /\ x.ok = next.ok
  BY <1>3, <1>6 DEF Fields
<1>. QED
  BY <1>1, <1>3, <1>5, <1>6, <1>7

\* The lexer has stopped reading after i lines exactly when one of them breaks.
Stopped(text, i) == \E j \in 1..i : Breaks(text[j])

LEMMA ReadingFacts ==
  ASSUME NEW text, Len(text) \in Nat, NEW level, NEW n \in 0..Len(text)
  PROVE  /\ DOMAIN After(text, level)[n] = Fields
         /\ (~After(text, level)[n].ok \/ \E j \in 1..n : Swallows(text[j])) <=> Stopped(text, n)
<1> DEFINE P(i) == /\ DOMAIN After(text, level)[i] = Fields
                   /\ (~After(text, level)[i].ok \/ \E j \in 1..i : Swallows(text[j])) <=> Stopped(text, i)
           S == {i \in Nat : i <= Len(text) => P(i)}
<1>1. 0 \in S
  <2>1. After(text, level)[0] = Begin(level)
    BY AfterFacts
  <2>2. DOMAIN Begin(level) = Fields /\ Begin(level).ok
    BY DEF Begin, Fields
  <2>. QED
    BY <2>1, <2>2 DEF Stopped
<1>2. ASSUME NEW i \in Nat, i \in S PROVE i + 1 \in S
  <2>1. SUFFICES ASSUME i + 1 <= Len(text) PROVE P(i + 1)
    OBVIOUS
  <2>2. PICK k, y, z : k = i + 1 /\ y = After(text, level)[i] /\ z = After(text, level)[k]
    OBVIOUS
  <2>3. /\ k \in 1..Len(text) /\ k - 1 = i /\ DOMAIN y = Fields
        /\ (~y.ok \/ \E j \in 1..i : Swallows(text[j])) <=> Stopped(text, i)
    BY <1>2, <2>1, <2>2
  <2>4. z = TokenizeLine(text, y, k)
    BY <2>2, <2>3, AfterFacts
  <2>5. /\ DOMAIN z = Fields
        /\ Skipped(text, y.ok, k) => z = y
        /\ ~Skipped(text, y.ok, k) => (z.ok <=> Readable(text[k]))
    BY <2>3, <2>4, StepFacts
  <2>6. \A j : j \in 1..k <=> j \in 1..i \/ j = k
    BY <2>2
  <2>7. Skipped(text, y.ok, k) <=> Stopped(text, i) \/ (isBlankLine(text[k]) /\ hasCodeAfterBlankLines(text, k))
    BY <2>3 DEF Skipped
  <2>8. Breaks(text[k]) <=> Swallows(text[k]) \/ ~Readable(text[k])
    BY DEF Breaks, Readable
  <2>9. isBlankLine(text[k]) => ~Breaks(text[k])
    BY DEF isBlankLine, Breaks, Swallows
  <2>10. Stopped(text, k) <=> Stopped(text, i) \/ Breaks(text[k])
    BY <2>6 DEF Stopped
  <2>11. (\E j \in 1..k : Swallows(text[j])) <=> (\E j \in 1..i : Swallows(text[j])) \/ Swallows(text[k])
    BY <2>6
  <2>12. (~z.ok \/ \E j \in 1..k : Swallows(text[j])) <=> Stopped(text, k)
    <3>1. CASE Stopped(text, i)
      BY <2>3, <2>5, <2>7, <2>10, <2>11, <3>1
    <3>2. CASE ~Stopped(text, i) /\ Skipped(text, y.ok, k)
      BY <2>3, <2>5, <2>7, <2>8, <2>9, <2>10, <2>11, <3>2
    <3>3. CASE ~Stopped(text, i) /\ ~Skipped(text, y.ok, k)
      BY <2>3, <2>5, <2>8, <2>10, <2>11, <3>3
    <3>. QED
      BY <3>1, <3>2, <3>3
  <2>. QED
    BY <2>2, <2>5, <2>12
<1> HIDE DEF S
<1>3. n \in S
  BY <1>1, <1>2, SetInduction
<1> USE DEF S
<1>. QED
  BY <1>3

\* What a line does to the indent: nothing when it is not read, or blank with code
\* after it.
LEMMA IndentStep ==
  ASSUME NEW text, Len(text) \in Nat, DOMAIN text = 1..Len(text), NEW level, NEW k \in 1..Len(text)
  PROVE  After(text, level)[k].indent =
           IF k \in LinesRead(text) /\ ~(isBlankLine(text[k]) /\ hasCodeAfterBlankLines(text, k))
           THEN LineIndent(After(text, level)[k - 1].indent, text[k]) ELSE After(text, level)[k - 1].indent
<1>1. PICK y : y = After(text, level)[k - 1]
  OBVIOUS
<1>2. k - 1 \in 0..Len(text)
  OBVIOUS
<1>3. /\ DOMAIN y = Fields
      /\ (~y.ok \/ \E j \in 1..k - 1 : Swallows(text[j])) <=> Stopped(text, k - 1)
  BY <1>1, <1>2, ReadingFacts
<1>4. k \in LinesRead(text) <=> ~Stopped(text, k - 1)
  BY DEF LinesRead, Stopped
<1>5. Skipped(text, y.ok, k) <=> k \notin LinesRead(text) \/ (isBlankLine(text[k]) /\ hasCodeAfterBlankLines(text, k))
  BY <1>3, <1>4 DEF Skipped
<1>6. After(text, level)[k] = TokenizeLine(text, y, k)
  BY <1>1, AfterFacts
<1>7. /\ Skipped(text, y.ok, k) => TokenizeLine(text, y, k) = y
      /\ ~Skipped(text, y.ok, k) => TokenizeLine(text, y, k).indent = LineIndent(y.indent, text[k])
  BY <1>3, StepFacts
<1>8. CASE Skipped(text, y.ok, k)
  BY <1>1, <1>5, <1>6, <1>7, <1>8
<1>9. CASE ~Skipped(text, y.ok, k)
  BY <1>1, <1>5, <1>6, <1>7, <1>9
<1>. QED
  BY <1>8, <1>9

-----------------------------------------------------------------------------
(* A whole text.                                                           *)

\* The last line with code that is read, where there is one.
LastCode(text, last) ==
  IF HoldsCode(text) THEN /\ last \in LinesRead(text) /\ ~isBlankLine(text[last])
                          /\ \A j \in LinesRead(text) : j > last => isBlankLine(text[j])
  ELSE last = 0

LEMMA LastCodeExists ==
  ASSUME NEW text, Len(text) \in Nat, DOMAIN text = 1..Len(text)
  PROVE  \E last \in 0..Len(text) : LastCode(text, last)
<1>1. CASE ~HoldsCode(text)
  BY <1>1 DEF LastCode
<1>2. CASE HoldsCode(text)
  <2> DEFINE Gaps == {Len(text) - i : i \in {j \in LinesRead(text) : ~isBlankLine(text[j])}}
  <2>1. LinesRead(text) \subseteq 1..Len(text)
    BY DEF LinesRead
  <2>2. Gaps \subseteq Nat /\ Gaps # {}
    BY <1>2, <2>1 DEF HoldsCode
  <2>3. PICK m \in Gaps : \A k \in Gaps : m <= k
    <3> HIDE DEF Gaps
    <3>. QED
      BY <2>2, LeastElement
  <2>4. PICK last \in LinesRead(text) : ~isBlankLine(text[last]) /\ m = Len(text) - last
    BY <2>3
  <2>5. ASSUME NEW j \in LinesRead(text), j > last PROVE isBlankLine(text[j])
    <3>1. SUFFICES ASSUME ~isBlankLine(text[j]) PROVE FALSE
      OBVIOUS
    <3>2. m <= Len(text) - j
      BY <2>3, <3>1
    <3>. QED
      BY <2>1, <2>4, <2>5, <3>2
  <2>. QED
    BY <1>2, <2>1, <2>4, <2>5 DEF LastCode
<1>. QED
  BY <1>1, <1>2

\* After the last line with code that is read, a line that is read is blank and no
\* code follows it: a line not read comes after one that breaks, which is code.
LEMMA NoCodeFollows ==
  ASSUME NEW text, Len(text) \in Nat, DOMAIN text = 1..Len(text),
         NEW last \in 0..Len(text), LastCode(text, last), NEW k \in LinesRead(text), k > last
  PROVE  isBlankLine(text[k]) /\ ~hasCodeAfterBlankLines(text, k)
<1>1. \A i \in LinesRead(text) : i > last => isBlankLine(text[i])
  BY DEF LastCode, HoldsCode, LinesRead
<1>2. SUFFICES ASSUME NEW j \in 1..Len(text), j > k, ~isBlankLine(text[j]) PROVE FALSE
  BY <1>1 DEF hasCodeAfterBlankLines
<1> DEFINE Broken == {i \in 1..j - 1 : Breaks(text[i])}
<1>3. Broken \subseteq Nat /\ Broken # {}
  BY <1>1, <1>2 DEF LinesRead
<1>4. PICK m \in Broken : \A i \in Broken : m <= i
  <2> HIDE DEF Broken
  <2>. QED
    BY <1>3, LeastElement
<1>5. m \in LinesRead(text)
  BY <1>4 DEF LinesRead
<1>6. ~isBlankLine(text[m])
  BY <1>4 DEF isBlankLine, Breaks, Swallows
<1>7. m <= last
  BY <1>1, <1>5, <1>6
<1>8. k \in 1..Len(text) /\ m \in 1..k - 1 /\ Breaks(text[m])
  BY <1>4, <1>7 DEF LinesRead
<1>. QED
  BY <1>8 DEF LinesRead

\* The depths that count when the first n lines are read: of the last line with code
\* and of those after it.
DepthsTo(text, level, last, n) ==
  {Level(text[i]) : i \in {j \in LinesRead(text) : j >= last /\ j <= n}} \cup (IF HoldsCode(text) THEN {} ELSE {level})
IsLeast(depth, depths) == depth \in depths /\ depths \subseteq Nat /\ \A other \in depths : depth <= other

LEMMA LeastOfMore ==
  ASSUME NEW depth, NEW depths, IsLeast(depth, depths), NEW other \in Nat
  PROVE  IsLeast(Min2(depth, other), depths \cup {other})
<1>1. depth \in Nat /\ depth \in depths /\ depths \subseteq Nat /\ \A d \in depths : d \in Nat /\ depth <= d
  BY DEF IsLeast
<1>2. CASE depth < other
  BY <1>1, <1>2 DEF IsLeast, Min2
<1>3. CASE ~(depth < other)
  BY <1>1, <1>3 DEF IsLeast, Min2
<1>. QED
  BY <1>2, <1>3

\* From the last line with code on, the indent is the least of them.
LEMMA IndentFacts ==
  ASSUME NEW text, Len(text) \in Nat, DOMAIN text = 1..Len(text), \A i \in 1..Len(text) : text[i].spaces \in Nat,
         NEW level \in Nat, NEW last \in 0..Len(text), LastCode(text, last)
  PROVE  IsLeast(After(text, level)[Len(text)].indent, DepthsTo(text, level, last, Len(text)))
<1> DEFINE P(i) == IsLeast(After(text, level)[i].indent, DepthsTo(text, level, last, i))
           S == {i \in Nat : last <= i /\ i <= Len(text) => P(i)}
<1>1. \A i \in 1..Len(text) : Level(text[i]) \in Nat
  BY DEF Level, IndentWidth
<1>2. LinesRead(text) \subseteq 1..Len(text)
  BY DEF LinesRead
<1>3. P(last)
  <2>1. CASE HoldsCode(text)
    <3>1. last \in LinesRead(text) /\ ~isBlankLine(text[last])
      BY <2>1 DEF LastCode
    <3>2. After(text, level)[last].indent = Level(text[last])
      BY <1>2, <3>1, IndentStep DEF LineIndent, Level
    <3>3. DepthsTo(text, level, last, last) = {Level(text[last])}
      BY <1>2, <2>1, <3>1 DEF DepthsTo
    <3>4. Level(text[last]) \in Nat
      BY <1>1, <1>2, <3>1
    <3>. QED
      BY <3>2, <3>3, <3>4 DEF IsLeast
  <2>2. CASE ~HoldsCode(text)
    <3>1. last = 0
      BY <2>2 DEF LastCode
    <3>2. After(text, level)[last].indent = level
      <4>1. After(text, level)[0] = Begin(level)
        BY AfterFacts
      <4>. QED
        BY <3>1, <4>1 DEF Begin
    <3>3. DepthsTo(text, level, last, last) = {level}
      BY <1>2, <2>2, <3>1 DEF DepthsTo
    <3>. QED
      BY <3>2, <3>3 DEF IsLeast
  <2>. QED
    BY <2>1, <2>2
<1>4. 0 \in S
  <2>1. last <= 0 => last = 0
    OBVIOUS
  <2>. QED
    BY <1>3, <2>1
<1>5. ASSUME NEW i \in Nat, i \in S PROVE i + 1 \in S
  <2>1. SUFFICES ASSUME last <= i + 1, i + 1 <= Len(text) PROVE P(i + 1)
    OBVIOUS
  <2>2. PICK k, before, after : k = i + 1 /\ before = After(text, level)[i].indent /\ after = After(text, level)[k].indent
    OBVIOUS
  <2>3. PICK old, new : old = DepthsTo(text, level, last, i) /\ new = DepthsTo(text, level, last, k)
    OBVIOUS
  <2>4. CASE last = k
    BY <1>3, <2>2, <2>4
  <2>5. CASE last <= i
    <3>1. IsLeast(before, old)
      BY <1>5, <2>1, <2>2, <2>3, <2>5
    <3>2. k \in 1..Len(text) /\ k - 1 = i /\ k > last
      BY <2>1, <2>2, <2>5
    <3>3. \A j \in LinesRead(text) : j <= k <=> j <= i \/ j = k
      BY <1>2, <2>2
    <3>4. CASE k \notin LinesRead(text)
      <4>1. after = before
        BY <2>2, <3>2, <3>4, IndentStep
      <4>2. new = old
        BY <2>3, <3>3, <3>4 DEF DepthsTo
      <4>. QED
        BY <2>2, <2>3, <3>1, <4>1, <4>2
    <3>5. CASE k \in LinesRead(text)
      <4>1. isBlankLine(text[k]) /\ ~hasCodeAfterBlankLines(text, k)
        BY <3>2, <3>5, NoCodeFollows
      <4>2. after = Min2(before, Level(text[k]))
        BY <2>2, <3>2, <3>5, <4>1, IndentStep DEF LineIndent, Level
      <4>3. new = old \cup {Level(text[k])}
        BY <2>3, <3>2, <3>3, <3>5 DEF DepthsTo
      <4>4. Level(text[k]) \in Nat
        BY <1>1, <3>2
      <4>5. IsLeast(after, new)
        BY <3>1, <4>2, <4>3, <4>4, LeastOfMore
      <4>. QED
        BY <2>2, <2>3, <4>5
    <3>. QED
      BY <3>4, <3>5
  <2>. QED
    BY <2>1, <2>2, <2>4, <2>5
<1> HIDE DEF S
<1>6. Len(text) \in S
  BY <1>4, <1>5, SetInduction
<1> USE DEF S
<1>. QED
  BY <1>6

LEMMA TextFacts ==
  ASSUME NEW text \in Texts
  PROVE  /\ text # << >> /\ Len(text) \in Nat /\ DOMAIN text = 1..Len(text)
         /\ \A i \in 1..Len(text) : text[i].spaces \in Nat /\ Level(text[i]) \in Depths
<1>1. PICK Lines : Lines = {text[i] : i \in DOMAIN text}
  OBVIOUS
<1>2. text # << >> /\ text \in Seq(Lines) /\ \A i \in DOMAIN text : text[i].spaces \in Nat
  BY <1>1, PlaygroundAssumption
<1>3. Len(text) \in Nat /\ DOMAIN text = 1..Len(text)
  BY <1>2, LenProperties
<1>4. \A i \in DOMAIN text : Level(text[i]) \in Depths
  BY DEF Depths, Level
<1>. QED
  BY <1>2, <1>3, <1>4

LEMMA DepthsAreNumbers == Depths \subseteq Nat
<1>1. SUFFICES ASSUME NEW text \in Texts, NEW i \in DOMAIN text PROVE text[i].spaces \div IndentWidth \in Nat
  BY DEF Depths
<1>2. text[i].spaces \in Nat
  BY TextFacts
<1>. QED
  BY <1>2 DEF IndentWidth

\* What the lexer leaves is what the lines of a text say.
LEMMA LexerLeaves ==
  ASSUME NEW text \in Texts, NEW level \in Depths
  PROVE  LexText(level, text).indent = Leaves(level, text) /\ Leaves(level, text) \in Depths
<1>1. /\ text # << >> /\ Len(text) \in Nat /\ DOMAIN text = 1..Len(text) /\ level \in Nat
      /\ \A i \in 1..Len(text) : text[i].spaces \in Nat /\ Level(text[i]) \in Depths
  BY TextFacts, DepthsAreNumbers
<1>2. PICK last \in 0..Len(text) : LastCode(text, last)
  BY <1>1, LastCodeExists
<1>3. PICK depths, depth : depths = DepthsTo(text, level, last, Len(text)) /\ depth = After(text, level)[Len(text)].indent
  OBVIOUS
<1>4. IsLeast(depth, depths)
  BY <1>1, <1>2, <1>3, IndentFacts
<1>5. LinesRead(text) \subseteq 1..Len(text)
  BY <1>1 DEF LinesRead
<1>6. {i \in LinesRead(text) : \A j \in LinesRead(text) : j > i => isBlankLine(text[j])}
        = {j \in LinesRead(text) : j >= last /\ j <= Len(text)}
  <2>1. CASE HoldsCode(text)
    BY <1>1, <1>5, <2>1, <1>2 DEF LastCode
  <2>2. CASE ~HoldsCode(text)
    BY <1>1, <1>5, <2>2, <1>2 DEF LastCode, HoldsCode
  <2>. QED
    BY <2>1, <2>2
<1>7. Leaves(level, text) = CHOOSE d \in depths : \A other \in depths : d <= other
  BY <1>3, <1>6 DEF Leaves, DepthsTo, Level
<1>8. depth = Leaves(level, text)
  <2>1. PICK least : least = Leaves(level, text)
    OBVIOUS
  <2>2. least \in depths /\ \A other \in depths : least <= other
    BY <1>4, <1>7, <2>1 DEF IsLeast
  <2>. QED
    BY <1>4, <2>1, <2>2 DEF IsLeast
<1>9. depth \in Depths
  <2>1. depths \subseteq Depths
    BY <1>1, <1>3, <1>5 DEF DepthsTo
  <2>. QED
    BY <1>4, <2>1 DEF IsLeast
<1>10. LexText(level, text).indent = depth
  <2>1. PICK y : y = After(text, level)[Len(text)]
    OBVIOUS
  <2>2. Tokenize(level, text) = y
    BY <1>1, <2>1, AfterFacts
  <2>3. DOMAIN y = Fields
    BY <1>1, <2>1, ReadingFacts
  <2>4. PICK closed : closed = appendMissingBlockClosers(y.tokens)
    OBVIOUS
  <2>5. LexText(level, text) = [y EXCEPT !.tokens = closed]
    BY <2>2, <2>4 DEF LexText
  <2>6. [y EXCEPT !.tokens = closed].indent = y.indent
    BY <2>3 DEF Fields
  <2>. QED
    BY <1>3, <2>1, <2>5, <2>6
<1>. QED
  BY <1>8, <1>9, <1>10

\* A text with code leaves the same whatever the texts before it left.
LEMMA CodeCovers ==
  ASSUME NEW text, HoldsCode(text), NEW level
  PROVE  Leaves(level, text) = Leaves(0, text)
BY DEF Leaves

-----------------------------------------------------------------------------
(* The invariants.                                                         *)

\* What the lexer can have been left with, and by which text.
IInv == TypeOK /\ OnlyTheLastText

LEMMA InitHolds == Init => IInv
<1>1. << >> \in Files
  <2>1. << >> \in [{} -> Contents] /\ {} \in SUBSET Paths
    OBVIOUS
  <2>. QED
    BY <2>1 DEF Files
<1>. QED
  BY <1>1 DEF Init, IInv, TypeOK, OnlyTheLastText, Depths

\* What a call of Execute leaves of a text in the lexer.
LEMMA ExecuteLeaves ==
  ASSUME TypeOK, NEW text \in Texts, Execute(text)
  PROVE  /\ lexerIndent' = Leaves(lexerIndent, text) /\ lexerIndent' \in Depths
         /\ asked' = <<text>> /\ OnlyTheLastText'
<1>1. 0 \in Depths /\ lexerIndent \in Depths
  BY DEF TypeOK, Depths
<1>2. lexerIndent' = Leaves(lexerIndent, text) /\ lexerIndent' \in Depths
  BY <1>1, LexerLeaves DEF Execute, Lexed
<1>3. asked' = <<text>>
  BY DEF Execute, Unreadable, Rejected, Executed, Crashes, Respond
<1>4. HoldsCode(text) => lexerIndent' = LexText(0, text).indent
  BY <1>1, <1>2, LexerLeaves, CodeCovers
<1>. QED
  BY <1>2, <1>3, <1>4 DEF OnlyTheLastText, InNewPage

LEMMA ExecuteKeepsType ==
  ASSUME TypeOK, NEW text \in Texts, Execute(text)
  PROVE  TypeOK'
<1>1. useVM' \in BOOLEAN /\ lexerIndent' \in Depths
  BY ExecuteLeaves DEF TypeOK, Execute
<1>2. CASE Unreadable(text)
  BY <1>1, <1>2 DEF TypeOK, Unreadable, Respond
<1>3. CASE Rejected(text)
  BY <1>1, <1>3 DEF TypeOK, Rejected, Respond
<1>4. CASE Executed(text)
  <2>1. PICK ran \in Outcomes(useVM, Parse(LexText(lexerIndent, text).tokens).program, files) :
          files' = ran.files /\ mode' = mode
    BY <1>4 DEF Executed, Respond, Lexed
  <2>2. ran.files \in Files
    BY PlaygroundAssumption DEF TypeOK
  <2>. QED
    BY <1>1, <2>1, <2>2 DEF TypeOK
<1>5. CASE Crashes(text)
  BY <1>1, <1>5 DEF TypeOK, Crashes
<1>. QED
  BY <1>2, <1>3, <1>4, <1>5 DEF Execute

\* The files stay a function of paths.
LEMMA FilesKeepType ==
  ASSUME files \in Files, NEW path \in Paths
  PROVE  /\ \A content \in Contents :
              [p \in DOMAIN files \cup {path} |-> IF p = path THEN content ELSE files[p]] \in Files
         /\ [p \in DOMAIN files \ {path} |-> files[p]] \in Files
         /\ << >> \in Files
<1>1. PICK P \in SUBSET Paths : files \in [P -> Contents]
  BY DEF Files
<1>2. DOMAIN files = P
  BY <1>1
<1>3. ASSUME NEW content \in Contents
      PROVE  [p \in DOMAIN files \cup {path} |-> IF p = path THEN content ELSE files[p]] \in [P \cup {path} -> Contents]
  BY <1>1, <1>2
<1>4. [p \in DOMAIN files \ {path} |-> files[p]] \in [P \ {path} -> Contents]
  BY <1>1, <1>2
<1>5. << >> \in [{} -> Contents]
  OBVIOUS
<1>6. P \cup {path} \in SUBSET Paths /\ P \ {path} \in SUBSET Paths /\ {} \in SUBSET Paths
  OBVIOUS
<1>. QED
  BY <1>3, <1>4, <1>5, <1>6 DEF Files

LEMMA StepHolds ==
  ASSUME IInv, [Next]_vars
  PROVE  IInv'
<1>1. ASSUME NEW text \in Texts, Execute(text) PROVE IInv'
  BY <1>1, ExecuteLeaves, ExecuteKeepsType DEF IInv
<1>2. ASSUME NEW name, SetBackend(name) PROVE IInv'
  BY <1>2 DEF IInv, TypeOK, OnlyTheLastText, SetBackend
<1>3. ASSUME NEW path \in Paths, NEW content \in Contents, WriteFile(path, content) PROVE IInv'
  <2>1. files' \in Files
    BY <1>3, FilesKeepType DEF IInv, TypeOK, WriteFile
  <2>. QED
    BY <1>3, <2>1 DEF IInv, TypeOK, OnlyTheLastText, WriteFile
<1>4. ASSUME NEW path \in Paths, DeleteFile(path) PROVE IInv'
  <2>1. files' \in Files
    BY <1>4, FilesKeepType DEF IInv, TypeOK, DeleteFile
  <2>. QED
    BY <1>4, <2>1 DEF IInv, TypeOK, OnlyTheLastText, DeleteFile
<1>5. CASE Reset
  <2>1. files' \in Files
    <3>1. << >> \in [{} -> Contents] /\ {} \in SUBSET Paths
      OBVIOUS
    <3>. QED
      BY <1>5, <3>1 DEF Reset, Files
  <2>. QED
    BY <1>5, <2>1 DEF IInv, TypeOK, OnlyTheLastText, Reset, Depths
<1>6. CASE UNCHANGED vars
  BY <1>6 DEF IInv, TypeOK, OnlyTheLastText, vars
<1>. QED
  BY <1>1, <1>2, <1>3, <1>4, <1>5, <1>6 DEF Next

\* Whatever the page does, its variables keep their types.
THEOREM PlaygroundTypeCorrect == Spec => []TypeOK
<1>1. IInv /\ [Next]_vars => IInv'
  BY StepHolds
<1>. QED
  BY <1>1, InitHolds, PTL DEF Spec, IInv

\* Only the text executed last, when it has code, determines in which block the next
\* one is read, also when it was cut short, rejected, failed or stopped.
THEOREM OnlyTheLastTextCounts == Spec => []OnlyTheLastText
<1>1. IInv /\ [Next]_vars => IInv'
  BY StepHolds
<1>. QED
  BY <1>1, InitHolds, PTL DEF Spec, IInv

-----------------------------------------------------------------------------
(* The promise.                                                            *)

LEMMA ExecuteImplements ==
  ASSUME IInv, NEW text \in Texts, Execute(text)
  PROVE  Promise!Next
<1>1. Lexed(text) = InNewPage(lexerIndent, text) /\ lexerIndent' = Leaves(lexerIndent, text)
  BY ExecuteLeaves DEF IInv, Lexed, InNewPage
<1>2. Promise!Refused(text) \/ Promise!Ran(text) \/ Promise!Died(text)
  <2>1. CASE Unreadable(text)
    BY <1>1, <2>1 DEF Unreadable, Respond, Promise!Refused, Promise!Answered
  <2>2. CASE Rejected(text)
    BY <1>1, <2>2 DEF Rejected, Respond, Promise!Refused, Promise!Answered
  <2>3. CASE Executed(text)
    BY <1>1, <2>3 DEF Executed, Respond, Promise!Ran, Promise!Answered
  <2>4. CASE Crashes(text)
    BY <1>1, <2>4 DEF Crashes, Promise!Died
  <2>. QED
    BY <2>1, <2>2, <2>3, <2>4 DEF Execute
<1>. QED
  BY <1>1, <1>2 DEF Execute, Promise!Next, Promise!Execute

LEMMA StepImplements ==
  ASSUME IInv, [Next]_vars
  PROVE  [Promise!Next]_(Promise!vars)
<1>1. ASSUME NEW text \in Texts, Execute(text) PROVE Promise!Next
  BY <1>1, ExecuteImplements
<1>2. ASSUME NEW name, SetBackend(name) PROVE Promise!Next
  BY <1>2 DEF IInv, TypeOK, SetBackend, Promise!Next, Promise!Choose
<1>3. ASSUME NEW path \in Paths, NEW content \in Contents, WriteFile(path, content) PROVE Promise!Next
  <2>1. Promise!Store
    BY <1>3 DEF WriteFile, Promise!Store
  <2>. QED
    BY <1>3, <2>1 DEF WriteFile, Promise!Next
<1>4. ASSUME NEW path \in Paths, DeleteFile(path) PROVE Promise!Next
  <2>1. Promise!Store
    BY <1>4 DEF DeleteFile, Promise!Store
  <2>. QED
    BY <1>4, <2>1 DEF DeleteFile, Promise!Next
<1>5. CASE Reset
  BY <1>5 DEF Reset, Promise!Next, Promise!Clear
<1>6. CASE UNCHANGED vars
  BY <1>6 DEF vars, Promise!vars
<1>. QED
  BY <1>1, <1>2, <1>3, <1>4, <1>5, <1>6 DEF Next

\* A page answers every text as a new page would that has the same files and back
\* end and stands as deep in a block, and how deep follows from the lines of the
\* texts alone, however they ended.
THEOREM PageIsKept == Spec => KeepsThePromise
<1>1. Init => Promise!Init
  BY DEF Init, NoResponse, Promise!Init
<1>2. IInv /\ [Next]_vars => IInv'
  BY StepHolds
<1>3. IInv /\ [Next]_vars => [Promise!Next]_(Promise!vars)
  BY StepImplements
<1>. QED
  BY <1>1, <1>2, <1>3, InitHolds, PTL DEF Spec, KeepsThePromise, Promise!Spec

=============================================================================
