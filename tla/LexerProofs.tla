---------------------------- MODULE LexerProofs ----------------------------
(***************************************************************************)
(* A text that arrives in parts lexes as the whole does, for every text,   *)
(* however long, and every way of dividing it in two.                      *)
(*                                                                         *)
(* Tokenize is a recursive function of the lines.  By induction on their   *)
(* number, the lexer is after each line of the first part where it is      *)
(* after that line of the whole, and after each line of the second part    *)
(* but for the tokens of the first.                                        *)
(***************************************************************************)
EXTENDS Texts, SequenceTheorems, Induction

\* A line that the lexer gets past, and the next one with it.
Readable(line) == ~Swallows(line) /\ \A k \in DOMAIN line.toks : line.toks[k] # BadCharacter

LinesOf(Tokens) == [toks : Seq(Tokens), spaces : Nat, comment : {"none", "closed", "open"}]
AllOf(Tokens)   == Tokens \cup {NewLine, StartBlock, EndBlock}
\* The states of the lexer.
Lexings(Tokens) == [indent : Nat, tokens : Seq(AllOf(Tokens)), ok : BOOLEAN]

Begin(indent) == [indent |-> indent, tokens |-> << >>, ok |-> TRUE]

-----------------------------------------------------------------------------
(* Tokenize, one line after another.                                       *)

\* f is what becomes of the first n lines of text.
Lexes(f, text, indent, n) == f = [i \in 0..n |-> IF i = 0 THEN Begin(indent) ELSE TokenizeLine(text, f[i - 1], i)]
After(text, indent)       == CHOOSE f : Lexes(f, text, indent, Len(text))

LEMMA LexesExists == ASSUME NEW text, NEW indent, NEW n \in Nat PROVE \E f : Lexes(f, text, indent, n)
<1> DEFINE S == {m \in Nat : \E f : Lexes(f, text, indent, m)}
<1>1. 0 \in S
  <2> DEFINE f == [i \in 0..0 |-> Begin(indent)]
  <2>1. Lexes(f, text, indent, 0)
    BY DEF Lexes
  <2>. QED
    BY <2>1
<1>2. ASSUME NEW m \in Nat, m \in S PROVE m + 1 \in S
  <2>1. PICK f : Lexes(f, text, indent, m)
    BY <1>2
  <2> DEFINE g == [i \in 0..m + 1 |-> IF i <= m THEN f[i] ELSE TokenizeLine(text, f[m], m + 1)]
  <2>2. \A i \in 0..m : f[i] = IF i = 0 THEN Begin(indent) ELSE TokenizeLine(text, f[i - 1], i)
    BY <2>1 DEF Lexes
  <2>3. ASSUME NEW i \in 0..m + 1
        PROVE  g[i] = IF i = 0 THEN Begin(indent) ELSE TokenizeLine(text, g[i - 1], i)
    <3>1. CASE i = m + 1
      <4>1. g[i] = TokenizeLine(text, f[m], m + 1) /\ i - 1 = m /\ g[m] = f[m] /\ i # 0
        BY <3>1
      <4>. QED
        BY <3>1, <4>1
    <3>2. CASE i \in 0..m
      <4>1. g[i] = f[i]
        BY <3>2
      <4>2. i # 0 => g[i - 1] = f[i - 1]
        BY <3>2
      <4>. HIDE DEF g
      <4>. QED
        BY <2>2, <3>2, <4>1, <4>2
    <3>. QED
      BY <3>1, <3>2
  <2>4. g = [i \in 0..m + 1 |-> g[i]]
    OBVIOUS
  <2>. HIDE DEF g
  <2>5. Lexes(g, text, indent, m + 1)
    BY <2>3, <2>4 DEF Lexes
  <2>. QED
    BY <2>5
<1>. HIDE DEF S
<1>3. n \in S
  BY <1>1, <1>2, SetInduction
<1>. QED
  BY <1>3 DEF S

LEMMA AfterFacts ==
  ASSUME NEW text, Len(text) \in Nat, NEW indent
  PROVE  /\ After(text, indent)[0] = Begin(indent)
         /\ \A i \in 1..Len(text) : After(text, indent)[i] = TokenizeLine(text, After(text, indent)[i - 1], i)
         /\ text # << >> => Tokenize(indent, text) = After(text, indent)[Len(text)]
<1>1. Lexes(After(text, indent), text, indent, Len(text))
  BY LexesExists DEF After
<1>2. \A i \in 0..Len(text) :
        After(text, indent)[i] = IF i = 0 THEN Begin(indent) ELSE TokenizeLine(text, After(text, indent)[i - 1], i)
  BY <1>1 DEF Lexes
<1>3. text # << >> => Tokenize(indent, text) = After(text, indent)[Len(text)]
  BY DEF Tokenize, After, Lexes, Begin
<1>4. 0 \in 0..Len(text) /\ \A i \in 1..Len(text) : i \in 0..Len(text) /\ i # 0
  OBVIOUS
<1>. QED
  BY <1>2, <1>3, <1>4

-----------------------------------------------------------------------------
(* One line.                                                               *)

\* A line leaves the lexer in a state, and only a character that starts no token
\* makes it stop.
LEMMA LineFacts ==
  ASSUME NEW Tokens, NEW line \in LinesOf(Tokens), NEW indent \in Nat
  PROVE  /\ LexLine(indent, line) \in Lexings(Tokens)
         /\ Readable(line) => LexLine(indent, line).ok
<1> DEFINE A == AllOf(Tokens)
           to == LineIndent(indent, line)
           blocks == BlockTokens(indent, line)
           end == IF Swallows(line) THEN << >> ELSE <<NewLine>>
<1>1. to \in Nat
  <2>1. line.spaces \in Nat /\ line.spaces \div IndentWidth \in Nat
    BY DEF LinesOf, IndentWidth
  <2>. QED
    BY <2>1 DEF LineIndent, Min2
<1>2. NewLine \in A /\ StartBlock \in A /\ EndBlock \in A /\ Tokens \subseteq A
  BY DEF AllOf
<1>3. blocks \in Seq(A)
  <2>1. \A n \in Nat, token \in A : Times(n, token) \in Seq(A)
    BY DEF Times
  <2>. HIDE DEF to, A
  <2>2. CASE to > indent
    <3>1. to - indent \in Nat
      BY <1>1, <2>2
    <3>. QED
      BY <1>2, <2>1, <2>2, <3>1 DEF BlockTokens, to
  <2>3. CASE ~(to > indent)
    <3>1. indent - to \in Nat
      BY <1>1, <2>3
    <3>. QED
      BY <1>2, <2>1, <2>3, <3>1 DEF BlockTokens, to
  <2>. QED
    BY <2>2, <2>3
<1>4. line.toks \in Seq(A)
  <2>1. line.toks \in Seq(Tokens)
    BY DEF LinesOf
  <2>. HIDE DEF A
  <2>. QED
    BY <1>2, <2>1, SeqMonotonic
<1>5. end \in Seq(A)
  <2>. HIDE DEF A
  <2>. QED
    BY <1>2
<1>6. (blocks \o line.toks) \o end \in Seq(A) /\ blocks \o line.toks \o end = (blocks \o line.toks) \o end
  <2>. HIDE DEF A, blocks, end
  <2>. QED
    BY <1>3, <1>4, <1>5, ConcatProperties
<1>7. PICK good \in BOOLEAN : good = (\A k \in DOMAIN line.toks : line.toks[k] # BadCharacter)
  OBVIOUS
<1>8. LexLine(indent, line) = [indent |-> to, tokens |-> blocks \o line.toks \o end, ok |-> good]
  BY <1>7 DEF LexLine
<1>. HIDE DEF A, to, blocks, end
<1>9. LexLine(indent, line) \in [indent : Nat, tokens : Seq(A), ok : BOOLEAN] /\ LexLine(indent, line).ok = good
  BY <1>1, <1>6, <1>8
<1>. QED
  BY <1>7, <1>9 DEF Lexings, A, Readable

\* The state y with the tokens of an earlier part before its own.
Behind(toks, y) == [indent |-> y.indent, tokens |-> toks \o y.tokens, ok |-> y.ok]

\* A blank line that another follows is skipped, and so is what follows an exception
\* or a comment that is never closed.
Skipped(text, ok, i) ==
  \/ ~ok
  \/ \E j \in 1..i - 1 : Swallows(text[j])
  \/ isBlankLine(text[i]) /\ hasCodeAfterBlankLines(text, i)

LEMMA StepFacts ==
  ASSUME NEW Tokens, NEW text, NEW i, text[i] \in LinesOf(Tokens), NEW y \in Lexings(Tokens)
  PROVE  LET next == LexLine(y.indent, text[i])
         IN  /\ TokenizeLine(text, y, i) = IF Skipped(text, y.ok, i) THEN y ELSE Behind(y.tokens, next)
             /\ TokenizeLine(text, y, i) \in Lexings(Tokens)
             /\ next \in Lexings(Tokens)
<1>1. y.indent \in Nat /\ y.tokens \in Seq(AllOf(Tokens))
  BY DEF Lexings
<1>2. PICK next : next = LexLine(y.indent, text[i])
  OBVIOUS
<1>3. next \in Lexings(Tokens)
  BY <1>1, <1>2, LineFacts
<1>4. [next EXCEPT !.tokens = y.tokens \o next.tokens] = Behind(y.tokens, next)
  <2>1. PICK all : all = y.tokens \o next.tokens
    OBVIOUS
  <2>2. [next EXCEPT !.tokens = all] = [indent |-> next.indent, tokens |-> all, ok |-> next.ok]
    BY <1>3 DEF Lexings
  <2>. QED
    BY <2>1, <2>2 DEF Behind
<1>5. TokenizeLine(text, y, i) = IF Skipped(text, y.ok, i) THEN y ELSE [next EXCEPT !.tokens = y.tokens \o next.tokens]
  BY <1>2 DEF TokenizeLine, Skipped
<1>6. Behind(y.tokens, next) \in Lexings(Tokens)
  <2>1. next.tokens \in Seq(AllOf(Tokens)) /\ next.indent \in Nat /\ next.ok \in BOOLEAN
    BY <1>3 DEF Lexings
  <2>2. PICK all : all = y.tokens \o next.tokens
    OBVIOUS
  <2>3. all \in Seq(AllOf(Tokens))
    BY <1>1, <2>1, <2>2, ConcatProperties
  <2>. QED
    BY <2>1, <2>2, <2>3 DEF Behind, Lexings
<1>. QED
  BY <1>2, <1>3, <1>4, <1>5, <1>6

\* Tokens before its own make no difference to what a line adds.
LEMMA BehindFacts ==
  ASSUME NEW Tokens, NEW toks \in Seq(AllOf(Tokens)), NEW y \in Lexings(Tokens), NEW next \in Lexings(Tokens),
         NEW x, x = Behind(toks, y)
  PROVE  /\ x \in Lexings(Tokens) /\ x.indent = y.indent /\ x.ok = y.ok
         /\ Behind(x.tokens, next) = Behind(toks, Behind(y.tokens, next))
<1>1. y.tokens \in Seq(AllOf(Tokens)) /\ y.indent \in Nat /\ y.ok \in BOOLEAN /\ next.tokens \in Seq(AllOf(Tokens))
  BY DEF Lexings
<1>2. PICK all : all = toks \o y.tokens
  OBVIOUS
<1>3. all \in Seq(AllOf(Tokens))
  BY <1>1, <1>2, ConcatProperties
<1>4. x = [indent |-> y.indent, tokens |-> all, ok |-> y.ok]
  BY <1>2 DEF Behind
<1>5. x \in Lexings(Tokens) /\ x.indent = y.indent /\ x.tokens = all /\ x.ok = y.ok
  BY <1>1, <1>3, <1>4 DEF Lexings
<1>6. (toks \o y.tokens) \o next.tokens = toks \o (y.tokens \o next.tokens)
  <2>1. PICK A, p, q : A = AllOf(Tokens) /\ p = y.tokens /\ q = next.tokens
    OBVIOUS
  <2>2. toks \in Seq(A) /\ p \in Seq(A) /\ q \in Seq(A)
    BY <1>1, <2>1
  <2>3. (toks \o p) \o q = toks \o (p \o q)
    BY <2>2, ConcatAssociative
  <2>. QED
    BY <2>1, <2>3
<1>7. PICK z, own : own = y.tokens \o next.tokens /\ z = [indent |-> next.indent, tokens |-> own, ok |-> next.ok]
  OBVIOUS
<1>8. z = Behind(y.tokens, next) /\ z.indent = next.indent /\ z.tokens = own /\ z.ok = next.ok
  BY <1>7 DEF Behind
<1>9. all \o next.tokens = toks \o own
  BY <1>2, <1>6, <1>7
<1>10. Behind(toks, z) = [indent |-> next.indent, tokens |-> all \o next.tokens, ok |-> next.ok]
  BY <1>8, <1>9 DEF Behind
<1>11. Behind(all, next) = Behind(toks, z)
  BY <1>10 DEF Behind
<1>. QED
  BY <1>5, <1>8, <1>11

-----------------------------------------------------------------------------
(* The two parts.                                                          *)

\* Line by line a text is somewhere.
LEMMA StatesFacts ==
  ASSUME NEW Tokens, NEW text \in Seq(LinesOf(Tokens)), NEW indent \in Nat, NEW n \in 0..Len(text)
  PROVE  After(text, indent)[n] \in Lexings(Tokens)
<1> DEFINE S == {i \in Nat : i <= Len(text) => After(text, indent)[i] \in Lexings(Tokens)}
<1>1. Len(text) \in Nat /\ \A i \in 1..Len(text) : text[i] \in LinesOf(Tokens)
  BY LenProperties, ElementOfSeq
<1>2. 0 \in S
  <2>1. << >> \in Seq(AllOf(Tokens))
    OBVIOUS
  <2>2. Begin(indent) \in Lexings(Tokens)
    BY <2>1 DEF Begin, Lexings
  <2>. QED
    BY <1>1, <2>2, AfterFacts
<1>3. ASSUME NEW i \in Nat, i \in S PROVE i + 1 \in S
  <2>1. SUFFICES ASSUME i + 1 <= Len(text) PROVE After(text, indent)[i + 1] \in Lexings(Tokens)
    OBVIOUS
  <2>2. PICK k : k = i + 1
    OBVIOUS
  <2>3. k \in 1..Len(text) /\ k - 1 = i /\ After(text, indent)[i] \in Lexings(Tokens)
    BY <1>1, <1>3, <2>1, <2>2
  <2>4. After(text, indent)[k] = TokenizeLine(text, After(text, indent)[i], k)
    BY <1>1, <2>3, AfterFacts
  <2>5. After(text, indent)[k] \in Lexings(Tokens)
    BY <1>1, <2>3, <2>4, StepFacts
  <2>. QED
    BY <2>2, <2>5
<1> HIDE DEF S
<1>4. n \in S
  BY <1>1, <1>2, <1>3, SetInduction
<1>. QED
  BY <1>1, <1>4 DEF S

\* The first part ends with a line that is not blank: whether a blank line before it
\* is skipped does not depend on what comes after.
LEMMA FirstPart ==
  ASSUME NEW text, Len(text) \in Nat, NEW m \in 1..Len(text), ~isBlankLine(text[m]), NEW indent,
         NEW part, Len(part) = m, DOMAIN part = 1..m, DOMAIN text = 1..Len(text),
         \A i \in 1..m : part[i] = text[i]
  PROVE  After(part, indent)[m] = After(text, indent)[m]
<1> DEFINE S == {i \in Nat : i <= m => After(part, indent)[i] = After(text, indent)[i]}
<1>1. 0 \in S
  BY AfterFacts
<1>2. ASSUME NEW i \in Nat, i \in S PROVE i + 1 \in S
  <2>1. SUFFICES ASSUME i + 1 <= m PROVE After(part, indent)[i + 1] = After(text, indent)[i + 1]
    OBVIOUS
  <2>2. PICK k : k = i + 1
    OBVIOUS
  <2>3. /\ k \in 1..m /\ k \in 1..Len(text) /\ k \in 1..Len(part) /\ k - 1 = i
        /\ After(part, indent)[i] = After(text, indent)[i]
    BY <1>2, <2>1, <2>2
  <2>4. /\ After(part, indent)[k] = TokenizeLine(part, After(part, indent)[i], k)
        /\ After(text, indent)[k] = TokenizeLine(text, After(text, indent)[i], k)
    <3>1. Len(part) \in Nat
      OBVIOUS
    <3>. QED
      BY <2>3, <3>1, AfterFacts
  <2>5. part[k] = text[k] /\ \A j \in 1..k - 1 : part[j] = text[j]
    BY <2>3
  <2>6. isBlankLine(text[k]) => hasCodeAfterBlankLines(part, k) /\ hasCodeAfterBlankLines(text, k)
    <3>1. SUFFICES ASSUME isBlankLine(text[k])
                   PROVE  hasCodeAfterBlankLines(part, k) /\ hasCodeAfterBlankLines(text, k)
      OBVIOUS
    <3>2. m > k /\ m \in DOMAIN part /\ m \in DOMAIN text /\ ~isBlankLine(part[m])
      BY <2>3, <3>1
    <3>. QED
      BY <3>2 DEF hasCodeAfterBlankLines
  <2>7. \A x : TokenizeLine(part, x, k) = TokenizeLine(text, x, k)
    BY <2>5, <2>6 DEF TokenizeLine
  <2>. QED
    BY <2>2, <2>3, <2>4, <2>7
<1> HIDE DEF S
<1>3. m \in S
  BY <1>1, <1>2, SetInduction
<1>. QED
  BY <1>3 DEF S

\* The first part is read to its end.
LEMMA FirstReads ==
  ASSUME NEW Tokens, NEW text \in Seq(LinesOf(Tokens)), NEW indent \in Nat, NEW m \in 0..Len(text),
         \A i \in 1..m : Readable(text[i])
  PROVE  After(text, indent)[m].ok
<1> DEFINE S == {i \in Nat : i <= m => After(text, indent)[i].ok}
<1>1. Len(text) \in Nat /\ \A i \in 1..Len(text) : text[i] \in LinesOf(Tokens)
  BY LenProperties, ElementOfSeq
<1>2. 0 \in S
  <2>1. After(text, indent)[0] = Begin(indent)
    BY <1>1, AfterFacts
  <2>2. Begin(indent).ok
    BY DEF Begin
  <2>. QED
    BY <2>1, <2>2
<1>3. ASSUME NEW i \in Nat, i \in S PROVE i + 1 \in S
  <2>1. SUFFICES ASSUME i + 1 <= m PROVE After(text, indent)[i + 1].ok
    OBVIOUS
  <2>2. PICK k, y : k = i + 1 /\ y = After(text, indent)[i]
    OBVIOUS
  <2>3. k \in 1..Len(text) /\ k \in 1..m /\ k - 1 = i /\ y.ok /\ i \in 0..Len(text)
    BY <1>1, <1>3, <2>1, <2>2
  <2>4. y \in Lexings(Tokens)
    BY <2>2, <2>3, StatesFacts
  <2>5. After(text, indent)[k] = TokenizeLine(text, y, k)
    BY <1>1, <2>2, <2>3, AfterFacts
  <2>6. PICK next : next = LexLine(y.indent, text[k])
    OBVIOUS
  <2>7. TokenizeLine(text, y, k) = IF Skipped(text, y.ok, k) THEN y ELSE Behind(y.tokens, next)
    BY <1>1, <2>3, <2>4, <2>6, StepFacts
  <2>8. next.ok
    BY <1>1, <2>3, <2>4, <2>6, LineFacts DEF Lexings
  <2>9. Behind(y.tokens, next).ok
    BY <2>8 DEF Behind
  <2>. QED
    BY <2>2, <2>3, <2>5, <2>7, <2>9
<1> HIDE DEF S
<1>4. m \in S
  BY <1>2, <1>3, SetInduction
<1>. QED
  BY <1>4 DEF S

\* The second part goes on where the first left the lexer.
LEMMA SecondPart ==
  ASSUME NEW Tokens, NEW text \in Seq(LinesOf(Tokens)), NEW m \in 0..Len(text), \A i \in 1..m : Readable(text[i]),
         NEW part, Len(part) = Len(text) - m, DOMAIN part = 1..Len(text) - m,
         \A i \in 1..Len(text) - m : part[i] = text[m + i],
         part \in Seq(LinesOf(Tokens)), NEW y, y = After(text, 0)[m]
  PROVE  After(text, 0)[Len(text)] = Behind(y.tokens, After(part, y.indent)[Len(part)])
<1> DEFINE S == {i \in Nat : i <= Len(part) => After(text, 0)[m + i] = Behind(y.tokens, After(part, y.indent)[i])}
<1>1. /\ Len(text) \in Nat /\ Len(part) \in Nat /\ DOMAIN text = 1..Len(text)
      /\ \A i \in 1..Len(text) : text[i] \in LinesOf(Tokens)
  BY LenProperties, ElementOfSeq
<1>2. y \in Lexings(Tokens) /\ y.ok
  BY StatesFacts, FirstReads
<1>3. y.tokens \in Seq(AllOf(Tokens)) /\ y.indent \in Nat /\ y.ok = TRUE
  BY <1>2 DEF Lexings
<1>4. 0 \in S
  <2>1. After(part, y.indent)[0] = Begin(y.indent)
    BY <1>1, AfterFacts
  <2>2. y.tokens \o << >> = y.tokens
    BY <1>3, ConcatEmptySeq
  <2>3. Behind(y.tokens, Begin(y.indent)) = [indent |-> y.indent, tokens |-> y.tokens, ok |-> TRUE]
    BY <2>2 DEF Behind, Begin
  <2>4. y = [indent |-> y.indent, tokens |-> y.tokens, ok |-> y.ok]
    BY <1>2 DEF Lexings
  <2>5. After(text, 0)[m + 0] = y
    BY <1>1
  <2>6. Behind(y.tokens, Begin(y.indent)) = y
    BY <1>3, <2>3, <2>4
  <2>. QED
    BY <2>1, <2>5, <2>6
<1>5. ASSUME NEW i \in Nat, i \in S PROVE i + 1 \in S
  <2>1. SUFFICES ASSUME i + 1 <= Len(part)
                 PROVE  After(text, 0)[m + (i + 1)] = Behind(y.tokens, After(part, y.indent)[i + 1])
    OBVIOUS
  <2>2. PICK j, k, x : j = i + 1 /\ k = m + j /\ x = After(part, y.indent)[i]
    OBVIOUS
  <2>3. j \in 1..Len(part) /\ j - 1 = i /\ k \in 1..Len(text) /\ k - 1 = m + i /\ i \in 0..Len(part)
    BY <1>1, <2>1, <2>2
  <2>4. After(text, 0)[k - 1] = Behind(y.tokens, x)
    BY <1>5, <2>2, <2>3
  <2>5. x \in Lexings(Tokens)
    BY <1>3, <2>2, <2>3, StatesFacts
  <2>6. /\ After(text, 0)[k] = TokenizeLine(text, After(text, 0)[k - 1], k)
        /\ After(part, y.indent)[j] = TokenizeLine(part, x, j)
    <3>1. After(text, 0)[k] = TokenizeLine(text, After(text, 0)[k - 1], k)
      BY <1>1, <2>3, AfterFacts
    <3>2. After(part, y.indent)[j] = TokenizeLine(part, After(part, y.indent)[j - 1], j)
      BY <1>1, <2>3, AfterFacts
    <3>. QED
      BY <2>2, <2>3, <3>1, <3>2
  <2>7. text[k] = part[j] /\ part[j] \in LinesOf(Tokens)
    BY <1>1, <2>2, <2>3
  <2>8. (\E l \in 1..k - 1 : Swallows(text[l])) <=> (\E l \in 1..j - 1 : Swallows(part[l]))
    <3>1. ASSUME NEW l \in 1..k - 1, Swallows(text[l]) PROVE \E n \in 1..j - 1 : Swallows(part[n])
      <4>1. l \notin 1..m
        BY <3>1 DEF Readable
      <4>2. l - m \in 1..j - 1 /\ l - m \in 1..Len(text) - m /\ m + (l - m) = l
        BY <1>1, <2>2, <2>3, <4>1
      <4>. QED
        BY <3>1, <4>2
    <3>2. ASSUME NEW l \in 1..j - 1, Swallows(part[l]) PROVE \E n \in 1..k - 1 : Swallows(text[n])
      <4>1. l \in 1..Len(text) - m /\ m + l \in 1..k - 1
        BY <1>1, <2>2, <2>3
      <4>. QED
        BY <3>2, <4>1
    <3>. QED
      BY <3>1, <3>2
  <2>9. hasCodeAfterBlankLines(text, k) <=> hasCodeAfterBlankLines(part, j)
    <3>1. ASSUME NEW l \in DOMAIN text, l > k, ~isBlankLine(text[l])
          PROVE  \E n \in DOMAIN part : n > j /\ ~isBlankLine(part[n])
      <4>1. l - m \in 1..Len(text) - m /\ l - m > j /\ m + (l - m) = l
        BY <1>1, <2>2, <2>3, <3>1
      <4>. QED
        BY <3>1, <4>1
    <3>2. ASSUME NEW l \in DOMAIN part, l > j, ~isBlankLine(part[l])
          PROVE  \E n \in DOMAIN text : n > k /\ ~isBlankLine(text[n])
      <4>1. l \in 1..Len(text) - m /\ m + l \in 1..Len(text) /\ m + l > k
        BY <1>1, <2>2, <2>3, <3>2
      <4>. QED
        BY <1>1, <3>2, <4>1
    <3>. QED
      BY <3>1, <3>2 DEF hasCodeAfterBlankLines
  <2>10. Skipped(text, x.ok, k) <=> Skipped(part, x.ok, j)
    BY <2>7, <2>8, <2>9 DEF Skipped
  <2>11. TokenizeLine(text, Behind(y.tokens, x), k) = Behind(y.tokens, TokenizeLine(part, x, j))
    <3>1. PICK toks, all : toks = y.tokens /\ all = Behind(toks, x)
      OBVIOUS
    <3>2. toks \in Seq(AllOf(Tokens))
      BY <1>3, <3>1
    <3>3. PICK next : next = LexLine(x.indent, part[j])
      OBVIOUS
    <3>4. /\ TokenizeLine(part, x, j) = IF Skipped(part, x.ok, j) THEN x ELSE Behind(x.tokens, next)
          /\ next \in Lexings(Tokens)
      BY <2>5, <2>7, <3>3, StepFacts
    <3>5. /\ all \in Lexings(Tokens) /\ all.indent = x.indent /\ all.ok = x.ok
          /\ Behind(all.tokens, next) = Behind(toks, Behind(x.tokens, next))
      BY <2>5, <3>1, <3>2, <3>4, BehindFacts
    <3>6. next = LexLine(all.indent, text[k]) /\ text[k] \in LinesOf(Tokens)
      BY <2>7, <3>3, <3>5
    <3>7. TokenizeLine(text, all, k) = IF Skipped(text, all.ok, k) THEN all ELSE Behind(all.tokens, next)
      <4>1. PICK whole : whole = text
        OBVIOUS
      <4>2. next = LexLine(all.indent, whole[k]) /\ whole[k] \in LinesOf(Tokens)
        BY <3>6, <4>1
      <4>3. TokenizeLine(whole, all, k) = IF Skipped(whole, all.ok, k) THEN all ELSE Behind(all.tokens, next)
        BY ONLY <3>5, <4>2, StepFacts
      <4>. QED
        BY <4>1, <4>3
    <3>8. CASE Skipped(part, x.ok, j)
      <4>1. TokenizeLine(text, all, k) = all /\ TokenizeLine(part, x, j) = x
        BY <2>10, <3>4, <3>5, <3>7, <3>8
      <4>. QED
        BY <3>1, <4>1
    <3>9. CASE ~Skipped(part, x.ok, j)
      <4>1. /\ TokenizeLine(text, all, k) = Behind(all.tokens, next)
            /\ TokenizeLine(part, x, j) = Behind(x.tokens, next)
        BY <2>10, <3>4, <3>5, <3>7, <3>9
      <4>. QED
        BY <3>1, <3>5, <4>1
    <3>. QED
      BY <3>8, <3>9
  <2>. QED
    BY <2>2, <2>4, <2>6, <2>11
<1> HIDE DEF S
<1>6. Len(part) \in S
  BY <1>1, <1>4, <1>5, SetInduction
<1>7. m + Len(part) = Len(text)
  BY <1>1
<1>. QED
  BY <1>1, <1>6, <1>7 DEF S

\* However long a text is and wherever it is divided, after any line that is not blank,
\* its two parts lex to the tokens of the whole.  The parts before the last line have to
\* be readable: a character that starts no token ends a call of Tokenize with an
\* exception, and a comment that is never closed ends with the call it is in.
THEOREM PartsAgree ==
  ASSUME NEW Tokens, lines \in Seq(LinesOf(Tokens)), \A i \in 1..Len(lines) - 1 : Readable(lines[i])
  PROVE  IncrementalAgrees
<1>1. PICK text : text = lines
  OBVIOUS
<1>2. text \in Seq(LinesOf(Tokens)) /\ Len(text) \in Nat /\ DOMAIN text = 1..Len(text)
  BY <1>1, LenProperties
<1>3. SUFFICES ASSUME NEW m \in 1..Len(text), ~isBlankLine(text[m]), m < Len(text), NEW first, NEW second,
                      first = Tokenize(0, SubSeq(text, 1, m)),
                      second = Tokenize(first.indent, SubSeq(text, m + 1, Len(text)))
               PROVE  first.tokens \o second.tokens = Tokenize(0, text).tokens
  BY <1>1, <1>2 DEF IncrementalAgrees
<1>4. PICK a, b : a = SubSeq(text, 1, m) /\ b = SubSeq(text, m + 1, Len(text))
  OBVIOUS
<1>5. Len(a) = m /\ DOMAIN a = 1..m /\ (\A i \in 1..m : a[i] = text[i]) /\ a # << >>
  <2>1. \A i \in 1..m : text[i] \in LinesOf(Tokens)
    BY <1>2, ElementOfSeq
  <2>2. /\ a \in Seq(LinesOf(Tokens)) /\ Len(a) = m
        /\ \A i \in 1..m : a[i] = text[1 + i - 1]
    BY <1>2, <1>4, <2>1, SubSeqProperties
  <2>. QED
    BY <1>2, <2>2, LenProperties
<1>6. /\ b \in Seq(LinesOf(Tokens)) /\ Len(b) = Len(text) - m /\ DOMAIN b = 1..Len(text) - m /\ b # << >>
      /\ \A i \in 1..Len(text) - m : b[i] = text[m + i]
  <2>1. PICK l, n : l = m + 1 /\ n = Len(text)
    OBVIOUS
  <2>2. l \in 1..n + 1 /\ n \in Int /\ \A i \in l..n : text[i] \in LinesOf(Tokens)
    BY <1>2, <1>3, <2>1, ElementOfSeq
  <2>3. /\ b \in Seq(LinesOf(Tokens)) /\ Len(b) = Len(text) - l + 1
        /\ \A i \in 1..Len(text) - l + 1 : b[i] = text[l + i - 1]
    <3>1. b = SubSeq(text, l, n)
      BY <1>4, <2>1
    <3>2. l <= n /\ l \in Int /\ n - l + 1 = Len(text) - l + 1
      BY <1>2, <1>3, <2>1
    <3>3. PICK L : L = LinesOf(Tokens)
      OBVIOUS
    <3>4. \A i \in l..n : text[i] \in L
      BY <2>2, <3>3
    <3>5. PICK c : c = SubSeq(text, l, n)
      OBVIOUS
    <3>6. c \in Seq(L) /\ (Len(c) = IF l <= n THEN n - l + 1 ELSE 0) /\ \A i \in 1..n - l + 1 : c[i] = text[l + i - 1]
      BY ONLY <2>2, <3>2, <3>4, <3>5, SubSeqProperties
    <3>. QED
      BY <3>1, <3>2, <3>3, <3>5, <3>6
  <2>4. Len(text) - l + 1 = Len(text) - m /\ \A i \in 1..Len(text) - m : l + i - 1 = m + i
    BY <1>2, <2>1
  <2>5. Len(b) = Len(text) - m /\ \A i \in 1..Len(text) - m : b[i] = text[m + i]
    BY <2>3, <2>4
  <2>6. DOMAIN b = 1..Len(text) - m
    BY <2>3, <2>5, LenProperties
  <2>7. b # << >>
    BY <1>2, <1>3, <2>5
  <2>. QED
    BY <2>3, <2>5, <2>6, <2>7
<1>7. first = After(text, 0)[m]
  <2>1. Len(a) \in Nat /\ Tokenize(0, a) = first
    BY <1>3, <1>4, <1>5
  <2>2. first = After(a, 0)[Len(a)]
    BY <1>5, <2>1, AfterFacts
  <2>3. first = After(a, 0)[m]
    BY <1>5, <2>2
  <2>. QED
    BY <1>2, <1>3, <1>5, <2>3, FirstPart
<1>8. second = After(b, first.indent)[Len(b)]
  <2>1. Len(b) \in Nat
    BY <1>6, LenProperties
  <2>. QED
    BY <1>3, <1>4, <1>6, <2>1, AfterFacts
<1>9. Tokenize(0, text) = After(text, 0)[Len(text)]
  <2>1. text # << >>
    BY <1>2, <1>3
  <2>. QED
    BY <1>2, <2>1, AfterFacts
<1>10. Tokenize(0, text) = Behind(first.tokens, second)
  <2>1. m \in 0..Len(text) /\ \A i \in 1..m : Readable(text[i])
    BY <1>1, <1>2, <1>3
  <2>2. After(text, 0)[Len(text)] = Behind(first.tokens, After(b, first.indent)[Len(b)])
    BY <1>2, <1>6, <1>7, <2>1, SecondPart
  <2>. QED
    BY <1>8, <1>9, <2>2
<1>11. Behind(first.tokens, second).tokens = first.tokens \o second.tokens
  BY DEF Behind
<1>. QED
  BY <1>10, <1>11

=============================================================================
