---------------------------- MODULE SessionProofs ---------------------------
(***************************************************************************)
(* The interactive session, for every set of lines, every length, every    *)
(* parser and every back end: its two counters agree as long as the user   *)
(* is careful, and then the end of the input leaves nothing behind; it     *)
(* keeps the promise of Shell, and the evaluator's globals are what the    *)
(* inputs left.                                                            *)
(*                                                                         *)
(* What is collected line by line has to be what Tokenize makes of the     *)
(* lines together, and the globals what the inputs make one after another: *)
(* both are recursive functions, and what they are at the end of a longer  *)
(* sequence is shown by induction on its length.                           *)
(***************************************************************************)
EXTENDS Session, SequenceTheorems, FiniteSetTheorems, Induction

TokenSet == (UNION {Range(line.toks) : line \in LineSet}) \cup {NewLine, StartBlock, EndBlock}

\* The lines the session ever reads: those of the user and the blank one that
\* the end of the input stands for.
Read == LineSet \cup {Blank}

\* What is collected is a sequence of tokens, and something is collected exactly
\* as long as lines are kept and a block or its header is open.
Collected ==
  /\ tokens \in Seq(TokenSet) /\ text \in Seq(Read)
  /\ mode = "reading" => /\ tokens = << >> <=> text = << >>
                         /\ tokens = << >> <=> indent = 0

\* The two counters agree and the collection is whole: the inductive invariant.
IInv == TypeOK /\ CountersAgree /\ Collected /\ NothingIsLeft

-----------------------------------------------------------------------------
(* Lines and their tokens.                                                 *)

LEMMA LineFacts ==
  ASSUME NEW line \in Read
  PROVE  line.spaces \in Nat /\ line.toks \in Seq(TokenSet)
<1>1. CASE line = Blank
  <2>1. << >> \in Seq(TokenSet)
    BY EmptySeq
  <2>. QED
    BY <1>1, <2>1 DEF Blank, Line
<1>2. CASE line \in LineSet
  <2>1. Range(line.toks) \subseteq TokenSet
    BY <1>2 DEF TokenSet
  <2>2. line.spaces \in Nat /\ line.toks \in Seq(Range(line.toks))
    BY <1>2, SessionAssumption
  <2>. QED
    BY <2>1, <2>2, SeqMonotonic
<1>. QED
  BY <1>1, <1>2 DEF Read

\* A line leaves the lexer at some indent, and closes what lies between.
LEMMA IndentFacts ==
  ASSUME NEW line \in Read, lexerIndent \in Nat
  PROVE  /\ LineIndent(lexerIndent, line) \in Nat
         /\ Closes(line) \in Nat
         /\ LineIndent(lexerIndent, line) <= lexerIndent
              => Closes(line) = lexerIndent - LineIndent(lexerIndent, line)
         /\ LineIndent(lexerIndent, line) > lexerIndent => Closes(line) = 0
<1>1. line.spaces \div IndentWidth \in Nat
  BY LineFacts DEF IndentWidth
<1>2. LineIndent(lexerIndent, line) \in Nat
  BY <1>1 DEF LineIndent, Min2
<1>. QED
  BY <1>2 DEF Closes

LEMMA TimesFacts ==
  ASSUME NEW n \in Nat, NEW token \in TokenSet
  PROVE  /\ Times(n, token) \in Seq(TokenSet)
         /\ Len(Times(n, token)) = n
         /\ \A i \in 1..n : Times(n, token)[i] = token
BY DEF Times

\* The tokens of a line are the block tokens, its own, and the end of the line.
LEMMA LexFacts ==
  ASSUME NEW line \in Read, lexerIndent \in Nat, ~Swallows(line)
  PROVE  /\ BlockTokens(lexerIndent, line) \o line.toks \in Seq(TokenSet)
         /\ LexLine(lexerIndent, line).tokens = (BlockTokens(lexerIndent, line) \o line.toks) \o <<NewLine>>
<1>1. BlockTokens(lexerIndent, line) \in Seq(TokenSet)
  <2>1. LineIndent(lexerIndent, line) \in Nat
    BY IndentFacts
  <2>2. StartBlock \in TokenSet /\ EndBlock \in TokenSet
    BY DEF TokenSet
  <2>3. CASE LineIndent(lexerIndent, line) > lexerIndent
    BY <2>1, <2>2, <2>3, TimesFacts DEF BlockTokens
  <2>4. CASE ~(LineIndent(lexerIndent, line) > lexerIndent)
    BY <2>1, <2>2, <2>4, TimesFacts DEF BlockTokens
  <2>. QED
    BY <2>3, <2>4
<1>2. line.toks \in Seq(TokenSet)
  BY LineFacts
<1>. QED
  BY <1>1, <1>2, ConcatProperties DEF LexLine

\* Every line adds at least the end of it.
LEMMA AllFacts ==
  ASSUME NEW line \in Read, lexerIndent \in Nat, ~Swallows(line), tokens \in Seq(TokenSet)
  PROVE  All(line) \in Seq(TokenSet) /\ All(line) # << >>
<1> DEFINE body == BlockTokens(lexerIndent, line) \o line.toks
           rest == LexLine(lexerIndent, line).tokens
<1>1. body \in Seq(TokenSet) /\ rest = body \o <<NewLine>>
  BY LexFacts
<1>2. <<NewLine>> \in Seq(TokenSet) /\ Len(<<NewLine>>) = 1
  BY DEF TokenSet
<1>. HIDE DEF body, rest
<1>3. rest \in Seq(TokenSet) /\ Len(rest) = Len(body) + 1
  BY <1>1, <1>2, ConcatProperties
<1>4. tokens \o rest \in Seq(TokenSet) /\ Len(tokens \o rest) = Len(tokens) + Len(rest)
  BY <1>3, ConcatProperties
<1>5. Len(tokens) \in Nat /\ Len(body) \in Nat
  BY <1>1, LenProperties
<1>6. Len(tokens \o rest) # 0
  BY <1>3, <1>4, <1>5
<1>7. All(line) = tokens \o rest
  BY DEF All, rest
<1>. QED
  BY <1>4, <1>6, <1>7, EmptySeq

\* What a line does to the session's count.
LEMMA CountFacts ==
  ASSUME NEW line \in Read, lexerIndent \in Nat,
         indent = lexerIndent + (IF BlockAwaited THEN 1 ELSE 0),
         IF BlockAwaited THEN LineIndent(lexerIndent, line) = lexerIndent + 1
                         ELSE LineIndent(lexerIndent, line) <= lexerIndent
  PROVE  IndentAfter(line) = LineIndent(lexerIndent, line) + (IF OpensBlock(All(line)) THEN 1 ELSE 0)
<1> DEFINE opens == IF OpensBlock(All(line)) THEN 1 ELSE 0
           to    == LineIndent(lexerIndent, line)
<1>1. opens \in Nat /\ to \in Nat /\ Closes(line) \in Nat
  BY IndentFacts
<1>2. IndentAfter(line) = indent + opens - Closes(line)
  BY DEF IndentAfter
<1>3. CASE BlockAwaited
  <2>1. to = lexerIndent + 1 /\ indent = lexerIndent + 1 /\ Closes(line) = 0
    BY <1>1, <1>3, IndentFacts
  <2>. QED
    BY <1>1, <1>2, <2>1
<1>4. CASE ~BlockAwaited
  <2>1. to <= lexerIndent /\ indent = lexerIndent /\ Closes(line) = lexerIndent - to
    BY <1>1, <1>4, IndentFacts
  <2>. QED
    BY <1>1, <1>2, <2>1
<1>. QED
  BY <1>3, <1>4

\* The blank line of the end of the input closes the blocks that are open, so
\* that the token before its last is no colon.
LEMMA BlankFacts ==
  ASSUME lexerIndent \in Nat \ {0}, tokens \in Seq(TokenSet)
  PROVE  ~OpensBlock(All(Blank))
<1> DEFINE closers == Times(lexerIndent, EndBlock)
           rest    == LexLine(lexerIndent, Blank).tokens
<1>1. EndBlock \in TokenSet /\ NewLine \in TokenSet
  BY DEF TokenSet
<1>2. /\ closers \in Seq(TokenSet) /\ Len(closers) = lexerIndent
      /\ closers[lexerIndent] = EndBlock
  BY <1>1, TimesFacts
<1>3. LineIndent(lexerIndent, Blank) = 0
  BY DEF LineIndent, Blank, Line, isBlankLine, IndentWidth, Min2
<1>4. BlockTokens(lexerIndent, Blank) = closers
  BY <1>3 DEF BlockTokens
<1>. HIDE DEF closers
<1>5. rest = closers \o <<NewLine>>
  <2>1. Blank.toks = << >> /\ ~Swallows(Blank)
    BY DEF Blank, Line, Swallows
  <2>2. closers \o << >> = closers
    BY <1>2, ConcatEmptySeq
  <2>. QED
    BY <1>4, <2>1, <2>2 DEF LexLine
<1>6. <<NewLine>> \in Seq(TokenSet) /\ Len(<<NewLine>>) = 1
  BY <1>1
<1>. HIDE DEF rest
<1>7. rest \in Seq(TokenSet) /\ Len(rest) = lexerIndent + 1 /\ rest[lexerIndent] = EndBlock
  BY <1>2, <1>5, <1>6, ConcatProperties
<1>8. /\ Len(tokens \o rest) = Len(tokens) + lexerIndent + 1
      /\ (tokens \o rest)[Len(tokens) + lexerIndent] = EndBlock
  <2>1. Len(tokens) \in Nat
    BY LenProperties
  <2>. QED
    BY <1>7, <2>1, ConcatProperties
<1>9. Len(tokens) \in Nat
  BY LenProperties
<1>10. All(Blank) = tokens \o rest
  BY DEF All, rest
<1>11. All(Blank)[Len(All(Blank)) - 1] = EndBlock
  BY <1>8, <1>9, <1>10
<1>12. EndBlock # T("COLON")
  BY DEF EndBlock, T
<1>. QED
  BY <1>11, <1>12 DEF OpensBlock

\* Nothing opens a block in an empty collection.
LEMMA NothingOpens == ~OpensBlock(<< >>)
BY DEF OpensBlock

-----------------------------------------------------------------------------
(* The invariant.                                                          *)

\* How a careful line is indented.
Fitting(line) ==
  /\ ~Swallows(line)
  /\ IF BlockAwaited THEN LineIndent(lexerIndent, line) = lexerIndent + 1
                     ELSE LineIndent(lexerIndent, line) <= lexerIndent
  /\ LexLine(lexerIndent, line).ok \/ LineIndent(lexerIndent, line) = 0

LEMMA InitInv == ASSUME Init PROVE IInv
<1>1. tokens = << >> /\ text = << >> /\ indent = 0 /\ lexerIndent = 0 /\ mode = "reading" /\ useVM \in BOOLEAN
  BY DEF Init
<1>2. << >> \in Seq(TokenSet) /\ << >> \in Seq(Read)
  BY EmptySeq
<1>3. TypeOK /\ Collected /\ NothingIsLeft
  BY <1>1, <1>2 DEF TypeOK, Collected, NothingIsLeft
<1>4. CountersAgree
  BY <1>1, NothingOpens DEF CountersAgree
<1>. QED
  BY <1>3, <1>4 DEF IInv

\* An input that is answered leaves nothing, at the margin.
LEMMA AnswerInv ==
  ASSUME IInv, useVM' = useVM, NEW line \in Read, NEW verdict, Answer(line, verdict),
         lexerIndent' = 0, mode' \in {"reading", "ended"}
  PROVE  IInv'
<1>1. tokens' = << >> /\ text' = << >> /\ indent' = 0
  BY DEF Answer
<1>2. << >> \in Seq(TokenSet) /\ << >> \in Seq(Read)
  BY EmptySeq
<1>3. TypeOK' /\ Collected' /\ NothingIsLeft'
  BY <1>1, <1>2 DEF IInv, TypeOK, Collected, NothingIsLeft
<1>4. CountersAgree'
  BY <1>1, NothingOpens DEF CountersAgree
<1>. QED
  BY <1>3, <1>4 DEF IInv

LEMMA TurnInv ==
  ASSUME IInv, mode = "reading", NEW line \in Read, Fitting(line), NEW then \in {"reading", "ended"},
         then = "ended" => line = Blank /\ tokens # << >> /\ ~BlockAwaited,
         Turn(line, then)
  PROVE  IInv'
<1> DEFINE to    == LineIndent(lexerIndent, line)
           opens == IF OpensBlock(All(line)) THEN 1 ELSE 0
<1>1. /\ lexerIndent \in Nat /\ tokens \in Seq(TokenSet) /\ text \in Seq(Read)
      /\ indent = lexerIndent + (IF BlockAwaited THEN 1 ELSE 0)
      /\ tokens = << >> <=> indent = 0
  BY DEF IInv, TypeOK, Collected, CountersAgree, BlockAwaited
<1>2. lexerIndent' = to /\ to \in Nat
  BY <1>1, IndentFacts DEF Turn, LexLine
<1>3. IndentAfter(line) = to + opens
  BY <1>1, CountFacts DEF Fitting
<1>4. useVM' = useVM
  BY DEF Turn
<1>5. opens \in Nat
  OBVIOUS
<1>6. Complete(line) => to = 0
  BY <1>2, <1>3, <1>5 DEF Complete
<1>7. All(line) \in Seq(TokenSet) /\ All(line) # << >>
  BY <1>1, AllFacts DEF Fitting
<1>8. Append(text, line) \in Seq(Read) /\ Append(text, line) # << >>
  <2>1. Append(text, line) \in Seq(Read) /\ Len(Append(text, line)) = Len(text) + 1
    BY <1>1, AppendProperties
  <2>2. Len(text) \in Nat
    BY <1>1, LenProperties
  <2>3. Len(Append(text, line)) # 0
    BY <2>1, <2>2
  <2>. QED
    BY <2>1, <2>3, EmptySeq
<1>9. CASE Unreadable(line) /\ mode' = then
  <2>1. to = 0
    BY <1>9 DEF Fitting, Unreadable
  <2>. QED
    BY <1>2, <1>4, <1>9, <2>1, AnswerInv DEF Unreadable
<1>10. CASE Continues(line) /\ mode' = then
  <2>1. tokens' = All(line) /\ indent' = to + opens /\ indent' # 0 /\ text' = Append(text, line)
    BY <1>3, <1>10 DEF Continues
  <2>2. then # "ended"
    <3>1. SUFFICES ASSUME then = "ended" PROVE FALSE
      OBVIOUS
    <3>2. line = Blank /\ indent # 0 /\ indent = lexerIndent
      BY <1>1, <3>1
    <3>3. opens = 0
      BY <1>1, <3>2, BlankFacts
    <3>4. to = 0
      BY <1>1, <3>2 DEF LineIndent, Blank, Line, isBlankLine, IndentWidth, Min2
    <3>. QED
      BY <2>1, <3>3, <3>4
  <2>3. TypeOK'
    BY <1>2, <1>4, <1>5, <1>10, <2>1 DEF IInv, TypeOK
  <2>4. CountersAgree'
    BY <1>2, <2>1 DEF CountersAgree
  <2>5. Collected'
    BY <1>7, <1>8, <2>1 DEF Collected
  <2>6. NothingIsLeft'
    BY <1>10, <2>2 DEF NothingIsLeft
  <2>. QED
    BY <2>3, <2>4, <2>5, <2>6 DEF IInv
<1>11. CASE (Rejected(line) \/ Executed(line)) /\ mode' = then
  <2>1. Complete(line) /\ \E verdict : Answer(line, verdict)
    BY <1>11 DEF Rejected, Executed
  <2>2. PICK verdict : Answer(line, verdict)
    BY <2>1
  <2>. QED
    BY <1>2, <1>4, <1>6, <1>11, <2>1, <2>2, AnswerInv
<1>12. CASE Crashes(line)
  <2>1. tokens' = All(line) /\ indent' = 0 /\ text' = Append(text, line) /\ mode' = "crashed"
    BY <1>12 DEF Crashes
  <2>2. TypeOK'
    BY <1>2, <1>4, <2>1 DEF IInv, TypeOK
  <2>. QED
    BY <1>7, <1>8, <2>1, <2>2 DEF IInv, CountersAgree, Collected, NothingIsLeft
<1>. QED
  BY <1>9, <1>10, <1>11, <1>12 DEF Turn

LEMMA NextInv == ASSUME Careful, IInv, [Next]_vars PROVE IInv'
<1>1. CASE EnterLine
  <2>1. PICK line \in LineSet : WellIndented(line) /\ Turn(line, "reading")
    BY <1>1 DEF EnterLine
  <2>2. Fitting(line)
    BY <2>1 DEF WellIndented, Fitting
  <2>3. mode = "reading" /\ line \in Read
    BY <1>1 DEF EnterLine, Read
  <2>. QED
    BY <2>1, <2>2, <2>3, TurnInv
<1>2. CASE EndOfInput /\ tokens # << >>
  <2>1. mode = "reading" /\ ~BlockAwaited /\ Turn(Blank, "ended")
    BY <1>2 DEF EndOfInput
  <2>2. lexerIndent \in Nat
    BY DEF IInv, TypeOK
  <2>3. LineIndent(lexerIndent, Blank) = 0 /\ ~Swallows(Blank)
    BY <2>2 DEF LineIndent, Blank, Line, isBlankLine, IndentWidth, Min2, Swallows
  <2>4. Fitting(Blank) /\ Blank \in Read
    BY <2>1, <2>2, <2>3 DEF Fitting, Read
  <2>. QED
    BY <1>2, <2>1, <2>4, TurnInv
<1>3. CASE /\ mode = "reading" /\ mode' \in {"ended", "left"}
           /\ mode' = "ended" => tokens = << >>
           /\ UNCHANGED <<useVM, tokens, indent, lexerIndent, globals, text, answers>>
  <2>1. text = << >> \/ mode' # "ended"
    BY <1>3 DEF IInv, Collected
  <2>2. TypeOK' /\ Collected' /\ NothingIsLeft'
    BY <1>3, <2>1 DEF IInv, TypeOK, Collected, NothingIsLeft
  <2>3. CountersAgree'
    BY <1>3 DEF IInv, CountersAgree
  <2>. QED
    BY <2>2, <2>3 DEF IInv
<1>4. CASE UNCHANGED vars
  BY <1>4 DEF vars, IInv, TypeOK, CountersAgree, Collected, NothingIsLeft
<1>5. CASE EndOfInput /\ tokens = << >>
  BY <1>3, <1>5 DEF EndOfInput
<1>6. CASE ExitCommand
  BY <1>3, <1>6 DEF ExitCommand
<1>. QED
  BY <1>1, <1>2, <1>4, <1>5, <1>6 DEF Next

LEMMA Invariance == ASSUME Careful PROVE Spec => []IInv
BY InitInv, NextInv, PTL DEF Spec

-----------------------------------------------------------------------------

\* The session's variables keep their types; the lexer's indent never falls
\* below zero, whatever number of blocks a line closes.
THEOREM SessionTypeCorrect == ASSUME Careful PROVE Spec => []TypeOK
<1>1. IInv => TypeOK
  BY DEF IInv
<1>. QED
  BY <1>1, Invariance, PTL

\* Whatever a careful user enters, the session's count of open blocks is the
\* lexer's, with one more while a header awaits its block (repl.cpp:84-95): no
\* input is run before its blocks are closed, and none is waited for in vain.
THEOREM CountersStayEqual == ASSUME Careful PROVE Spec => []CountersAgree
<1>1. IInv => CountersAgree
  BY DEF IInv
<1>. QED
  BY <1>1, Invariance, PTL

\* The end of the input answers what was entered, in one blank line whatever
\* the number of open blocks (repl.cpp:65-73).
THEOREM EndLeavesNothing == ASSUME Careful PROVE Spec => []NothingIsLeft
<1>1. IInv => NothingIsLeft
  BY DEF IInv
<1>. QED
  BY <1>1, Invariance, PTL

-----------------------------------------------------------------------------
(* Tokenize, one line after another.                                       *)

Margin == [indent |-> 0, tokens |-> << >>, ok |-> TRUE]

\* f is what becomes of the first n lines.
Lexes(f, lines, n) == f = [i \in 0..n |-> IF i = 0 THEN Margin ELSE TokenizeLine(lines, f[i - 1], i)]
After(lines)       == CHOOSE f : Lexes(f, lines, Len(lines))
Lexed(lines)       == After(lines)[Len(lines)]

LEMMA LexesExists == ASSUME NEW lines, NEW n \in Nat PROVE \E f : Lexes(f, lines, n)
<1> DEFINE S == {m \in Nat : \E f : Lexes(f, lines, m)}
<1>1. 0 \in S
  <2> DEFINE f == [i \in 0..0 |-> Margin]
  <2>1. Lexes(f, lines, 0)
    BY DEF Lexes
  <2>. QED
    BY <2>1
<1>2. ASSUME NEW m \in Nat, m \in S PROVE m + 1 \in S
  <2>1. PICK f : Lexes(f, lines, m)
    BY <1>2
  <2> DEFINE g == [i \in 0..m + 1 |-> IF i <= m THEN f[i] ELSE TokenizeLine(lines, f[m], m + 1)]
  <2>2. \A i \in 0..m : f[i] = IF i = 0 THEN Margin ELSE TokenizeLine(lines, f[i - 1], i)
    BY <2>1 DEF Lexes
  <2>3. ASSUME NEW i \in 0..m + 1
        PROVE  g[i] = IF i = 0 THEN Margin ELSE TokenizeLine(lines, g[i - 1], i)
    <3>1. CASE i = m + 1
      <4>1. g[i] = TokenizeLine(lines, f[m], m + 1) /\ i - 1 = m /\ g[m] = f[m] /\ i # 0
        BY <3>1
      <4>. QED
        BY <3>1, <4>1
    <3>2. CASE i \in 0..m
      <4>1. g[i] = f[i]
        BY <3>2
      <4>2. i # 0 => g[i - 1] = f[i - 1]
        BY <3>2
      <4>. HIDE DEF g
      <4>. QED
        BY <2>2, <3>2, <4>1, <4>2
    <3>. QED
      BY <3>1, <3>2
  <2>4. g = [i \in 0..m + 1 |-> g[i]]
    OBVIOUS
  <2>. HIDE DEF g
  <2>5. Lexes(g, lines, m + 1)
    BY <2>3, <2>4 DEF Lexes
  <2>. QED
    BY <2>5
<1>. HIDE DEF S
<1>3. n \in S
  BY <1>1, <1>2, SetInduction
<1>. QED
  BY <1>3 DEF S

LEMMA AfterFacts ==
  ASSUME NEW lines \in Seq(Read)
  PROVE  /\ After(lines)[0] = Margin
         /\ \A i \in 1..Len(lines) : After(lines)[i] = TokenizeLine(lines, After(lines)[i - 1], i)
<1>1. Len(lines) \in Nat
  BY LenProperties
<1>2. Lexes(After(lines), lines, Len(lines))
  BY <1>1, LexesExists DEF After
<1>3. \A i \in 0..Len(lines) :
        After(lines)[i] = IF i = 0 THEN Margin ELSE TokenizeLine(lines, After(lines)[i - 1], i)
  BY <1>1, <1>2 DEF Lexes
<1>. QED
  BY <1>1, <1>3

\* A text is what its lines are, and closed.
LEMMA AsFileFacts ==
  ASSUME NEW lines \in Seq(Read), lines # << >>
  PROVE  AsFile(lines) = [Lexed(lines) EXCEPT !.tokens = appendMissingBlockClosers(@)]
<1>1. Tokenize(0, lines) = Lexed(lines)
  BY DEF Tokenize, Lexed, After, Lexes, Margin
<1>. QED
  BY <1>1 DEF AsFile, LexText

\* Lines that are collected: none is blank, and none swallows the next.
Plain(lines) == \A i \in 1..Len(lines) : ~isBlankLine(lines[i]) /\ ~Swallows(lines[i])

\* A line more changes nothing in what became of the lines before it.
LEMMA PrefixFacts ==
  ASSUME NEW lines \in Seq(Read), Plain(lines), NEW line \in Read
  PROVE  After(Append(lines, line))[Len(lines)] = Lexed(lines)
<1> DEFINE longer == Append(lines, line)
           S == {i \in Nat : i <= Len(lines) => After(longer)[i] = After(lines)[i]}
<1>1. /\ longer \in Seq(Read) /\ Len(longer) = Len(lines) + 1 /\ Len(lines) \in Nat
      /\ \A i \in 1..Len(lines) : longer[i] = lines[i]
  BY AppendProperties, LenProperties
<1>. HIDE DEF longer
<1>2. 0 \in S
  BY <1>1, AfterFacts
<1>3. ASSUME NEW i \in Nat, i \in S PROVE i + 1 \in S
  <2>1. SUFFICES ASSUME i + 1 <= Len(lines) PROVE After(longer)[i + 1] = After(lines)[i + 1]
    OBVIOUS
  <2>2. After(longer)[i] = After(lines)[i]
    BY <1>1, <1>3, <2>1
  <2>3. i + 1 \in 1..Len(lines) /\ i + 1 \in 1..Len(longer) /\ i + 1 - 1 = i
    BY <1>1, <2>1
  <2>4. /\ After(longer)[i + 1] = TokenizeLine(longer, After(longer)[i], i + 1)
        /\ After(lines)[i + 1] = TokenizeLine(lines, After(lines)[i], i + 1)
    BY <1>1, <2>3, AfterFacts
  <2>5. /\ longer[i + 1] = lines[i + 1] /\ ~isBlankLine(lines[i + 1])
        /\ \A j \in 1..i + 1 - 1 : longer[j] = lines[j] /\ ~Swallows(lines[j])
    BY <1>1, <2>3 DEF Plain
  <2>6. \A lexed : TokenizeLine(longer, lexed, i + 1) = TokenizeLine(lines, lexed, i + 1)
    BY <2>5 DEF TokenizeLine
  <2>. QED
    BY <2>2, <2>4, <2>6
<1>. HIDE DEF S
<1>4. Len(lines) \in S
  BY <1>1, <1>2, <1>3, SetInduction
<1>. QED
  BY <1>1, <1>4 DEF S, longer, Lexed

\* The tokens of a text with one line more are its tokens and those of the line.
LEMMA LexedAppend ==
  ASSUME NEW lines \in Seq(Read), Plain(lines), NEW line \in Read, NEW n, NEW toks,
         Lexed(lines) = [indent |-> n, tokens |-> toks, ok |-> TRUE]
  PROVE  Lexed(Append(lines, line)) =
           [indent |-> LineIndent(n, line), tokens |-> toks \o LexLine(n, line).tokens, ok |-> LexLine(n, line).ok]
<1> DEFINE longer == Append(lines, line)
           last   == Len(longer)
<1>1. /\ longer \in Seq(Read) /\ last = Len(lines) + 1 /\ Len(lines) \in Nat
      /\ \A i \in 1..Len(lines) : longer[i] = lines[i]
      /\ longer[Len(lines) + 1] = line
      /\ DOMAIN longer = 1..Len(lines) + 1
  BY AppendProperties, LenProperties
<1>2. After(longer)[Len(lines)] = Lexed(lines)
  BY PrefixFacts
<1>. HIDE DEF longer
<1>3. Lexed(longer) = TokenizeLine(longer, Lexed(lines), last)
  <2>1. last \in 1..Len(longer) /\ last - 1 = Len(lines)
    BY <1>1
  <2>2. After(longer)[last] = TokenizeLine(longer, After(longer)[last - 1], last)
    BY <1>1, <2>1, AfterFacts
  <2>. QED
    BY <1>2, <2>1, <2>2 DEF Lexed
<1>4. ~hasCodeAfterBlankLines(longer, last)
  BY <1>1 DEF hasCodeAfterBlankLines
<1>5. \A j \in 1..last - 1 : ~Swallows(longer[j])
  BY <1>1 DEF Plain
<1>6. longer[last] = line
  BY <1>1
<1>. HIDE DEF last
<1>7. TokenizeLine(longer, Lexed(lines), last) =
        [LexLine(n, line) EXCEPT !.tokens = toks \o LexLine(n, line).tokens]
  BY <1>4, <1>5, <1>6 DEF TokenizeLine
<1>8. [LexLine(n, line) EXCEPT !.tokens = toks \o LexLine(n, line).tokens] =
        [indent |-> LineIndent(n, line), tokens |-> toks \o LexLine(n, line).tokens, ok |-> LexLine(n, line).ok]
  <2> DEFINE next == LexLine(n, line)
         all  == toks \o next.tokens
  <2>1. PICK x, y : next = [indent |-> LineIndent(n, line), tokens |-> x, ok |-> y]
    BY DEF LexLine
  <2>. HIDE DEF next
  <2>. HIDE DEF all
  <2>2. [next EXCEPT !.tokens = all] = [indent |-> LineIndent(n, line), tokens |-> all, ok |-> next.ok]
    BY <2>1
  <2>. QED
    BY <2>2 DEF next, all
<1>. QED
  BY <1>3, <1>7, <1>8 DEF longer

-----------------------------------------------------------------------------
(* How many blocks the tokens of a line open.                              *)

LEMMA CountConcat ==
  ASSUME NEW s \in Seq(TokenSet), NEW t \in Seq(TokenSet), NEW x
  PROVE  Count(s, x) \in Nat /\ Count(s \o t, x) = Count(s, x) + Count(t, x)
<1> DEFINE A == {i \in 1..Len(s) : s[i] = x}
           B == {i \in 1..Len(t) : t[i] = x}
           C == {i \in 1..Len(s \o t) : (s \o t)[i] = x}
           D == C \ A
<1>1. /\ Len(s) \in Nat /\ Len(t) \in Nat
      /\ DOMAIN s = 1..Len(s) /\ DOMAIN t = 1..Len(t)
      /\ Len(s \o t) = Len(s) + Len(t) /\ DOMAIN (s \o t) = 1..Len(s) + Len(t)
      /\ \A i \in 1..Len(s) + Len(t) : (s \o t)[i] = IF i <= Len(s) THEN s[i] ELSE t[i - Len(s)]
  BY ConcatProperties, LenProperties
<1>2. Count(s, x) = Cardinality(A) /\ Count(t, x) = Cardinality(B) /\ Count(s \o t, x) = Cardinality(C)
  BY <1>1 DEF Count
<1>3. IsFiniteSet(A) /\ IsFiniteSet(B)
  <2>1. IsFiniteSet(1..Len(s)) /\ IsFiniteSet(1..Len(t))
    BY <1>1, FS_Interval
  <2>2. A \in SUBSET (1..Len(s)) /\ B \in SUBSET (1..Len(t))
    OBVIOUS
  <2>. HIDE DEF A, B
  <2>. QED
    BY <2>1, <2>2, FS_Subset
<1>4. C = A \cup D /\ A \cap D = {}
  BY <1>1
<1>5. \A i : i \in D <=> i \in Nat /\ i > Len(s) /\ i - Len(s) \in B
  BY <1>1
<1>6. ExistsBijection(B, D)
  <2> DEFINE f == [i \in B |-> i + Len(s)]
  <2>1. \A i \in B : i \in Nat /\ i > 0
    BY <1>1
  <2>. HIDE DEF B, D
  <2>2. \A i \in B : f[i] \in D
    BY <1>1, <1>5, <2>1
  <2>3. f \in [B -> D]
    BY <2>2
  <2>4. \A i, j \in B : f[i] = f[j] => i = j
    BY <1>1, <2>1
  <2>5. \A k \in D : \E i \in B : f[i] = k
    <3>1. TAKE k \in D
    <3>2. k \in Nat /\ k - Len(s) \in B
      BY <1>5
    <3>3. f[k - Len(s)] = k - Len(s) + Len(s) /\ k - Len(s) + Len(s) = k
      BY <1>1, <3>2
    <3>. QED
      BY <3>2, <3>3
  <2>. HIDE DEF f
  <2>6. f \in Bijection(B, D)
    BY <2>3, <2>4, <2>5 DEF Bijection, Injection, Surjection, IsInjective
  <2>. QED
    BY <2>6 DEF ExistsBijection
<1>. HIDE DEF A, B, C, D
<1>7. IsFiniteSet(D) /\ Cardinality(D) = Cardinality(B)
  BY <1>3, <1>6, FS_Bijection
<1>8. Cardinality(A) \in Nat /\ Cardinality(B) \in Nat
  BY <1>3, FS_CardinalityType
<1>9. Cardinality(A \cup D) = Cardinality(A) + Cardinality(D) - Cardinality(A \cap D)
  BY <1>3, <1>7, FS_Union
<1>10. Cardinality(A \cap D) = 0
  BY <1>4, FS_EmptySet
<1>. QED
  BY <1>2, <1>4, <1>7, <1>8, <1>9, <1>10

LEMMA CountTimes ==
  ASSUME NEW n \in Nat, NEW token, NEW x
  PROVE  Count(Times(n, token), x) = IF token = x THEN n ELSE 0
<1>1. DOMAIN Times(n, token) = 1..n /\ \A i \in 1..n : Times(n, token)[i] = token
  BY DEF Times
<1>2. CASE token = x
  <2>1. {i \in DOMAIN Times(n, token) : Times(n, token)[i] = x} = 1..n
    BY <1>1, <1>2
  <2>2. Cardinality(1..n) = n
    BY FS_Interval
  <2>. QED
    BY <1>2, <2>1, <2>2 DEF Count
<1>3. CASE token # x
  <2>1. {i \in DOMAIN Times(n, token) : Times(n, token)[i] = x} = {}
    BY <1>1, <1>3
  <2>. QED
    BY <1>3, <2>1, FS_EmptySet DEF Count
<1>. QED
  BY <1>2, <1>3

\* A line opens and closes blocks by its indentation alone.
LEMMA LineDepth ==
  ASSUME NEW line \in Read, lexerIndent \in Nat, ~Swallows(line), tokens \in Seq(TokenSet)
  PROVE  Depth(All(line)) = Depth(tokens) + LineIndent(lexerIndent, line) - lexerIndent
<1> DEFINE blocks == BlockTokens(lexerIndent, line)
           own    == line.toks
           rest   == LexLine(lexerIndent, line).tokens
           to     == LineIndent(lexerIndent, line)
           counts == {StartBlock, EndBlock}
<1>1. rest = (blocks \o own) \o <<NewLine>>
  BY LexFacts
<1>2. StartBlock # EndBlock /\ NewLine \notin counts /\ {NewLine, StartBlock, EndBlock} \subseteq TokenSet
  BY DEF NewLine, StartBlock, EndBlock, T, TokenSet
<1>3. to \in Nat
  BY IndentFacts
<1>4. /\ blocks \in Seq(TokenSet)
      /\ Count(blocks, StartBlock) - Count(blocks, EndBlock) = to - lexerIndent
  <2>1. CASE to > lexerIndent
    <3>1. to - lexerIndent \in Nat /\ blocks = Times(to - lexerIndent, StartBlock)
      BY <1>3, <2>1 DEF BlockTokens
    <3>2. Count(blocks, StartBlock) = to - lexerIndent /\ Count(blocks, EndBlock) = 0
      BY <1>2, <3>1, CountTimes
    <3>. QED
      BY <1>2, <1>3, <3>1, <3>2, TimesFacts
  <2>2. CASE ~(to > lexerIndent)
    <3>1. lexerIndent - to \in Nat /\ blocks = Times(lexerIndent - to, EndBlock)
      BY <1>3, <2>2 DEF BlockTokens
    <3>2. Count(blocks, EndBlock) = lexerIndent - to /\ Count(blocks, StartBlock) = 0
      BY <1>2, <3>1, CountTimes
    <3>. QED
      BY <1>2, <1>3, <3>1, <3>2, TimesFacts
  <2>. QED
    BY <2>1, <2>2
<1>5. own \in Seq(TokenSet) /\ \A x \in counts : Count(own, x) = 0
  <2>1. own \in Seq(TokenSet)
    BY LineFacts
  <2>2. ASSUME NEW x \in counts, NEW i \in DOMAIN own PROVE own[i] # x
    <3>1. CASE line = Blank
      BY <2>2, <3>1 DEF Blank, Line
    <3>2. CASE line \in LineSet
      <4>1. own[i] \in Range(own)
        BY <2>2 DEF Range
      <4>. QED
        BY <2>2, <3>2, <4>1, SessionAssumption
    <3>. QED
      BY <3>1, <3>2 DEF Read
  <2>3. \A x \in counts : {i \in DOMAIN own : own[i] = x} = {}
    BY <2>2
  <2>. QED
    BY <2>1, <2>3, FS_EmptySet DEF Count
<1>6. <<NewLine>> \in Seq(TokenSet) /\ \A x \in counts : Count(<<NewLine>>, x) = 0
  <2>1. \A x \in counts : {i \in DOMAIN <<NewLine>> : <<NewLine>>[i] = x} = {}
    BY <1>2
  <2>2. <<NewLine>> \in Seq(TokenSet)
    BY <1>2
  <2>3. \A x \in counts : Count(<<NewLine>>, x) = Cardinality({})
    BY <2>1 DEF Count
  <2>. QED
    BY <2>2, <2>3, FS_EmptySet
<1>. HIDE DEF blocks, own, rest, to
<1>7. blocks \o own \in Seq(TokenSet) /\ rest \in Seq(TokenSet)
  BY <1>1, <1>4, <1>5, <1>6, ConcatProperties
<1>8. ASSUME NEW x \in counts
      PROVE  Count(rest, x) = Count(blocks, x) /\ Count(blocks, x) \in Nat
  <2>1. Count(blocks \o own, x) = Count(blocks, x) + Count(own, x) /\ Count(blocks, x) \in Nat
    BY <1>4, <1>5, CountConcat
  <2>2. Count(rest, x) = Count(blocks \o own, x) + Count(<<NewLine>>, x)
    <3>1. PICK first, last : first = blocks \o own /\ last = <<NewLine>>
      OBVIOUS
    <3>2. first \in Seq(TokenSet) /\ last \in Seq(TokenSet) /\ rest = first \o last
      BY <1>1, <1>6, <1>7, <3>1
    <3>3. Count(first \o last, x) = Count(first, x) + Count(last, x)
      BY ONLY <3>2, CountConcat
    <3>. QED
      BY <3>1, <3>2, <3>3
  <2>. QED
    BY <1>5, <1>6, <2>1, <2>2
<1>9. ASSUME NEW x \in counts
      PROVE  Count(tokens \o rest, x) = Count(tokens, x) + Count(blocks, x) /\ Count(tokens, x) \in Nat
  <2>1. Count(tokens \o rest, x) = Count(tokens, x) + Count(rest, x) /\ Count(tokens, x) \in Nat
    BY <1>7, CountConcat
  <2>2. Count(rest, x) = Count(blocks, x)
    BY <1>8, <1>9
  <2>. QED
    BY <2>1, <2>2
<1>10. All(line) = tokens \o rest
  BY DEF All, rest
<1>11. StartBlock \in counts /\ EndBlock \in counts
  OBVIOUS
<1>. HIDE DEF counts
<1>12. /\ Count(tokens \o rest, StartBlock) = Count(tokens, StartBlock) + Count(blocks, StartBlock)
       /\ Count(tokens \o rest, EndBlock) = Count(tokens, EndBlock) + Count(blocks, EndBlock)
       /\ Count(tokens, StartBlock) \in Nat /\ Count(tokens, EndBlock) \in Nat
       /\ Count(blocks, StartBlock) \in Nat /\ Count(blocks, EndBlock) \in Nat
  BY <1>8, <1>9, <1>11
<1>13. Depth(All(line)) = (Count(tokens, StartBlock) - Count(tokens, EndBlock)) + (to - lexerIndent)
  BY <1>4, <1>10, <1>12 DEF Depth
<1>. QED
  BY <1>3, <1>12, <1>13 DEF Depth, to

-----------------------------------------------------------------------------
(* What the inputs leave, one after another.                               *)

Inputs == [text : Seq(Read), verdict : {"unreadable", "rejected", "ran", "failed"}]

Leaving(g, answer) ==
  IF answer.verdict \in {"ran", "failed"} THEN Run(Parse(AsFile(answer.text).tokens).program, g).globals ELSE g

\* f is what the first n inputs leave.
Leave(f, inputs, n) == f = [i \in 0..n |-> IF i = 0 THEN NoGlobals ELSE Leaving(f[i - 1], inputs[i])]
AfterAll(inputs)    == CHOOSE f : Leave(f, inputs, Len(inputs))
Left(inputs)        == AfterAll(inputs)[Len(inputs)]

LEMMA LeaveExists == ASSUME NEW inputs, NEW n \in Nat PROVE \E f : Leave(f, inputs, n)
<1> DEFINE S == {m \in Nat : \E f : Leave(f, inputs, m)}
<1>1. 0 \in S
  <2> DEFINE f == [i \in 0..0 |-> NoGlobals]
  <2>1. Leave(f, inputs, 0)
    BY DEF Leave
  <2>. QED
    BY <2>1
<1>2. ASSUME NEW m \in Nat, m \in S PROVE m + 1 \in S
  <2>1. PICK f : Leave(f, inputs, m)
    BY <1>2
  <2> DEFINE g == [i \in 0..m + 1 |-> IF i <= m THEN f[i] ELSE Leaving(f[m], inputs[m + 1])]
  <2>2. \A i \in 0..m : f[i] = IF i = 0 THEN NoGlobals ELSE Leaving(f[i - 1], inputs[i])
    BY <2>1 DEF Leave
  <2>3. ASSUME NEW i \in 0..m + 1
        PROVE  g[i] = IF i = 0 THEN NoGlobals ELSE Leaving(g[i - 1], inputs[i])
    <3>1. CASE i = m + 1
      <4>1. g[i] = Leaving(f[m], inputs[m + 1]) /\ i - 1 = m /\ g[m] = f[m] /\ i # 0
        BY <3>1
      <4>. QED
        BY <3>1, <4>1
    <3>2. CASE i \in 0..m
      <4>1. g[i] = f[i]
        BY <3>2
      <4>2. i # 0 => g[i - 1] = f[i - 1]
        BY <3>2
      <4>. HIDE DEF g
      <4>. QED
        BY <2>2, <3>2, <4>1, <4>2
    <3>. QED
      BY <3>1, <3>2
  <2>4. g = [i \in 0..m + 1 |-> g[i]]
    OBVIOUS
  <2>. HIDE DEF g
  <2>5. Leave(g, inputs, m + 1)
    BY <2>3, <2>4 DEF Leave
  <2>. QED
    BY <2>5
<1>. HIDE DEF S
<1>3. n \in S
  BY <1>1, <1>2, SetInduction
<1>. QED
  BY <1>3 DEF S

LEMMA AfterAllFacts ==
  ASSUME NEW inputs \in Seq(Inputs)
  PROVE  /\ AfterAll(inputs)[0] = NoGlobals
         /\ \A i \in 1..Len(inputs) : AfterAll(inputs)[i] = Leaving(AfterAll(inputs)[i - 1], inputs[i])
<1>1. Len(inputs) \in Nat
  BY LenProperties
<1>2. Leave(AfterAll(inputs), inputs, Len(inputs))
  BY <1>1, LeaveExists DEF AfterAll
<1>3. \A i \in 0..Len(inputs) :
        AfterAll(inputs)[i] = IF i = 0 THEN NoGlobals ELSE Leaving(AfterAll(inputs)[i - 1], inputs[i])
  BY <1>1, <1>2 DEF Leave
<1>. QED
  BY <1>1, <1>3

\* One input more works on what those before it left.
LEMMA LeftAppend ==
  ASSUME NEW inputs \in Seq(Inputs), NEW input \in Inputs
  PROVE  Left(Append(inputs, input)) = Leaving(Left(inputs), input)
<1> DEFINE longer == Append(inputs, input)
           S == {i \in Nat : i <= Len(inputs) => AfterAll(longer)[i] = AfterAll(inputs)[i]}
<1>1. /\ longer \in Seq(Inputs) /\ Len(longer) = Len(inputs) + 1 /\ Len(inputs) \in Nat
      /\ \A i \in 1..Len(inputs) : longer[i] = inputs[i]
      /\ longer[Len(inputs) + 1] = input
  BY AppendProperties, LenProperties
<1>. HIDE DEF longer
<1>2. 0 \in S
  BY <1>1, AfterAllFacts
<1>3. ASSUME NEW i \in Nat, i \in S PROVE i + 1 \in S
  <2>1. SUFFICES ASSUME i + 1 <= Len(inputs) PROVE AfterAll(longer)[i + 1] = AfterAll(inputs)[i + 1]
    OBVIOUS
  <2>2. AfterAll(longer)[i] = AfterAll(inputs)[i]
    BY <1>1, <1>3, <2>1
  <2>3. i + 1 \in 1..Len(inputs) /\ i + 1 \in 1..Len(longer) /\ i + 1 - 1 = i
    BY <1>1, <2>1
  <2>4. /\ AfterAll(longer)[i + 1] = Leaving(AfterAll(longer)[i], longer[i + 1])
        /\ AfterAll(inputs)[i + 1] = Leaving(AfterAll(inputs)[i], inputs[i + 1])
    BY <1>1, <2>3, AfterAllFacts
  <2>. QED
    BY <1>1, <2>2, <2>3, <2>4
<1>. HIDE DEF S
<1>4. Len(inputs) \in S
  BY <1>1, <1>2, <1>3, SetInduction
<1>5. AfterAll(longer)[Len(inputs)] = AfterAll(inputs)[Len(inputs)]
  BY <1>1, <1>4 DEF S
<1>6. Len(inputs) + 1 \in 1..Len(longer) /\ Len(inputs) + 1 - 1 = Len(inputs)
  BY <1>1
<1>7. AfterAll(longer)[Len(inputs) + 1] = Leaving(AfterAll(longer)[Len(inputs)], longer[Len(inputs) + 1])
  BY <1>1, <1>6, AfterAllFacts
<1>. QED
  BY <1>1, <1>5, <1>7 DEF Left, longer

LEMMA RememberedIsLeft == Remembered = Left(answers)
BY DEF Remembered, Left, AfterAll, Leave, Leaving

-----------------------------------------------------------------------------
(* The line before the prompt.                                             *)

\* A line opens a block exactly when its last token is a colon: no token is
\* missed for the block tokens and the end of the line around it.
LEMMA OpensFacts ==
  ASSUME NEW line \in Read, lexerIndent \in Nat, ~Swallows(line), tokens \in Seq(TokenSet),
         tokens # << >> => tokens[Len(tokens)] = NewLine
  PROVE  /\ OpensBlock(All(line)) <=> line.toks # << >> /\ line.toks[Len(line.toks)] = T("COLON")
         /\ All(line)[Len(All(line))] = NewLine
<1> DEFINE blocks == BlockTokens(lexerIndent, line)
           own    == line.toks
           body   == blocks \o own
           rest   == LexLine(lexerIndent, line).tokens
           all    == All(line)
           end    == <<NewLine>>
<1>1. rest = body \o end /\ all = tokens \o rest
  BY LexFacts DEF All
<1>2. /\ blocks \in Seq(TokenSet)
      /\ \A i \in 1..Len(blocks) : blocks[i] \in {StartBlock, EndBlock}
  <2>1. {StartBlock, EndBlock} \subseteq TokenSet /\ LineIndent(lexerIndent, line) \in Nat
    BY IndentFacts DEF TokenSet
  <2>2. PICK n \in Nat, token \in {StartBlock, EndBlock} : blocks = Times(n, token)
    BY <2>1 DEF BlockTokens
  <2>3. /\ Times(n, token) \in Seq(TokenSet) /\ Len(Times(n, token)) = n
        /\ \A i \in 1..n : Times(n, token)[i] = token
    BY <2>1, <2>2, TimesFacts
  <2>. HIDE DEF blocks
  <2>. QED
    BY <2>2, <2>3
<1>3. own \in Seq(TokenSet)
  BY LineFacts
<1>4. end \in Seq(TokenSet) /\ Len(end) = 1 /\ end[1] = NewLine
  BY DEF TokenSet
<1>5. T("COLON") \notin {StartBlock, EndBlock, NewLine}
  BY DEF StartBlock, EndBlock, NewLine, T
<1>. HIDE DEF blocks, own, rest, all, end
<1>6. /\ body \in Seq(TokenSet) /\ Len(body) = Len(blocks) + Len(own)
      /\ Len(blocks) \in Nat /\ Len(own) \in Nat
      /\ \A i \in 1..Len(blocks) + Len(own) : body[i] = IF i <= Len(blocks) THEN blocks[i] ELSE own[i - Len(blocks)]
  BY <1>2, <1>3, ConcatProperties, LenProperties
<1>. HIDE DEF body
<1>7. /\ rest \in Seq(TokenSet) /\ Len(rest) = Len(body) + 1
      /\ rest[Len(body) + 1] = NewLine
      /\ \A i \in 1..Len(body) : rest[i] = body[i]
  <2>1. \A i \in 1..Len(body) + 1 : rest[i] = IF i <= Len(body) THEN body[i] ELSE end[i - Len(body)]
    BY <1>1, <1>4, <1>6, ConcatProperties
  <2>2. rest \in Seq(TokenSet) /\ Len(rest) = Len(body) + Len(end)
    BY <1>1, <1>4, <1>6, ConcatProperties
  <2>3. Len(body) \in Nat
    BY <1>6
  <2>4. rest[Len(body) + 1] = NewLine
    <3>1. /\ Len(body) + 1 \in 1..Len(body) + 1 /\ ~(Len(body) + 1 <= Len(body))
          /\ Len(body) + 1 - Len(body) = 1
      BY <2>3
    <3>. QED
      BY <1>4, <2>1, <3>1
  <2>5. \A i \in 1..Len(body) : rest[i] = body[i]
    BY <2>1, <2>3
  <2>. QED
    BY <1>4, <2>2, <2>4, <2>5
<1>8. /\ Len(all) = Len(tokens) + Len(body) + 1 /\ Len(tokens) \in Nat
      /\ \A i \in 1..Len(tokens) : all[i] = tokens[i]
      /\ \A i \in 1..Len(body) + 1 : all[Len(tokens) + i] = rest[i]
  <2>1. \A i \in 1..Len(tokens) + Len(rest) : all[i] = IF i <= Len(tokens) THEN tokens[i] ELSE rest[i - Len(tokens)]
    BY <1>1, <1>7, ConcatProperties
  <2>2. Len(all) = Len(tokens) + Len(rest) /\ Len(tokens) \in Nat
    BY <1>1, <1>7, ConcatProperties, LenProperties
  <2>3. Len(body) \in Nat /\ Len(rest) = Len(body) + 1
    BY <1>6, <1>7
  <2>4. ASSUME NEW i \in 1..Len(body) + 1 PROVE all[Len(tokens) + i] = rest[i]
    <3>1. /\ Len(tokens) + i \in 1..Len(tokens) + Len(rest) /\ ~(Len(tokens) + i <= Len(tokens))
          /\ Len(tokens) + i - Len(tokens) = i
      BY <2>2, <2>3
    <3>. QED
      BY <2>1, <3>1
  <2>5. \A i \in 1..Len(tokens) : all[i] = tokens[i]
    BY <2>1, <2>2, <2>3
  <2>. QED
    BY <2>2, <2>3, <2>4, <2>5
<1>9. all[Len(all)] = NewLine
  <2>1. Len(body) + 1 \in 1..Len(body) + 1 /\ Len(all) = Len(tokens) + (Len(body) + 1)
    BY <1>6, <1>8
  <2>2. all[Len(tokens) + (Len(body) + 1)] = rest[Len(body) + 1]
    BY <1>8, <2>1
  <2>. QED
    BY <1>7, <2>1, <2>2
<1>10. CASE own # << >>
  <2>1. Len(own) > 0
    BY <1>3, <1>6, <1>10, EmptySeq
  <2>2. body[Len(body)] = own[Len(own)] /\ Len(body) \in 1..Len(rest) /\ Len(body) \in 1..Len(body)
    BY <1>6, <1>7, <2>1
  <2>3. all[Len(all) - 1] = own[Len(own)] /\ Len(all) >= 2
    BY <1>6, <1>7, <1>8, <2>2
  <2>. QED
    BY <1>9, <1>10, <2>3 DEF OpensBlock, own, all
<1>11. CASE own = << >>
  <2>1. Len(own) = 0 /\ Len(body) = Len(blocks)
    BY <1>6, <1>11
  <2>2. SUFFICES ASSUME Len(all) >= 2 PROVE all[Len(all) - 1] # T("COLON")
    BY <1>9, <1>11 DEF OpensBlock, own, all
  <2>3. CASE Len(blocks) > 0
    <3>1. Len(body) \in 1..Len(body) /\ Len(body) \in 1..Len(rest) /\ body[Len(body)] = blocks[Len(blocks)]
      BY <1>6, <1>7, <2>1, <2>3
    <3>2. all[Len(all) - 1] = blocks[Len(blocks)]
      BY <1>6, <1>7, <1>8, <3>1
    <3>3. blocks[Len(blocks)] \in {StartBlock, EndBlock}
      BY <1>2, <1>6, <2>3
    <3>. QED
      BY <1>5, <3>2, <3>3
  <2>4. CASE Len(blocks) = 0
    <3>1. Len(tokens) = Len(all) - 1 /\ Len(tokens) \in 1..Len(tokens) /\ tokens # << >>
      BY <1>6, <1>8, <2>1, <2>2, <2>4
    <3>2. all[Len(all) - 1] = NewLine
      BY <1>8, <3>1
    <3>. QED
      BY <1>5, <3>2
  <2>. QED
    BY <1>6, <2>3, <2>4
<1>. QED
  BY <1>10, <1>11

-----------------------------------------------------------------------------
(* The invariant: what is collected is what its lines are as a text.       *)

\* A line of blanks alone that is entered is at the margin, and so finishes the
\* input.  One that closes some of the blocks and not all of them is kept, where
\* the same lines in a file would be skipped (lexer.cpp:136-150).
BlankLinesPlain == \A line \in LineSet : isBlankLine(line) => line.spaces < IndentWidth

Gathered ==
  /\ Lexed(text) = [indent |-> lexerIndent, tokens |-> tokens, ok |-> TRUE]
  /\ Plain(text)
  /\ Depth(tokens) = lexerIndent
  /\ tokens # << >> => tokens[Len(tokens)] = NewLine

PInv ==
  /\ IInv
  /\ answers \in Seq(Inputs)
  /\ mode = "reading" => Gathered
  /\ EvaluatorRemembers

\* How a line is entered.
Prompted(line) == Fitting(line) /\ (isBlankLine(line) => line.spaces < IndentWidth)

\* What the line makes of the text, and where it leaves the two counters.
LEMMA TurnFacts ==
  ASSUME PInv, mode = "reading", NEW line \in Read, Prompted(line)
  PROVE  /\ Append(text, line) \in Seq(Read) /\ Append(text, line) # << >>
         /\ Lexed(Append(text, line)) =
              [indent |-> LineIndent(lexerIndent, line), tokens |-> All(line), ok |-> LexLine(lexerIndent, line).ok]
         /\ Depth(All(line)) = LineIndent(lexerIndent, line)
         /\ LineIndent(lexerIndent, line) \in Nat
         /\ All(line) \in Seq(TokenSet) /\ All(line) # << >> /\ All(line)[Len(All(line))] = NewLine
         /\ OpensBlock(All(line)) <=> line.toks # << >> /\ line.toks[Len(line.toks)] = T("COLON")
         /\ IndentAfter(line) = LineIndent(lexerIndent, line) + (IF OpensBlock(All(line)) THEN 1 ELSE 0)
<1>1. /\ lexerIndent \in Nat /\ tokens \in Seq(TokenSet) /\ text \in Seq(Read) /\ ~Swallows(line)
      /\ indent = lexerIndent + (IF BlockAwaited THEN 1 ELSE 0)
      /\ IF BlockAwaited THEN LineIndent(lexerIndent, line) = lexerIndent + 1
                         ELSE LineIndent(lexerIndent, line) <= lexerIndent
  BY DEF PInv, IInv, TypeOK, Collected, CountersAgree, BlockAwaited, Prompted, Fitting
<1>2. Gathered
  BY DEF PInv
<1>3. Append(text, line) \in Seq(Read) /\ Append(text, line) # << >>
  BY <1>1, AppendProperties
<1>4. Lexed(Append(text, line)) =
        [indent |-> LineIndent(lexerIndent, line), tokens |-> All(line), ok |-> LexLine(lexerIndent, line).ok]
  BY <1>1, <1>2, LexedAppend DEF Gathered, All
<1>5. LineIndent(lexerIndent, line) \in Nat
  BY <1>1, IndentFacts
<1>6. Depth(All(line)) = LineIndent(lexerIndent, line)
  <2>1. Depth(All(line)) = lexerIndent + LineIndent(lexerIndent, line) - lexerIndent
    BY <1>1, <1>2, LineDepth DEF Gathered
  <2>. QED
    BY <1>1, <1>5, <2>1
<1>7. All(line) \in Seq(TokenSet) /\ All(line) # << >>
  BY <1>1, AllFacts
<1>8. /\ OpensBlock(All(line)) <=> line.toks # << >> /\ line.toks[Len(line.toks)] = T("COLON")
      /\ All(line)[Len(All(line))] = NewLine
  BY <1>1, <1>2, OpensFacts DEF Gathered
<1>9. IndentAfter(line) = LineIndent(lexerIndent, line) + (IF OpensBlock(All(line)) THEN 1 ELSE 0)
  BY <1>1, CountFacts
<1>. QED
  BY <1>3, <1>4, <1>5, <1>6, <1>7, <1>8, <1>9

\* At the margin nothing is added to the tokens of a text.
LEMMA FileFacts ==
  ASSUME PInv, mode = "reading", NEW line \in Read, Prompted(line)
  PROVE  /\ AsFile(Append(text, line)).ok = LexLine(lexerIndent, line).ok
         /\ LineIndent(lexerIndent, line) = 0 => AsFile(Append(text, line)).tokens = All(line)
<1> DEFINE longer == Append(text, line)
           to     == LineIndent(lexerIndent, line)
           fine   == LexLine(lexerIndent, line).ok
           all    == All(line)
<1>1. /\ longer \in Seq(Read) /\ longer # << >> /\ to \in Nat
      /\ Lexed(longer) = [indent |-> to, tokens |-> all, ok |-> fine]
      /\ Depth(all) = to
  BY TurnFacts
<1>2. AsFile(longer) = [Lexed(longer) EXCEPT !.tokens = appendMissingBlockClosers(@)]
  BY <1>1, AsFileFacts
<1>. HIDE DEF longer, to, fine, all
<1>3. AsFile(longer).ok = fine /\ AsFile(longer).tokens = appendMissingBlockClosers(all)
  BY <1>1, <1>2
<1>4. to = 0 => appendMissingBlockClosers(all) = all
  BY <1>1 DEF appendMissingBlockClosers
<1>. QED
  BY <1>3, <1>4 DEF longer, to, fine, all

\* The lines end an input, as Shell says, exactly when the session's count does.
LEMMA EndsFacts ==
  ASSUME PInv, mode = "reading", NEW line \in Read, Prompted(line)
  PROVE  Promise!EndsInput(Append(text, line)) <=> IndentAfter(line) = 0
<1> DEFINE longer == Append(text, line)
           to     == LineIndent(lexerIndent, line)
           plain  == \A j \in DOMAIN longer : isBlankLine(longer[j])
           ends   == \E i \in DOMAIN longer :
                        longer[i].spaces < IndentWidth /\ \A j \in i + 1..Len(longer) : isBlankLine(longer[j])
           opens  == OpensBlock(All(line))
<1>1. /\ text \in Seq(Read) /\ lexerIndent \in Nat
      /\ \A i \in 1..Len(text) : ~isBlankLine(text[i])
      /\ tokens = << >> <=> text = << >>
      /\ indent = lexerIndent + (IF BlockAwaited THEN 1 ELSE 0)
      /\ tokens = << >> <=> indent = 0
  BY DEF PInv, IInv, TypeOK, Collected, CountersAgree, Gathered, Plain, BlockAwaited
<1>2. /\ Len(text) \in Nat /\ Len(longer) = Len(text) + 1 /\ DOMAIN longer = 1..Len(text) + 1
      /\ \A i \in 1..Len(text) : longer[i] = text[i]
      /\ longer[Len(text) + 1] = line
  BY <1>1, AppendProperties, LenProperties
<1>3. /\ to \in Nat
      /\ opens <=> line.toks # << >> /\ line.toks[Len(line.toks)] = T("COLON")
      /\ IndentAfter(line) = to + (IF opens THEN 1 ELSE 0)
  BY TurnFacts
<1>4. line.spaces \in Nat /\ (isBlankLine(line) => line.spaces < IndentWidth)
  BY LineFacts DEF Prompted
<1>5. to = 0 <=> line.spaces < IndentWidth
  BY <1>1, <1>4 DEF LineIndent, Min2, IndentWidth
<1>6. Promise!EndsInput(longer) <=> (plain \/ ends) /\ ~opens
  <2>1. longer[Len(longer)] = line
    BY <1>2
  <2>. QED
    BY <1>3, <2>1 DEF Promise!EndsInput
<1>. HIDE DEF longer, to, opens
<1>7. line.spaces < IndentWidth => ends
  <2>1. SUFFICES ASSUME line.spaces < IndentWidth PROVE ends
    OBVIOUS
  <2>2. Len(text) + 1 \in DOMAIN longer /\ Len(text) + 1 + 1..Len(longer) = {}
    BY <1>2
  <2>. QED
    BY <1>2, <2>1, <2>2
<1>8. plain \/ ends => line.spaces < IndentWidth
  <2>1. plain => isBlankLine(line)
    BY <1>2
  <2>2. ASSUME NEW i \in DOMAIN longer, longer[i].spaces < IndentWidth,
               \A j \in i + 1..Len(longer) : isBlankLine(longer[j])
        PROVE  line.spaces < IndentWidth
    <3>1. CASE i = Len(text) + 1
      BY <1>2, <2>2, <3>1
    <3>2. CASE i # Len(text) + 1
      <4>1. Len(text) + 1 \in i + 1..Len(longer)
        BY <1>2, <3>2
      <4>. QED
        BY <1>2, <1>4, <2>2, <4>1
    <3>. QED
      BY <3>1, <3>2
  <2>. QED
    BY <1>4, <2>1, <2>2
<1>. QED
  BY <1>3, <1>5, <1>6, <1>7, <1>8 DEF longer

-----------------------------------------------------------------------------
(* What a line does.                                                       *)

\* A line does to the session what its text does to Shell.
LEMMA TurnKeeps ==
  ASSUME PInv, mode = "reading", NEW line \in Read, Prompted(line), NEW then, Turn(line, then)
  PROVE  Promise!Understand(Append(text, line), then)
<1> DEFINE longer == Append(text, line)
           file   == AsFile(longer)
           to     == LineIndent(lexerIndent, line)
           ended  == Promise!EndsInput(longer)
<1>1. file.ok = LexLine(lexerIndent, line).ok /\ (to = 0 => file.tokens = All(line))
  BY FileFacts
<1>2. ended <=> IndentAfter(line) = 0
  BY EndsFacts
<1>3. Complete(line) => file.ok /\ ended /\ file.tokens = All(line)
  <2>1. to \in Nat /\ IndentAfter(line) = to + (IF OpensBlock(All(line)) THEN 1 ELSE 0)
    BY TurnFacts
  <2>. QED
    BY <1>1, <1>2, <2>1 DEF Complete
<1>. HIDE DEF ended
<1>4. CASE Unreadable(line) /\ mode' = then
  BY <1>1, <1>4 DEF Unreadable, Answer, Promise!Understand, Promise!Answered
<1>5. CASE Continues(line) /\ mode' = then
  BY <1>1, <1>2, <1>5 DEF Continues, Promise!Understand, ended
<1>6. CASE Rejected(line) /\ mode' = then
  BY <1>3, <1>6 DEF Rejected, Answer, Promise!Understand, Promise!Answered, ended
<1>7. CASE Executed(line) /\ mode' = then
  <2> DEFINE parsed == Parse(All(line))
             ran    == Run(parsed.program, globals)
  <2>1. parsed.verdict = "ok" /\ globals' \in {globals, ran.globals} /\ (ran.ok => globals' = ran.globals)
    BY <1>7 DEF Executed
  <2>2. Answer(line, IF ran.ok THEN "ran" ELSE "failed") /\ Complete(line)
    BY <1>7 DEF Executed
  <2>3. file.ok /\ ended /\ Parse(file.tokens) = parsed
    BY <1>3, <2>2
  <2>. HIDE DEF parsed, ran
  <2>4. CASE ran.ok
    <3>1. Promise!Answered(longer, "ran")
      BY <2>2, <2>4 DEF Answer, Promise!Answered
    <3>. QED
      BY <1>7, <2>1, <2>3, <2>4, <3>1 DEF Promise!Understand, ended, ran
  <2>5. CASE ~ran.ok
    <3>1. Promise!Answered(longer, "failed")
      BY <2>2, <2>5 DEF Answer, Promise!Answered
    <3>. QED
      BY <1>7, <2>1, <2>3, <2>5, <3>1 DEF Promise!Understand, ended, ran
  <2>. QED
    BY <2>4, <2>5
<1>8. CASE Crashes(line)
  BY <1>3, <1>8 DEF Crashes, Promise!Understand, ended
<1>. QED
  BY <1>4, <1>5, <1>6, <1>7, <1>8 DEF Turn

\* Nothing is gathered at the margin, and nothing of nothing.
LEMMA NothingGathered ==
  Lexed(<< >>) = Margin /\ Plain(<< >>) /\ Depth(<< >>) = 0
<1>1. << >> \in Seq(Read) /\ << >> \in Seq(TokenSet)
  BY EmptySeq
<1>2. Lexed(<< >>) = Margin
  BY <1>1, AfterFacts DEF Lexed
<1>3. \A x : {i \in DOMAIN << >> : << >>[i] = x} = {}
  OBVIOUS
<1>4. \A x : Count(<< >>, x) = 0
  BY <1>3, FS_EmptySet DEF Count
<1>. QED
  BY <1>2, <1>4 DEF Plain, Depth

LEMMA InitPInv == ASSUME Init PROVE PInv
<1>1. IInv /\ answers = << >> /\ text = << >> /\ tokens = << >> /\ lexerIndent = 0 /\ globals = NoGlobals
  BY InitInv DEF Init
<1>2. << >> \in Seq(Inputs)
  BY EmptySeq
<1>3. Gathered
  BY <1>1, NothingGathered DEF Gathered, Margin
<1>4. Remembered = NoGlobals
  <2>1. Left(<< >>) = NoGlobals
    BY <1>2, AfterAllFacts DEF Left
  <2>. QED
    BY <1>1, <2>1, RememberedIsLeft
<1>. QED
  BY <1>1, <1>2, <1>3, <1>4 DEF PInv, EvaluatorRemembers

\* What an input that is answered leaves is what the text of it leaves.
LEMMA AnswerRemembered ==
  ASSUME PInv, NEW input \in Inputs, answers' = Append(answers, input), useVM' = useVM,
         ~useVM => globals' = Leaving(globals, input)
  PROVE  EvaluatorRemembers'
<1>1. answers \in Seq(Inputs) /\ (~useVM => globals = Left(answers))
  BY RememberedIsLeft DEF PInv, EvaluatorRemembers
<1>2. Left(answers)' = Leaving(Left(answers), input)
  BY <1>1, LeftAppend DEF Left, AfterAll, Leave
<1>3. Remembered' = Left(answers)'
  BY DEF Remembered, Left, AfterAll, Leave, Leaving
<1>. QED
  BY <1>1, <1>2, <1>3 DEF EvaluatorRemembers

LEMMA TurnPInv ==
  ASSUME PInv, mode = "reading", NEW line \in Read, Prompted(line), NEW then \in {"reading", "ended"},
         Turn(line, then), IInv'
  PROVE  PInv'
<1> DEFINE longer == Append(text, line)
           to     == LineIndent(lexerIndent, line)
           fine   == LexLine(lexerIndent, line).ok
<1>1. /\ longer \in Seq(Read)
      /\ Lexed(longer) = [indent |-> to, tokens |-> All(line), ok |-> fine]
      /\ Depth(All(line)) = to /\ to \in Nat
      /\ All(line)[Len(All(line))] = NewLine
      /\ OpensBlock(All(line)) => line.toks # << >>
      /\ IndentAfter(line) = to + (IF OpensBlock(All(line)) THEN 1 ELSE 0)
  BY TurnFacts
<1>2. lexerIndent' = to /\ useVM' = useVM
  BY DEF Turn, LexLine
<1>3. /\ AsFile(longer).ok = fine /\ (to = 0 => AsFile(longer).tokens = All(line))
  BY FileFacts
<1>4. answers \in Seq(Inputs) /\ EvaluatorRemembers /\ text \in Seq(Read) /\ Plain(text)
  BY DEF PInv, IInv, Collected, Gathered
<1>5. ~Swallows(line) /\ (isBlankLine(line) => line.spaces < IndentWidth) /\ (fine \/ to = 0)
  BY DEF Prompted, Fitting
<1>6. Complete(line) => to = 0
  BY <1>1 DEF Complete
<1>7. ASSUME NEW verdict \in {"unreadable", "rejected", "ran", "failed"}, Answer(line, verdict), to = 0,
             ~useVM => globals' = Leaving(globals, [text |-> longer, verdict |-> verdict])
      PROVE  PInv'
  <2>1. answers' = Append(answers, [text |-> longer, verdict |-> verdict]) /\ tokens' = << >> /\ text' = << >>
    BY <1>7 DEF Answer
  <2>2. [text |-> longer, verdict |-> verdict] \in Inputs
    BY <1>1 DEF Inputs
  <2>3. EvaluatorRemembers'
    BY <1>2, <1>7, <2>1, <2>2, AnswerRemembered
  <2>4. answers' \in Seq(Inputs)
    BY <1>4, <2>1, <2>2, AppendProperties
  <2>5. Gathered'
    BY <1>2, <1>7, <2>1, NothingGathered DEF Gathered, Margin
  <2>. QED
    BY <2>3, <2>4, <2>5 DEF PInv
<1>8. CASE Unreadable(line)
  <2>1. Answer(line, "unreadable") /\ to = 0 /\ globals' = globals
    BY <1>5, <1>8 DEF Unreadable
  <2>. QED
    BY <1>7, <2>1 DEF Leaving
<1>9. CASE Rejected(line)
  <2>1. Answer(line, "rejected") /\ to = 0 /\ globals' = globals
    BY <1>6, <1>9 DEF Rejected
  <2>. QED
    BY <1>7, <2>1 DEF Leaving
<1>10. CASE Executed(line)
  <2> DEFINE ran     == Run(Parse(All(line)).program, globals)
             verdict == IF ran.ok THEN "ran" ELSE "failed"
  <2>1. Answer(line, verdict) /\ to = 0 /\ (~useVM => globals' = ran.globals)
    BY <1>6, <1>10 DEF Executed
  <2>2. verdict \in {"ran", "failed"}
    OBVIOUS
  <2>. HIDE DEF verdict
  <2>3. Leaving(globals, [text |-> longer, verdict |-> verdict]) = ran.globals
    BY <1>3, <2>1, <2>2 DEF Leaving
  <2>. QED
    BY <1>7, <2>1, <2>2, <2>3
<1>11. ASSUME UNCHANGED <<globals, answers>> PROVE EvaluatorRemembers'
  <2>1. Remembered' = Remembered
    BY <1>11 DEF Remembered
  <2>. QED
    BY <1>2, <1>4, <1>11, <2>1 DEF EvaluatorRemembers
<1>12. CASE Continues(line)
  <2>1. /\ tokens' = All(line) /\ text' = longer /\ fine
        /\ IndentAfter(line) # 0 /\ UNCHANGED <<globals, answers>>
    BY <1>12 DEF Continues
  <2>2. ~isBlankLine(line)
    <3>1. SUFFICES ASSUME isBlankLine(line) PROVE FALSE
      OBVIOUS
    <3>2. line.toks = << >> /\ line.spaces \in Nat /\ line.spaces < IndentWidth
      BY <1>5, <3>1, LineFacts DEF isBlankLine
    <3>3. to = 0
      BY <1>1, <3>1, <3>2 DEF LineIndent, Min2, IndentWidth, PInv, IInv, TypeOK
    <3>. QED
      BY <1>1, <2>1, <3>2, <3>3
  <2>3. Plain(longer)
    <3>1. /\ Len(longer) = Len(text) + 1 /\ Len(text) \in Nat
          /\ \A i \in 1..Len(text) : longer[i] = text[i]
          /\ longer[Len(text) + 1] = line
      BY <1>4, AppendProperties, LenProperties
    <3>. HIDE DEF longer
    <3>. QED
      BY <1>4, <1>5, <2>2, <3>1 DEF Plain
  <2>4. Gathered'
    BY <1>1, <1>2, <2>1, <2>3 DEF Gathered
  <2>. QED
    BY <1>4, <1>11, <2>1, <2>4 DEF PInv
<1>13. CASE Crashes(line)
  <2>1. mode' = "crashed" /\ UNCHANGED <<globals, answers>>
    BY <1>13 DEF Crashes
  <2>. QED
    BY <1>4, <1>11, <2>1 DEF PInv
<1>. QED
  BY <1>8, <1>9, <1>10, <1>12, <1>13 DEF Turn

\* Every step of the session is one of Shell's, or none, and keeps the invariant.
LEMMA NextKeeps ==
  ASSUME Careful, BlankLinesPlain, PInv, [Next]_vars
  PROVE  PInv' /\ [Promise!Enter \/ Promise!End \/ Promise!Leave]_(Promise!vars)
<1>1. IInv /\ IInv'
  BY NextInv DEF PInv
<1>2. CASE EnterLine
  <2>1. PICK line \in LineSet : WellIndented(line) /\ Turn(line, "reading")
    BY <1>2 DEF EnterLine
  <2>2. mode = "reading" /\ line \in Read
    BY <1>2 DEF EnterLine, Read
  <2>3. Prompted(line)
    BY <2>1 DEF WellIndented, Fitting, Prompted, BlankLinesPlain
  <2>4. PInv'
    BY <1>1, <2>1, <2>2, <2>3, TurnPInv
  <2>5. Promise!Understand(Append(text, line), "reading")
    BY <2>1, <2>2, <2>3, TurnKeeps
  <2>. QED
    BY <2>1, <2>2, <2>4, <2>5 DEF Promise!Enter
<1>3. CASE EndOfInput /\ tokens # << >>
  <2>1. mode = "reading" /\ ~BlockAwaited /\ Turn(Blank, "ended")
    BY <1>3 DEF EndOfInput
  <2>2. lexerIndent \in Nat /\ text # << >>
    BY <1>1, <1>3, <2>1 DEF IInv, TypeOK, Collected
  <2>3. LineIndent(lexerIndent, Blank) = 0 /\ ~Swallows(Blank)
    BY <2>2 DEF LineIndent, Blank, Line, isBlankLine, IndentWidth, Min2, Swallows
  <2>4. Prompted(Blank) /\ Blank \in Read
    BY <2>1, <2>2, <2>3 DEF Prompted, Fitting, Read, Blank, Line, IndentWidth
  <2>5. PInv'
    BY <1>1, <2>1, <2>4, TurnPInv
  <2>6. Promise!Understand(Append(text, Blank), "ended")
    BY <2>1, <2>4, TurnKeeps
  <2>7. mode' = "ended" => text' = << >>
    BY <1>1 DEF IInv, NothingIsLeft
  <2>. QED
    BY <2>1, <2>2, <2>5, <2>6, <2>7 DEF Promise!End
<1>4. ASSUME mode' \in {"ended", "left"}, UNCHANGED <<useVM, tokens, indent, lexerIndent, globals, text, answers>>
      PROVE  PInv'
  <2>1. Remembered' = Remembered
    BY <1>4 DEF Remembered
  <2>. QED
    BY <1>1, <1>4, <2>1 DEF PInv, EvaluatorRemembers
<1>5. CASE EndOfInput /\ tokens = << >>
  <2>1. mode = "reading" /\ mode' = "ended" /\ UNCHANGED <<useVM, tokens, indent, lexerIndent, globals, text, answers>>
    BY <1>5 DEF EndOfInput
  <2>2. text = << >>
    BY <1>1, <1>5, <2>1 DEF IInv, Collected
  <2>. QED
    BY <1>4, <2>1, <2>2 DEF Promise!End
<1>6. CASE ExitCommand
  <2>1. mode = "reading" /\ mode' = "left" /\ UNCHANGED <<useVM, tokens, indent, lexerIndent, globals, text, answers>>
    BY <1>6 DEF ExitCommand
  <2>. QED
    BY <1>4, <2>1 DEF Promise!Leave
<1>7. CASE UNCHANGED vars
  <2>1. UNCHANGED <<useVM, tokens, indent, lexerIndent, globals, mode, text, answers>>
    BY <1>7 DEF vars
  <2>2. Remembered' = Remembered /\ Gathered' = Gathered
    BY <2>1 DEF Remembered, Gathered
  <2>. QED
    BY <1>1, <2>1, <2>2 DEF PInv, EvaluatorRemembers, Promise!vars
<1>. QED
  BY <1>2, <1>3, <1>5, <1>6, <1>7 DEF Next

-----------------------------------------------------------------------------

\* A careful user's session is one that Shell allows: every input is run when it
\* is complete and not before, as the text of a file would be, although it was
\* turned into tokens line by line (repl.cpp:79-95); whatever the lines, the
\* parser and the back end, as long as blank lines are entered at the margin.
THEOREM SessionKeepsItsPromise == ASSUME Careful, BlankLinesPlain PROVE Spec => KeepsThePromise
<1>1. Init => Promise!Init
  BY DEF Init, Promise!Init
<1>. QED
  BY <1>1, InitPInv, NextKeeps, PTL DEF Spec, KeepsThePromise, Promise!Spec

\* With the evaluator the session's globals are at every moment what the inputs
\* left one after another, those included that failed half way (repl.cpp:102-125).
THEOREM EvaluatorForgetsNothing == ASSUME Careful, BlankLinesPlain PROVE Spec => []EvaluatorRemembers
<1>1. PInv => EvaluatorRemembers
  BY DEF PInv
<1>. QED
  BY <1>1, InitPInv, NextKeeps, PTL DEF Spec

=============================================================================
