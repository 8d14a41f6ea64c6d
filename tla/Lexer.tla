-------------------------------- MODULE Lexer --------------------------------
(***************************************************************************)
(* lexer/lexer.cpp: how lines become tokens and indentation becomes        *)
(* blocks, and util/token_utils.h, which closes what a text leaves open.   *)
(*                                                                         *)
(* A token is a pair of its TokenType and its text.  A line is its leading *)
(* spaces (a tab is four), its tokens, and whether a block comment is on   *)
(* it, closed or not; a // comment is no more than its absence.  How       *)
(* characters make up one token is abstracted, but for strings and for the *)
(* character no token starts with, at which Tokenize throws.               *)
(***************************************************************************)
EXTENDS Integers, SequencesExt

IndentWidth == 4

T(type)          == <<type, "">>
Token(type, txt) == <<type, txt>>
BadCharacter     == T("unknown character")

NewLine    == T("NEW_LINE")
StartBlock == T("START_BLOCK")
EndBlock   == T("END_BLOCK")

Line(width, tokens)  == [toks |-> tokens, spaces |-> width, comment |-> "none"]
Commented(line, how) == [line EXCEPT !.comment = how]   \* "closed" or "open"

Times(n, token) == [i \in 1..n |-> token]
Min2(a, b)      == IF a < b THEN a ELSE b

\* A block comment is no blank.
isBlankLine(line) == line.toks = << >> /\ line.comment = "none"

\* A comment that is never closed swallows the rest of the text, the end of
\* its line too.
Swallows(line) == line.comment = "open"

\* A wrong variant of hasCodeAfterBlankLines: every blank line closes blocks.
hasNothingAfter(lines, i) == FALSE

hasCodeAfterBlankLines(lines, i) ==
  \E j \in DOMAIN lines : j > i /\ ~isBlankLine(lines[j])

\* A wrong variant of LineIndent: a blank line closes one block too many.
LineIndentBelow(indent, line) ==
  IF isBlankLine(line) THEN Min2(indent, line.spaces \div IndentWidth) - 1 ELSE line.spaces \div IndentWidth

\* What the start of a line does to the lexer's indent, and the block tokens
\* it gives.  A blank line closes blocks but opens none.
LineIndent(indent, line) ==
  LET level == line.spaces \div IndentWidth
  IN  IF isBlankLine(line) THEN Min2(indent, level) ELSE level

BlockTokens(indent, line) ==
  LET to == LineIndent(indent, line)
  IN  IF to > indent THEN Times(to - indent, StartBlock) ELSE Times(indent - to, EndBlock)

\* A wrong variant of LexLine: the indent is set when the line was read.
LexLineLate(indent, line) ==
  LET ok == \A k \in DOMAIN line.toks : line.toks[k] # BadCharacter
  IN  [indent |-> IF ok THEN LineIndent(indent, line) ELSE indent,
       tokens |-> BlockTokens(indent, line) \o line.toks \o (IF Swallows(line) THEN << >> ELSE <<NewLine>>),
       ok     |-> ok]

(***************************************************************************)
(* Tokenize.  The indent is a member of the lexer: it is what the previous *)
(* call left, and an exception in the middle of a line leaves it as the    *)
(* start of that line set it.                                              *)
(***************************************************************************)
LexLine(indent, line) ==
  [indent |-> LineIndent(indent, line),
   tokens |-> BlockTokens(indent, line) \o line.toks \o (IF Swallows(line) THEN << >> ELSE <<NewLine>>),
   ok     |-> \A k \in DOMAIN line.toks : line.toks[k] # BadCharacter]

\* A wrong variant of TokenizeLine: every call begins at the margin.
TokenizeLineFresh(lines, lexed, i) ==
  IF isBlankLine(lines[i]) /\ hasCodeAfterBlankLines(lines, i) THEN lexed
  ELSE LET next == LexLine(IF i = 1 THEN 0 ELSE lexed.indent, lines[i])
       IN  [next EXCEPT !.tokens = lexed.tokens \o @]

TokenizeLine(lines, lexed, i) ==
  IF \/ ~lexed.ok
     \/ \E j \in 1..i - 1 : Swallows(lines[j])
     \/ isBlankLine(lines[i]) /\ hasCodeAfterBlankLines(lines, i)
  THEN lexed
  ELSE LET next == LexLine(lexed.indent, lines[i])
       IN  [next EXCEPT !.tokens = lexed.tokens \o next.tokens]

Tokenize(indent, lines) ==
  LET start == [indent |-> indent, tokens |-> << >>, ok |-> TRUE]
  IN  IF lines = << >> THEN [start EXCEPT !.tokens = Times(indent + 1, EndBlock)]
      ELSE LET After[i \in 0..Len(lines)] == IF i = 0 THEN start ELSE TokenizeLine(lines, After[i - 1], i)
           IN  After[Len(lines)]

Count(tokens, token) == Cardinality({i \in DOMAIN tokens : tokens[i] = token})

\* How many blocks a sequence of tokens leaves open, negative when it closes
\* more than it opens.
Depth(tokens) == Count(tokens, StartBlock) - Count(tokens, EndBlock)

appendMissingBlockClosers(tokens) ==
  IF Depth(tokens) > 0 THEN tokens \o Times(Depth(tokens), EndBlock) ELSE tokens

\* A whole text: a file, a page of the playground, a document of an editor.
LexText(indent, lines) ==
  LET lexed == Tokenize(indent, lines)
  IN  [lexed EXCEPT !.tokens = appendMissingBlockClosers(@)]

-----------------------------------------------------------------------------
(* Strings.  A character is one of these or the token it makes alone, and  *)
(* the text of a STRING token is the characters readString gives.          *)

Quote     == T("quote")
Backslash == T("backslash")
Space     == T("blank")
OpenBrace  == T("LBRACE")
CloseBrace == T("RBRACE")
Newline    == T("newline")
Whitespace == {Space, T("tab"), Newline}
Letter(c) == Token("IDENTIFIER", c)

\* What a backslash makes of the character after it.  An escaped brace is handed
\* on as the doubled one, which the parser takes for a brace.
Unescaped(c) ==
  CASE c \in {Quote, Backslash}       -> <<c>>
    [] c \in {OpenBrace, CloseBrace}  -> <<c, c>>
    [] c = Letter("n")                -> <<Newline>>
    [] c = Letter("t")                -> <<T("tab")>>
    [] OTHER                          -> <<Backslash, c>>

\* The string whose opening quote is before position p, and the position after
\* its closing quote; an exception when it has none.
readString(chars, p) ==
  LET From[i \in p..Len(chars) + 2] ==
        IF i > Len(chars) THEN [ok |-> FALSE, text |-> << >>, next |-> i]
        ELSE IF chars[i] = Quote THEN [ok |-> TRUE, text |-> << >>, next |-> i + 1]
        ELSE IF chars[i] = Backslash /\ i < Len(chars) THEN [From[i + 2] EXCEPT !.text = Unescaped(chars[i + 1]) \o @]
        ELSE [From[i + 1] EXCEPT !.text = <<chars[i]>> \o @]
  IN  From[p]

\* The tokens of a text that is written out; what a newline does to the blocks is
\* left out.
TokensIn(chars) ==
  LET From[i \in 1..Len(chars) + 2] ==
        IF i > Len(chars) THEN << >>
        ELSE CASE chars[i] = Space   -> From[i + 1]
               [] chars[i] = Newline -> <<NewLine>> \o From[i + 1]
               [] chars[i] = T("tab") -> <<BadCharacter>>
               [] chars[i] = Quote   -> LET string == readString(chars, i + 1)
                                        IN  IF string.ok THEN <<Token("STRING", string.text)>> \o From[string.next]
                                            ELSE <<BadCharacter>>
               [] OTHER              -> <<chars[i]>> \o From[i + 1]
  IN  From[1]

=============================================================================
