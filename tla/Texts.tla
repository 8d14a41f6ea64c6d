------------------------------- MODULE Texts -------------------------------
(***************************************************************************)
(* Texts that arrive in parts: the REPL and the playground give the same   *)
(* lexer one piece after another, and it keeps its indent between them.    *)
(***************************************************************************)
EXTENDS Lexer

VARIABLE lines   \* a text

\* A text that arrives in two parts, as the REPL reads it, lexes to the same
\* tokens: the indent kept between the calls is all a call needs to know.  (A
\* blank line at the end of the first part is the exception: it closes blocks.)
IncrementalAgrees ==
  \A i \in DOMAIN lines :
    isBlankLine(lines[i]) \/
      LET first  == Tokenize(0, SubSeq(lines, 1, i))
          second == Tokenize(first.indent, SubSeq(lines, i + 1, Len(lines)))
      IN  i < Len(lines) => first.tokens \o second.tokens = Tokenize(0, lines).tokens

=============================================================================
