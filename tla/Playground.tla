------------------------------ MODULE Playground ------------------------------
(***************************************************************************)
(* web/wasm_interface.{h,cpp} and web/memory_filesystem.h: the object a    *)
(* page of the playground calls.  Every call of Execute makes a limiter, a *)
(* compiler and a back end of its own; the lexer is a member and keeps its *)
(* indent from one call to the next, as the files in memory do.            *)
(*                                                                         *)
(* Parse is the parser and Outcomes what a back end may make of a program  *)
(* with these files, cut short by the limiter or not.  A text has a line,  *)
(* for Execute ends every text with a newline.  Not modelled: GetTokens,   *)
(* which has a lexer of its own, and the JSON of a response.               *)
(***************************************************************************)
EXTENDS Lexer

CONSTANTS
  Texts,            \* what may be executed: sequences of lines, not empty
  Paths, Contents,  \* the files the page may write
  Parse(_),         \* [verdict |-> "ok", "error" or "crash", program]
  Outcomes(_, _, _) \* of useVM, a program and files: set of [verdict, output, files]

Files == UNION {[P -> Contents] : P \in SUBSET Paths}

\* How deep in a block the texts can leave the lexer.
Depths == {0} \cup UNION {{text[i].spaces \div IndentWidth : i \in DOMAIN text} : text \in Texts}

ASSUME PlaygroundAssumption ==
  \A text \in Texts :
    /\ text # << >> /\ text \in Seq({text[i] : i \in DOMAIN text})
    /\ \A i \in DOMAIN text : text[i].spaces \in Nat
    /\ \A depth \in Depths, vm \in BOOLEAN, f \in Files :
         \A ran \in Outcomes(vm, Parse(LexText(depth, text).tokens).program, f) : ran.files \in Files

VARIABLES
  useVM,         \* the back end
  lexerIndent,   \* the lexer's member
  files,         \* memFs
  outputBuffer,
  asked,         \* the text executed last, if one was since the page was new
  response,      \* and what was answered
  mode           \* "running", or "crashed"
vars == <<useVM, lexerIndent, files, outputBuffer, asked, response, mode>>

NoResponse == [verdict |-> "none", output |-> << >>]

Init ==
  /\ useVM = TRUE /\ lexerIndent = 0 /\ files = << >>
  /\ outputBuffer = << >>
  /\ asked = << >> /\ response = NoResponse
  /\ mode = "running"

-----------------------------------------------------------------------------
(* Execute.                                                                *)

Lexed(text) == LexText(lexerIndent, text)

Respond(text, verdict, output) ==
  /\ asked' = <<text>> /\ outputBuffer' = output
  /\ response' = [verdict |-> verdict, output |-> output]
  /\ UNCHANGED mode

\* Tokenize throws.
Unreadable(text) ==
  /\ ~Lexed(text).ok
  /\ Respond(text, "unreadable", << >>)
  /\ UNCHANGED files

\* The first of the parser's errors is answered and nothing is run.
Rejected(text) ==
  /\ Lexed(text).ok /\ Parse(Lexed(text).tokens).verdict = "error"
  /\ Respond(text, "rejected", << >>)
  /\ UNCHANGED files

\* A wrong variant of Executed: the files are kept only when the program ends well.
ExecutedOrNot(text) ==
  LET parsed == Parse(Lexed(text).tokens)
  IN  /\ Lexed(text).ok /\ parsed.verdict = "ok"
      /\ \E ran \in Outcomes(useVM, parsed.program, files) :
           /\ Respond(text, ran.verdict, ran.output)
           /\ files' = IF ran.verdict = "ran" THEN ran.files ELSE files

\* What a program did before it failed or was stopped stays done.
Executed(text) ==
  LET parsed == Parse(Lexed(text).tokens)
  IN  /\ Lexed(text).ok /\ parsed.verdict = "ok"
      /\ \E ran \in Outcomes(useVM, parsed.program, files) :
           /\ Respond(text, ran.verdict, ran.output)
           /\ files' = ran.files

Crashes(text) ==
  /\ Lexed(text).ok /\ Parse(Lexed(text).tokens).verdict = "crash"
  /\ mode' = "crashed" /\ asked' = <<text>> /\ outputBuffer' = << >>
  /\ UNCHANGED <<files, response>>

Execute(text) ==
  /\ mode = "running"
  /\ lexerIndent' = Lexed(text).indent
  /\ Unreadable(text) \/ Rejected(text) \/ Executed(text) \/ Crashes(text)
  /\ UNCHANGED useVM

-----------------------------------------------------------------------------
(* The other calls.                                                        *)

SetBackend(name) ==
  /\ mode = "running"
  /\ useVM' = IF name \in {"vm", "evaluator"} THEN name = "vm" ELSE useVM
  /\ UNCHANGED <<lexerIndent, files, outputBuffer, asked, response, mode>>

WriteFile(path, content) ==
  /\ mode = "running"
  /\ files' = [p \in DOMAIN files \cup {path} |-> IF p = path THEN content ELSE files[p]]
  /\ UNCHANGED <<useVM, lexerIndent, outputBuffer, asked, response, mode>>

DeleteFile(path) ==
  /\ mode = "running"
  /\ files' = [p \in DOMAIN files \ {path} |-> files[p]]
  /\ UNCHANGED <<useVM, lexerIndent, outputBuffer, asked, response, mode>>

\* The back end that was chosen stays chosen.
Reset ==
  /\ mode = "running"
  /\ lexerIndent' = 0 /\ files' = << >> /\ outputBuffer' = << >> /\ asked' = << >>
  /\ UNCHANGED <<useVM, response, mode>>

Next ==
  \/ \E text \in Texts : Execute(text)
  \/ \E name \in {"vm", "evaluator", "wasm"} : SetBackend(name)
  \/ \E path \in Paths : (\E content \in Contents : WriteFile(path, content)) \/ DeleteFile(path)
  \/ Reset

Spec == Init /\ [][Next]_vars

-----------------------------------------------------------------------------
(* Properties.                                                             *)

\* How many lines of a text are read: up to one at which Tokenize throws or
\* whose comment swallows the others.
Breaks(line) == Swallows(line) \/ \E k \in DOMAIN line.toks : line.toks[k] = BadCharacter
LinesRead(text) == {i \in DOMAIN text : \A j \in 1..i - 1 : ~Breaks(text[j])}

\* How deep in a block a text leaves a page that stood at level: as deep as the
\* last line with code or a comment that is read, and no deeper than a blank line
\* after it.
HoldsCode(text) == \E i \in LinesRead(text) : ~isBlankLine(text[i])
Leaves(level, text) ==
  LET held   == {i \in LinesRead(text) : \A j \in LinesRead(text) : j > i => isBlankLine(text[j])}
      depths == {text[i].spaces \div IndentWidth : i \in held} \cup (IF HoldsCode(text) THEN {} ELSE {level})
  IN  CHOOSE depth \in depths : \A other \in depths : depth <= other

TypeOK ==
  /\ useVM \in BOOLEAN /\ lexerIndent \in Depths /\ files \in Files
  /\ mode \in {"running", "crashed"}

InNewPage(level, text) == LexText(level, text)

\* The block a text is read in is the one that the text before it left open, in a
\* page where nothing else was executed, if that had code: what a text that ends
\* or breaks off inside a block leaves of it reaches the next one, and no further.
OnlyTheLastText ==
  /\ asked = << >> => lexerIndent = 0
  /\ asked # << >> /\ HoldsCode(asked[1]) => lexerIndent = InNewPage(0, asked[1]).indent

Promise == INSTANCE Page WITH level <- lexerIndent

\* The page keeps what Page promises: whatever was executed before, a text is
\* answered as in a new page with these files, this back end and a block as deep,
\* and how deep the next one begins follows from the lines of the texts alone.
KeepsThePromise == Promise!Spec

=============================================================================
