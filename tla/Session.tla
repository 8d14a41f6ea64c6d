------------------------------- MODULE Session -------------------------------
(***************************************************************************)
(* repl/repl.cpp, Repl::Run: the interactive session.  It reads a line at  *)
(* a time, collects tokens until no block is open, and then parses and     *)
(* runs what it has.  Two counters say whether a block is open: the lexer's *)
(* own, which every call of Tokenize carries over, and the session's.      *)
(*                                                                         *)
(* Parse is the parser and Run one of the two back ends: what a program    *)
(* leaves of the globals, also when it fails half way.                     *)
(***************************************************************************)
EXTENDS Lexer

CONSTANTS
  LineSet,      \* the lines that may be entered
  MaxLines,     \* how many of them
  Careful,      \* whether they are indented as the grammar asks
  NoGlobals,    \* the globals of a new session
  Parse(_),     \* [verdict |-> "ok", "error" or "crash", program]
  Run(_, _)     \* [globals, ok]

\* No line has block tokens of its own: they come from its indentation.
ASSUME SessionAssumption ==
  \A line \in LineSet :
    /\ line.spaces \in Nat /\ line.toks \in Seq(Range(line.toks))
    /\ {StartBlock, EndBlock} \cap Range(line.toks) = {}

VARIABLES
  useVM,        \* the back end
  tokens,       \* the tokens of the input so far
  indent,       \* the session's count of open blocks
  lexerIndent,  \* the lexer's
  globals,      \* vmGlobals, or the evaluator's environment
  mode,         \* "reading", or how the session ended
  text,         \* the lines the tokens come from
  answers       \* the inputs answered so far, and how
vars == <<useVM, tokens, indent, lexerIndent, globals, mode, text, answers>>

Lengths(inputs) == [i \in DOMAIN inputs |-> Len(inputs[i].text)]
Entered         == Len(text) + FoldSeq(LAMBDA n, m : n + m, 0, Lengths(answers))

Init ==
  /\ useVM \in BOOLEAN
  /\ tokens = << >> /\ indent = 0 /\ lexerIndent = 0
  /\ globals = NoGlobals
  /\ mode = "reading"
  /\ text = << >> /\ answers = << >>

-----------------------------------------------------------------------------
(* One turn of the loop, with the line that was read; `then` is the mode it *)
(* leaves.                                                                 *)

All(line) == tokens \o LexLine(lexerIndent, line).tokens

\* The token before the last is a colon: the line opens a block.
OpensBlock(toks) == Len(toks) >= 2 /\ toks[Len(toks) - 1] = T("COLON")

\* A wrong variant of Closes: the closers of a line count as one.
ClosesOne(line) == IF LineIndent(lexerIndent, line) < lexerIndent THEN 1 ELSE 0

\* The END_BLOCK tokens among those of the line.
Closes(line) == IF LineIndent(lexerIndent, line) < lexerIndent THEN lexerIndent - LineIndent(lexerIndent, line) ELSE 0

IndentAfter(line) == indent + (IF OpensBlock(All(line)) THEN 1 ELSE 0) - Closes(line)

\* A wrong variant of Answer: the tokens of the input are not cleared.
AnswerKeepsTokens(line, verdict) ==
  /\ indent' = 0 /\ UNCHANGED tokens
  /\ text' = << >>
  /\ answers' = Append(answers, [text |-> Append(text, line), verdict |-> verdict])

\* The input is answered, whichever way, and a new one begins.
Answer(line, verdict) ==
  /\ tokens' = << >> /\ indent' = 0
  /\ text' = << >>
  /\ answers' = Append(answers, [text |-> Append(text, line), verdict |-> verdict])

\* Tokenize throws: the lexer keeps the indent of the line's start.
Unreadable(line) ==
  /\ ~LexLine(lexerIndent, line).ok
  /\ Answer(line, "unreadable")
  /\ UNCHANGED globals

Continues(line) ==
  /\ LexLine(lexerIndent, line).ok
  /\ IndentAfter(line) # 0
  /\ tokens' = All(line)
  /\ indent' = IndentAfter(line)
  /\ text' = Append(text, line)
  /\ UNCHANGED <<globals, answers>>

Complete(line) == LexLine(lexerIndent, line).ok /\ IndentAfter(line) = 0

Rejected(line) ==
  /\ Complete(line)
  /\ Parse(All(line)).verdict = "error"
  /\ Answer(line, "rejected")
  /\ UNCHANGED globals

\* A wrong variant of Executed: a failed program leaves nothing behind.
ExecutedOrNot(line) ==
  LET parsed == Parse(All(line))
      ran    == Run(parsed.program, globals)
  IN  /\ Complete(line)
      /\ parsed.verdict = "ok"
      /\ globals' = IF ran.ok THEN ran.globals ELSE globals
      /\ Answer(line, IF ran.ok THEN "ran" ELSE "failed")

\* The evaluator works on the session's environment; the VM on a copy of the
\* globals, which is copied back only when the program did not fail.
Executed(line) ==
  LET parsed == Parse(All(line))
      ran    == Run(parsed.program, globals)
  IN  /\ Complete(line)
      /\ parsed.verdict = "ok"
      /\ globals' = IF useVM /\ ~ran.ok THEN globals ELSE ran.globals
      /\ Answer(line, IF ran.ok THEN "ran" ELSE "failed")

\* The parser reads past the end of the tokens and takes the process with it.
Crashes(line) ==
  /\ Complete(line)
  /\ Parse(All(line)).verdict = "crash"
  /\ tokens' = All(line) /\ indent' = 0
  /\ text' = Append(text, line)
  /\ mode' = "crashed"
  /\ UNCHANGED <<globals, answers>>

Turn(line, then) ==
  /\ lexerIndent' = LexLine(lexerIndent, line).indent
  /\ \/ (Unreadable(line) \/ Continues(line) \/ Rejected(line) \/ Executed(line)) /\ mode' = then
     \/ Crashes(line)
  /\ UNCHANGED useVM

-----------------------------------------------------------------------------
(* What is entered.  A careful user opens a block after a colon and nowhere *)
(* else, one level at a time, closes comments, and leaves characters that  *)
(* are no tokens out of the blocks.                                        *)

BlockAwaited == OpensBlock(tokens)
WellIndented(line) ==
  LET to == LineIndent(lexerIndent, line)
  IN  /\ ~Swallows(line)
      /\ IF BlockAwaited THEN to = lexerIndent + 1 ELSE to <= lexerIndent
      /\ LexLine(lexerIndent, line).ok \/ to = 0

EnterLine ==
  /\ mode = "reading" /\ Entered < MaxLines
  /\ \E line \in LineSet : (Careful => WellIndented(line)) /\ Turn(line, "reading")

\* The end of the input: what was entered is finished as by a blank line, and
\* the loop ends.
Blank == Line(0, << >>)
\* A wrong variant of it: the loop ends with what was entered unfinished.
EndOfInputDrops ==
  /\ mode = "reading"
  /\ Careful => ~BlockAwaited
  /\ mode' = "ended" /\ UNCHANGED <<useVM, tokens, indent, lexerIndent, globals, text, answers>>

EndOfInput ==
  /\ mode = "reading"
  /\ Careful => ~BlockAwaited
  /\ IF tokens = << >>
     THEN mode' = "ended" /\ UNCHANGED <<useVM, tokens, indent, lexerIndent, globals, text, answers>>
     ELSE Turn(Blank, "ended")

\* The exit command, at any prompt.
ExitCommand ==
  /\ mode = "reading"
  /\ mode' = "left"
  /\ UNCHANGED <<useVM, tokens, indent, lexerIndent, globals, text, answers>>

Next == EnterLine \/ EndOfInput \/ ExitCommand
Spec == Init /\ [][Next]_vars

-----------------------------------------------------------------------------
(* Properties.                                                             *)

TypeOK ==
  /\ useVM \in BOOLEAN
  /\ indent \in Int /\ lexerIndent \in Nat
  /\ mode \in {"reading", "ended", "left", "crashed"}

\* The two counters agree: the session waits for as many blocks to be closed as
\* the lexer has open, and one more while a header awaits its block.  Otherwise
\* it runs a block that is still open, or waits for one that is not.
CountersAgree ==
  mode # "crashed" => indent = lexerIndent + (IF OpensBlock(tokens) THEN 1 ELSE 0)

\* The lines of an input as a text of their own.
AsFile(lines) == LexText(0, lines)

\* The end of the input leaves a careful user with no lines that were not answered.
NothingIsLeft == mode = "ended" => text = << >>

\* What an input defined before it failed stays defined in the session.
Remembered ==
  LET Runs(answer)  == answer.verdict \in {"ran", "failed"}
      Left(g, answer) == IF Runs(answer) THEN Run(Parse(AsFile(answer.text).tokens).program, g).globals ELSE g
      After[i \in 0..Len(answers)] == IF i = 0 THEN NoGlobals ELSE Left(After[i - 1], answers[i])
  IN  After[Len(answers)]
EvaluatorRemembers == ~useVM => globals = Remembered

Promise == INSTANCE Shell

\* The session keeps what Shell promises: the tokens collected line by line mean
\* what the lines mean as a text, and run when the text is complete.
KeepsThePromise == Promise!Spec

=============================================================================
