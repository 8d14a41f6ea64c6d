-------------------------------- MODULE Shell --------------------------------
(***************************************************************************)
(* What an interactive session promises, whatever it counts to keep it:    *)
(* lines are collected until the last one ends the block or statement they *)
(* make up, and are then run as the text of a file would be, on the globals *)
(* of the session.                                                         *)
(***************************************************************************)
EXTENDS Integers, Sequences

CONSTANTS
  LineSet,         \* the lines that may be entered
  Blank,           \* the one that the end of the input stands for
  NoGlobals,       \* the globals of a new session
  AsFile(_),       \* the tokens of a text, and whether they are all right
  Parse(_), Run(_, _),
  isBlankLine(_), IndentWidth, T(_)

VARIABLES text, globals, answers, mode
vars == <<text, globals, answers, mode>>

Init == text = << >> /\ globals = NoGlobals /\ answers = << >> /\ mode = "reading"

\* Whether a text may be run: it is back at the margin, by its last line of code
\* or by a blank one after it, and opens no block there.
EndsInput(lines) ==
  /\ \/ \A j \in DOMAIN lines : isBlankLine(lines[j])
     \/ \E i \in DOMAIN lines : lines[i].spaces < IndentWidth /\ \A j \in i + 1..Len(lines) : isBlankLine(lines[j])
  /\ LET last == lines[Len(lines)].toks IN last # << >> => last[Len(last)] # T("COLON")

Answered(lines, verdict) ==
  /\ answers' = Append(answers, [text |-> lines, verdict |-> verdict])
  /\ text' = << >>

\* A text at which the parser dies ends the session, and is beyond the promise.
Understand(lines, then) ==
  LET file   == AsFile(lines)
      parsed == Parse(file.tokens)
      ran    == Run(parsed.program, globals)
  IN  IF ~file.ok THEN Answered(lines, "unreadable") /\ mode' = then /\ UNCHANGED globals
      ELSE IF ~EndsInput(lines) THEN text' = lines /\ mode' = then /\ UNCHANGED <<globals, answers>>
      ELSE IF parsed.verdict = "crash" THEN text' = lines /\ mode' = "crashed" /\ UNCHANGED <<globals, answers>>
      ELSE /\ mode' = then
           /\ \/ parsed.verdict = "error" /\ Answered(lines, "rejected") /\ UNCHANGED globals
              \/ parsed.verdict = "ok" /\ ran.ok /\ Answered(lines, "ran") /\ globals' = ran.globals
              \/ parsed.verdict = "ok" /\ ~ran.ok /\ Answered(lines, "failed") /\ globals' \in {globals, ran.globals}

Enter == mode = "reading" /\ \E line \in LineSet : Understand(Append(text, line), "reading")

\* At the end nothing is left unanswered.
End == /\ mode = "reading"
       /\ IF text = << >> THEN mode' = "ended" /\ UNCHANGED <<text, globals, answers>>
          ELSE Understand(Append(text, Blank), "ended")
       /\ mode' = "ended" => text' = << >>

Leave == mode = "reading" /\ mode' = "left" /\ UNCHANGED <<text, globals, answers>>

Spec == Init /\ [][Enter \/ End \/ Leave]_vars

=============================================================================
