--------------------------------- MODULE Page ---------------------------------
(***************************************************************************)
(* What a page of the playground promises: a text is executed as in a new  *)
(* page that has the same files and the same back end, and stands as deep  *)
(* in a block.  That is all that is left of the texts executed before, and *)
(* it follows from their lines, however they were answered.                *)
(***************************************************************************)
CONSTANTS Texts, Paths,
          InNewPage(_, _),  \* a text's tokens, read at a level
          Leaves(_, _),     \* and the level it leaves
          Parse(_), Outcomes(_, _, _)

VARIABLES useVM, level, files, response, mode
vars == <<useVM, level, files, response, mode>>

Init ==
  /\ useVM = TRUE /\ level = 0 /\ files = << >> /\ mode = "running"
  /\ response = [verdict |-> "none", output |-> << >>]

Answered(verdict, output) == response' = [verdict |-> verdict, output |-> output] /\ mode' = mode

Refused(text) ==
  LET new == InNewPage(level, text)
  IN  /\ \/ ~new.ok /\ Answered("unreadable", << >>)
         \/ new.ok /\ Parse(new.tokens).verdict = "error" /\ Answered("rejected", << >>)
      /\ UNCHANGED files

Ran(text) ==
  LET new == InNewPage(level, text)
  IN  /\ new.ok /\ Parse(new.tokens).verdict = "ok"
      /\ \E ran \in Outcomes(useVM, Parse(new.tokens).program, files) :
           Answered(ran.verdict, ran.output) /\ files' = ran.files

Died(text) ==
  LET new == InNewPage(level, text)
  IN  /\ new.ok /\ Parse(new.tokens).verdict = "crash"
      /\ mode' = "crashed" /\ UNCHANGED <<files, response>>

Execute ==
  \E text \in Texts :
    /\ Refused(text) \/ Ran(text) \/ Died(text)
    /\ level' = Leaves(level, text)
    /\ UNCHANGED useVM

\* The back end and the files are the page's to change; cleared, it is at the margin.
Choose == useVM' \in BOOLEAN /\ UNCHANGED <<level, files, response, mode>>
Store  == \E path \in Paths : /\ DOMAIN files' \in {DOMAIN files \cup {path}, DOMAIN files \ {path}}
                              /\ \A p \in DOMAIN files' \ {path} : files'[p] = files[p]
                              /\ UNCHANGED <<useVM, level, response, mode>>
Clear  == files' = << >> /\ level' = 0 /\ UNCHANGED <<useVM, response, mode>>

Next == mode = "running" /\ (Execute \/ Choose \/ Store \/ Clear)
Spec == Init /\ [][Next]_vars

=============================================================================
