------------------------------ MODULE MCServices ------------------------------
(***************************************************************************)
(* What comments and documents say of the two programs that stay: a        *)
(* session of the REPL with a user who is not careful, and after it a      *)
(* language server with an editor whose messages are not all in order.     *)
(***************************************************************************)
EXTENDS MCSession

VARIABLES docs, serverMode, inbox, closed, outbox, editor, lost, sent, asked
server == <<docs, serverMode, inbox, closed, outbox, editor, lost, sent, asked>>

\* An editor with one document; one of its messages asks for what is hovered and
\* has no position.
FateOf(t)  == "done"
NoPosition == [frame |-> "good", id |-> << >>, method |-> "hover", uri |-> <<"u">>, doc |-> << >>, lacks |-> "position"]
LS == INSTANCE LanguageServer WITH
        mode <- serverMode, Uris <- {"u"}, Texts <- {"t"}, Fate <- FateOf, Queries <- {"hover"},
        Odd <- {NoPosition}, MaxSent <- 3, Faults <- {"bad header"}

-----------------------------------------------------------------------------
\* What repl.cpp:66 says of the end of the input: the lines collected are run
\* before the session ends.  Lines that are no program need not be.
IsProgram(lines) == AsFile(lines).ok /\ Parse(AsFile(lines).tokens).verdict = "ok"
EndRunsTheRest   == mode = "ended" /\ text # << >> => ~IsProgram(text)

\* What repl.cpp:52 says of the VM: the state of the session is kept, and so what
\* an input defined before it failed.
SessionRemembers == globals = Remembered

\* What lsp/main.cpp:23 says of the end of the server's loop: the editor is gone.
EndsWithTheEditor == serverMode = "ended" => closed

\* What the design document says: wrong params are answered as InvalidParams.
WrongParamsAreNamed ==
  \A i \in LS!Answers : \A r \in asked :
    r.id = outbox[i].id /\ r.lacks # "nothing" => outbox[i].result \in {0, LS!InvalidParams}

SessionKeeps == EndRunsTheRest \/ SessionRemembers
ServerKeeps  == EndsWithTheEditor \/ WrongParamsAreNamed

\* The server starts when the session has kept nothing of what is said of it.
ServicesInit == Init /\ useVM /\ LS!Init
ServicesNext == \/ SessionKeeps /\ (EnterLine \/ EndOfInput) /\ UNCHANGED server
                \/ ~SessionKeeps /\ LS!Next /\ UNCHANGED vars
ServicesSpec == ServicesInit /\ [][ServicesNext]_<<vars, server>>

\* Of the four sentences one at least is kept, whatever is entered and sent.
OneIsKept == SessionKeeps \/ ServerKeeps

-----------------------------------------------------------------------------
\* What the user enters.
FailingLines == {Line(0, FunctionOf("f")), Line(4, Use("a")), Line(0, Use("a")), Line(4, <<BadCharacter>>), Line(0, Define("a"))}

=============================================================================
