--------------------------- MODULE MCLanguageServer ---------------------------
(***************************************************************************)
(* A few messages to the language server, orderly ones and odd ones.       *)
(***************************************************************************)
EXTENDS LanguageServer

CONSTANTS u, v, good, fatal, circular, huge, unprintable

\* A document that the parser dies of, one the type check never leaves, one there is
\* no memory to analyse, and one whose diagnostics are not written.
FateOf(text) == CASE text = fatal -> "crash"  [] text = circular    -> "endless"
                  [] text = huge  -> "undone" [] text = unprintable -> "unshown" [] OTHER -> "done"

Plain(method) == Message(method, None, None)
NoPosition    == [Query("hover", u) EXCEPT !.lacks = "position"]
NoDocument    == [Query("hover", u) EXCEPT !.lacks = "textDocument"]
NoText        == [Query("didChange", u) EXCEPT !.lacks = "text"]

OddMessages == {Plain(""), Plain("exit"), Plain("shutdown"), Plain("unknown"), NoPosition, NoDocument, NoText}

=============================================================================
