---------------------------- MODULE LanguageServer ----------------------------
(***************************************************************************)
(* lsp/main.cpp, jsonrpc.cpp, server.cpp, document_store.cpp: the language *)
(* server, and an editor at the other end of its two pipes.                *)
(*                                                                         *)
(* The server reads one message at a time, handles it to its end and       *)
(* writes what there is to answer.  The editor does not wait.  A frame may *)
(* arrive damaged, as no JSON or with a header that gives no usable length. *)
(* What is made of a document is abstracted to the text it is made of.     *)
(***************************************************************************)
EXTENDS Integers, Sequences

CONSTANTS
  Uris, Texts,
  Fate(_),     \* of a text: "done"; an exception while it is analysed, "undone",
               \* or while its diagnostics are written, "unshown"; "crash", "endless"
  Queries,     \* what is asked of documents
  Odd,         \* messages beside those of an orderly editor, that change no document
  MaxSent,     \* how many messages are sent
  Faults       \* what may happen to a frame: "damaged", "bad header"

None    == << >>
Some(x) == <<x>>

VARIABLES
  docs,     \* DocumentStore: the open documents as they were analysed
  mode,     \* "running", or how the server stopped
  inbox,    \* what is on its way to the server
  closed,   \* whether the editor has closed that pipe
  outbox,   \* all that the server has written
  editor,   \* the documents open in the editor
  lost,     \* those of which the last change went lost on the way, or is undone
  sent,     \* how many messages the editor has sent
  asked     \* its requests that were not damaged, and what it knew then
server == <<docs, mode, outbox>>
client == <<closed, editor, lost, sent, asked>>
vars   == <<docs, mode, inbox, closed, outbox, editor, lost, sent, asked>>

Document(text, version) == [text |-> text, version |-> version]
Entry(table, uri)       == IF uri \in DOMAIN table THEN Some(table[uri]) ELSE None
\* A wrong variant of With: the document is the key.
WithSwapped(table, uri, doc) == [u \in DOMAIN table \cup {doc} |-> IF u = doc THEN uri ELSE table[u]]

With(table, uri, doc)   == [u \in DOMAIN table \cup {uri} |-> IF u = uri THEN doc ELSE table[u]]
Without(table, uri)     == [u \in DOMAIN table \ {uri} |-> table[u]]

\* A message with an id is a request, one without a method is none; `lacks` names what its params should have
\* and do not.
Positioned  == {"hover", "definition"}
OnDocument  == Positioned \cup {"completion", "documentSymbol"}
Requests    == {"initialize", "shutdown"} \cup OnDocument
OfDocuments == {"didOpen", "didChange", "didClose"}
Notified    == {"initialized", "exit"} \cup OfDocuments

Message(method, uri, doc) ==
  [frame |-> "good", id |-> None, method |-> method, uri |-> uri, doc |-> doc, lacks |-> "nothing"]
Messages ==
  {m \in [frame : {"good"} \cup Faults, id : Seq(Nat), method : {"", "unknown"} \cup Requests \cup Notified,
          uri : Seq(Uris), doc : Seq([text : Texts, version : Nat]),
          lacks : {"nothing", "textDocument", "position", "text"}] :
     /\ Len(m.id) <= 1 /\ Len(m.uri) <= 1 /\ Len(m.doc) <= 1
     /\ m.lacks = "nothing" => /\ m.method \in {"didOpen", "didChange"} => m.uri # None /\ m.doc # None
                               /\ m.method = "didClose" => m.uri # None
     /\ m.method \in OnDocument /\ m.lacks # "textDocument" => m.uri # None}

ASSUME ServerAssumption ==
  /\ \A m \in Odd : /\ m \in Messages /\ m.frame = "good" /\ m.id = None
                    /\ m.method \in OfDocuments => m.lacks # "nothing"
  /\ \A text \in Texts : Fate(text) \in {"done", "undone", "unshown", "crash", "endless"}
  /\ Queries \subseteq {"hover", "definition", "completion", "documentSymbol"}
  /\ MaxSent \in Nat

Init ==
  /\ docs = << >> /\ mode = "running" /\ outbox = << >>
  /\ inbox = << >> /\ closed = FALSE
  /\ editor = << >> /\ lost = {} /\ sent = 0 /\ asked = {}

-----------------------------------------------------------------------------
(* The server.                                                             *)

InvalidRequest == -32600
MethodNotFound == -32601
InvalidParams  == -32602
InternalError  == -32603

Answer(id, result, about)    == [to |-> "request", id |-> id, result |-> result, about |-> about]
Diagnostics(uri, doc)        == [to |-> "editor", uri |-> uri, about |-> doc]
Write(message)               == outbox' = Append(outbox, message)
Reply(m, result, about)      == Write(Answer(m.id[1], result, about)) /\ UNCHANGED <<docs, mode>>

Head1 == Head(inbox)
\* A wrong variant of Taken: the message is read again.
TakenAgain == inbox' = inbox

Taken == inbox' = Tail(inbox)

\* readMessage finds no more input, or a header without a usable length.
EndOfInput == mode = "running" /\ inbox = << >> /\ closed /\ mode' = "ended"
              /\ UNCHANGED <<docs, inbox, outbox, client>>
BadHeader == mode = "running" /\ inbox # << >> /\ Head1.frame = "bad header" /\ mode' = "ended"
             /\ UNCHANGED <<docs, inbox, outbox, client>>

\* A wrong variant of Damaged: a body that is no JSON stays in the way.
DamagedStays == mode = "running" /\ inbox # << >> /\ Head1.frame = "damaged" /\ UNCHANGED <<inbox, server, client>>

\* A body that is no JSON is passed over.
Damaged == mode = "running" /\ inbox # << >> /\ Head1.frame = "damaged" /\ Taken /\ UNCHANGED <<server, client>>

\* A wrong variant of Invalid: it is never answered.
InvalidIgnored(m) == m.method = "" /\ UNCHANGED server

\* A message without a method.
Invalid(m) == /\ m.method = ""
              /\ IF m.id = None THEN UNCHANGED server ELSE Reply(m, InvalidRequest, None)

\* A wrong variant of Analysed: it is stored after its diagnostics are written.
AnalysedShownFirst(m) ==
  LET fate == Fate(m.doc[1].text)
  IN  /\ docs' = IF fate = "done" THEN With(docs, m.uri[1], m.doc[1]) ELSE docs
      /\ IF fate = "done" THEN Write(Diagnostics(m.uri[1], m.doc)) ELSE UNCHANGED outbox
      /\ mode' = IF fate \in {"crash", "endless"} THEN fate ELSE mode

\* A document is analysed as a whole, then stored, then its diagnostics are
\* written.  An exception while it is analysed leaves the store as it was, one
\* while they are written keeps it; Notification's handler catches both.
Analysed(m) ==
  LET fate == Fate(m.doc[1].text)
  IN  /\ docs' = IF fate \in {"done", "unshown"} THEN With(docs, m.uri[1], m.doc[1]) ELSE docs
      /\ IF fate = "done" THEN Write(Diagnostics(m.uri[1], m.doc)) ELSE UNCHANGED outbox
      /\ mode' = IF fate \in {"crash", "endless"} THEN fate ELSE mode

onDidOpen(m)   == IF m.lacks = "nothing" THEN Analysed(m) ELSE UNCHANGED server
onDidChange(m) == IF m.lacks = "nothing" THEN Analysed(m) ELSE UNCHANGED server
\* A wrong variant of onDidClose: the diagnostics stay on the screen.
onDidCloseSilently(m) == IF m.lacks = "nothing" THEN docs' = Without(docs, m.uri[1]) /\ UNCHANGED <<mode, outbox>>
                         ELSE UNCHANGED server

onDidClose(m)  == IF m.lacks = "nothing"
                  THEN docs' = Without(docs, m.uri[1]) /\ Write(Diagnostics(m.uri[1], None)) /\ UNCHANGED mode
                  ELSE UNCHANGED server

Notification(m) ==
  /\ m.method # "" /\ m.id = None
  /\ CASE m.method = "exit"      -> mode' = "exited" /\ UNCHANGED <<docs, outbox>>
       [] m.method = "didOpen"   -> onDidOpen(m)
       [] m.method = "didChange" -> onDidChange(m)
       [] m.method = "didClose"  -> onDidClose(m)
       [] OTHER                  -> UNCHANGED server

\* The document is looked up before the position is, and a document that is not
\* open has no result whatever the position.
onDocument(m) ==
  LET doc == Entry(docs, m.uri[1])
  IN  IF m.lacks = "textDocument" THEN Reply(m, InternalError, None)
      ELSE IF doc # None /\ m.method \in Positioned /\ m.lacks = "position" THEN Reply(m, InternalError, None)
      ELSE Reply(m, 0, doc)

Request(m) ==
  /\ m.method # "" /\ m.id # None
  /\ CASE m.method \in OnDocument            -> onDocument(m)
       [] m.method \in Requests \ OnDocument -> Reply(m, 0, None)
       [] OTHER                              -> Reply(m, MethodNotFound, None)

Handle ==
  /\ mode = "running" /\ inbox # << >> /\ Head1.frame = "good"
  /\ Taken
  /\ Invalid(Head1) \/ Notification(Head1) \/ Request(Head1)
  /\ UNCHANGED client

Serve == EndOfInput \/ BadHeader \/ Damaged \/ Handle

-----------------------------------------------------------------------------
(* The editor.                                                             *)

Deliver(m, frame) ==
  /\ ~closed /\ sent < MaxSent
  /\ sent' = sent + 1
  /\ inbox' = Append(inbox, [m EXCEPT !.frame = frame])
  /\ UNCHANGED <<server, closed>>

\* What an analysis that is undone makes of a document, the server does not know.
Undone(doc) == doc # None /\ Fate(doc[1].text) = "undone"

\* A document opened, changed or closed here; what went lost is made good by the
\* next change that arrives.
Tell(m, frame, then) ==
  /\ Deliver(m, frame)
  /\ editor' = then
  /\ lost' = IF frame = "good" /\ ~Undone(m.doc) THEN lost \ {m.uri[1]} ELSE lost \cup {m.uri[1]}
  /\ UNCHANGED asked

Edit(uri, text, frame) ==
  LET known == Entry(editor, uri)
      doc   == Document(text, IF known = None THEN 1 ELSE known[1].version + 1)
  IN  Tell(Message(IF known = None THEN "didOpen" ELSE "didChange", Some(uri), Some(doc)), frame, With(editor, uri, doc))

Close(uri, frame) ==
  /\ uri \in DOMAIN editor
  /\ Tell(Message("didClose", Some(uri), None), frame, Without(editor, uri))

\* A request; requests are numbered by what was sent before them.
Ask(m, frame) ==
  /\ Deliver([m EXCEPT !.id = Some(sent)], frame)
  /\ asked' = IF frame # "good" THEN asked
              ELSE asked \cup {[id |-> sent, lacks |-> m.lacks,
                                sure |-> m.method \in OnDocument /\ m.uri[1] \notin lost,
                                doc  |-> IF m.uri = None THEN None ELSE Entry(editor, m.uri[1])]}
  /\ UNCHANGED <<editor, lost>>

Query(method, uri) == Message(method, Some(uri), None)

\* Anything else that is sent changes nothing in the editor.
Notify(m) == Deliver(m, "good") /\ UNCHANGED <<editor, lost, asked>>

CloseInput == ~closed /\ closed' = TRUE /\ UNCHANGED <<server, inbox, editor, lost, sent, asked>>

Send ==
  \/ \E uri \in Uris, frame \in {"good"} \cup Faults :
       \/ \E text \in Texts : Edit(uri, text, frame)
       \/ Close(uri, frame)
       \/ \E method \in Queries : Ask(Query(method, uri), frame)
  \/ \E m \in Odd : Ask(m, "good") \/ Notify(m)

Next == Serve \/ Send \/ CloseInput
Spec == Init /\ [][Next]_vars /\ WF_vars(Serve)

-----------------------------------------------------------------------------
(* Properties.                                                             *)

TypeOK ==
  /\ mode \in {"running", "ended", "exited", "crash", "endless"}
  /\ closed \in BOOLEAN /\ sent \in Nat
  /\ lost \subseteq Uris /\ DOMAIN docs \subseteq Uris
  /\ inbox \in Seq(Messages)

Answers == {i \in DOMAIN outbox : outbox[i].to = "request"}
Waiting == {i \in DOMAIN inbox : inbox[i].frame = "good" /\ inbox[i].id # None}

\* Answers come in the order of the requests, and none comes twice.
AnsweredInOrder == \A i, j \in Answers : i < j => outbox[i].id < outbox[j].id

\* No request is passed over: it is answered, or still on its way, as long as the
\* server runs.
NothingSkipped ==
  mode = "running" => \A r \in asked : \/ \E i \in Answers : outbox[i].id = r.id
                                       \/ \E i \in Waiting : inbox[i].id = Some(r.id)

\* An answer is about the document as the editor had it when it asked, however
\* many changes were on their way then, and also when the diagnostics of the last
\* one could not be written.
AnswersAreCurrent ==
  \A i \in Answers : \A r \in asked :
    r.id = outbox[i].id /\ r.sure /\ outbox[i].result = 0 => outbox[i].about = r.doc

\* When all is read, the diagnostics last shown for a document are those of its
\* last text and version, or none when it is closed, although changes before the
\* last one may have gone lost, been undone or had diagnostics that could not be
\* written.
Unshown(doc) == doc # None /\ Fate(doc[1].text) = "unshown"
Shown(uri) == {i \in DOMAIN outbox : outbox[i].to = "editor" /\ outbox[i].uri = uri}
DiagnosticsSettle ==
  mode = "running" /\ inbox = << >> =>
    \A uri \in Uris \ lost :
      \/ Unshown(Entry(editor, uri))
      \/ Shown(uri) = {} /\ uri \notin DOMAIN editor
      \/ \E i \in Shown(uri) : (\A j \in Shown(uri) : j <= i) /\ outbox[i].about = Entry(editor, uri)

\* Every request is answered, or the server stops.
Answered ==
  \A n \in 0..MaxSent - 1 :
    (\E r \in asked : r.id = n) ~> (mode # "running" \/ \E i \in Answers : outbox[i].id = n)

===============================================================================
