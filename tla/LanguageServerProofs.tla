------------------------ MODULE LanguageServerProofs ------------------------
(***************************************************************************)
(* The language server, for every number of documents, texts and messages, *)
(* whatever happens to the frames: requests are answered in their order,   *)
(* none twice, and none is passed over.                                    *)
(*                                                                         *)
(* What the server will know of a document once its inbox is read is what  *)
(* the editor knows now, and what it will know when it comes to a request  *)
(* is what the editor knew when it asked.  So answers are about the        *)
(* document asked of, and the diagnostics settle on the last text.         *)
(***************************************************************************)
EXTENDS LanguageServer, SequenceTheorems, TLAPS

Doc    == [text : Texts, version : Nat]
Tables == UNION {[P -> Doc] : P \in SUBSET Uris}
Output == {Answer(n, r, d) : n \in Nat, r \in Int, d \in Seq(Doc)} \cup {Diagnostics(u, d) : u \in Uris, d \in Seq(Doc)}

\* The messages that carry an id, damaged or not.
Numbered == {i \in DOMAIN inbox : inbox[i].id # None}

TypeInv ==
  /\ TypeOK
  /\ docs \in Tables /\ editor \in Tables
  /\ outbox \in Seq(Output)

\* Ids on their way grow, are below the next one, and are above those answered.
WaitingInOrder == \A i, j \in Numbered : i < j => inbox[i].id[1] < inbox[j].id[1]
WaitingRecent  == \A i \in Numbered : inbox[i].id[1] < sent
AnsweredBefore == \A i \in Answers, j \in Numbered : outbox[i].id < inbox[j].id[1]
AnsweredRecent == \A i \in Answers : outbox[i].id < sent

IInv == /\ TypeInv
        /\ WaitingInOrder /\ WaitingRecent /\ AnsweredBefore /\ AnsweredRecent
        /\ AnsweredInOrder /\ NothingSkipped

-----------------------------------------------------------------------------
(* Messages, tables of documents and what is written.                      *)

LEMMA TableFacts ==
  ASSUME NEW table \in Tables, NEW uri \in Uris
  PROVE  /\ DOMAIN table \in SUBSET Uris
         /\ \A doc \in Doc : With(table, uri, doc) \in Tables
         /\ Without(table, uri) \in Tables
         /\ Entry(table, uri) \in Seq(Doc)
         /\ Entry(table, uri) # None => table[uri] \in Doc
<1>1. PICK P \in SUBSET Uris : table \in [P -> Doc]
  BY DEF Tables
<1>2. DOMAIN table = P
  BY <1>1
<1>3. ASSUME NEW doc \in Doc PROVE With(table, uri, doc) \in [P \cup {uri} -> Doc]
  BY <1>1, <1>2 DEF With
<1>4. Without(table, uri) \in [P \ {uri} -> Doc]
  BY <1>1, <1>2 DEF Without
<1>5. P \cup {uri} \in SUBSET Uris /\ P \ {uri} \in SUBSET Uris
  OBVIOUS
<1>6. uri \in DOMAIN table => table[uri] \in Doc
  BY <1>1, <1>2
<1>7. Entry(table, uri) \in Seq(Doc)
  BY <1>6 DEF Entry, None, Some
<1>8. Entry(table, uri) # None => uri \in DOMAIN table
  BY DEF Entry
<1>. QED
  BY <1>1, <1>2, <1>3, <1>4, <1>5, <1>6, <1>7, <1>8 DEF Tables

LEMMA MessageFacts ==
  ASSUME NEW m \in Messages
  PROVE  /\ m.id \in Seq(Nat) /\ m.uri \in Seq(Uris) /\ m.doc \in Seq(Doc)
         /\ m.lacks = "nothing" /\ m.method \in {"didOpen", "didChange"} => m.uri # None /\ m.doc # None
         /\ m.lacks = "nothing" /\ m.method = "didClose" => m.uri # None
         /\ m.method \in OnDocument /\ m.lacks # "textDocument" => m.uri # None
         /\ Len(m.id) <= 1 /\ Len(m.uri) <= 1 /\ Len(m.doc) <= 1
BY DEF Messages, Doc

LEMMA OptionFacts ==
  ASSUME NEW S, NEW s \in S
  PROVE  /\ None \in Seq(S) /\ Some(s) \in Seq(S)
         /\ Some(s) # None /\ Some(s)[1] = s
         /\ Len(Some(s)) <= 1 /\ Len(None) <= 1
BY DEF None, Some

\* What is shaped as a message, and what makes it one.
Shaped == [frame : {"good"} \cup Faults, id : Seq(Nat), method : {"", "unknown"} \cup Requests \cup Notified,
           uri : Seq(Uris), doc : Seq([text : Texts, version : Nat]),
           lacks : {"nothing", "textDocument", "position", "text"}]

LEMMA ShapedFacts ==
  ASSUME NEW m \in Shaped,
         Len(m.id) <= 1, Len(m.uri) <= 1, Len(m.doc) <= 1,
         m.lacks = "nothing" /\ m.method \in {"didOpen", "didChange"} => m.uri # None /\ m.doc # None,
         m.lacks = "nothing" /\ m.method = "didClose" => m.uri # None,
         m.method \in OnDocument /\ m.lacks # "textDocument" => m.uri # None
  PROVE  m \in Messages
BY Zenon DEF Messages, Shaped

\* What makes a message of the editor.
LEMMA MessageIs ==
  ASSUME NEW method \in OfDocuments \cup OnDocument, NEW uri \in Uris,
         NEW doc \in Seq(Doc), Len(doc) <= 1, method \in {"didOpen", "didChange"} => doc # None
  PROVE  /\ Message(method, Some(uri), doc) \in Messages
         /\ Message(method, Some(uri), doc).id = None
         /\ Message(method, Some(uri), doc).uri = Some(uri)
         /\ Message(method, Some(uri), doc).uri[1] = uri
         /\ Message(method, Some(uri), doc).doc = doc
         /\ Message(method, Some(uri), doc).method = method
         /\ Message(method, Some(uri), doc).lacks = "nothing"
<1>1. None \in Seq(Nat) /\ Len(None) <= 1
  BY DEF None
<1>2. method \in {"", "unknown"} \cup Requests \cup Notified
  BY DEF Requests, Notified, OfDocuments
<1>3. Some(uri) \in Seq(Uris) /\ Some(uri) # None /\ Len(Some(uri)) <= 1 /\ Some(uri)[1] = uri
  BY OptionFacts
<1> DEFINE m == Message(method, Some(uri), doc)
<1>4. /\ m.frame = "good" /\ m.id = None /\ m.method = method /\ m.uri = Some(uri) /\ m.doc = doc /\ m.lacks = "nothing"
      /\ m \in Shaped
  BY <1>1, <1>2, <1>3 DEF Message, Doc, Shaped
<1>. HIDE DEF m
<1>5. m \in Messages
  <2>1. Len(m.id) <= 1 /\ Len(m.uri) <= 1 /\ Len(m.doc) <= 1 /\ m.uri # None
    BY <1>1, <1>3, <1>4
  <2>. QED
    BY <1>4, <2>1, ShapedFacts
<1>. QED
  BY <1>3, <1>4, <1>5 DEF m

LEMMA FirstOf ==
  ASSUME NEW S, NEW s \in Seq(S), s # None
  PROVE  s[1] \in S
BY DEF None

\* A message that is taken leaves the others as they were, one place further on.
LEMMA TakenFacts ==
  ASSUME inbox \in Seq(Messages), inbox # << >>, Taken
  PROVE  /\ inbox' \in Seq(Messages)
         /\ Head1 \in Messages /\ Head1 = inbox[1] /\ 1 \in DOMAIN inbox
         /\ \A i \in DOMAIN inbox' : i + 1 \in DOMAIN inbox /\ inbox'[i] = inbox[i + 1] /\ i \in Nat /\ i >= 1
         /\ \A i \in DOMAIN inbox : i = 1 \/ (i - 1 \in DOMAIN inbox' /\ inbox'[i - 1] = inbox[i])
BY DEF Taken, Head1

LEMMA WrittenFacts ==
  ASSUME outbox \in Seq(Output), NEW message \in Output, outbox' = Append(outbox, message)
  PROVE  /\ outbox' \in Seq(Output)
         /\ DOMAIN outbox' = DOMAIN outbox \cup {Len(outbox) + 1}
         /\ \A i \in DOMAIN outbox : outbox'[i] = outbox[i] /\ i \in Nat /\ i < Len(outbox) + 1
         /\ outbox'[Len(outbox) + 1] = message
OBVIOUS

\* What a handler may write: nothing, diagnostics, or the answer to the message.
Silent     == outbox' = outbox
Shows      == \E u \in Uris, d \in Seq(Doc) : outbox' = Append(outbox, Diagnostics(u, d))
Replies(m) == m.id # None /\ \E r \in Int, d \in Seq(Doc) : outbox' = Append(outbox, Answer(m.id[1], r, d))

LEMMA ReplyFacts ==
  ASSUME NEW m \in Messages, m.id # None, NEW r \in Int, NEW d \in Seq(Doc), Reply(m, r, d)
  PROVE  Replies(m) /\ docs' = docs /\ mode' = mode
BY DEF Reply, Write, Replies

\* A message with an id is answered, and one without is not.
LEMMA HandledFacts ==
  ASSUME TypeInv, NEW m \in Messages, mode = "running", Invalid(m) \/ Notification(m) \/ Request(m)
  PROVE  /\ docs' \in Tables
         /\ mode' \in {"running", "exited", "crash", "endless"}
         /\ IF m.id = None THEN Silent \/ Shows ELSE Replies(m)
<1>0. None \in Seq(Doc) /\ {InvalidRequest, MethodNotFound, InternalError, 0} \subseteq Int
  BY DEF None, InvalidRequest, MethodNotFound, InternalError
<1>1. CASE Invalid(m)
  <2>1. CASE m.id = None
    BY <1>1, <2>1 DEF Invalid, server, Silent, TypeInv
  <2>2. CASE m.id # None
    BY <1>0, <1>1, <2>2, ReplyFacts DEF Invalid, TypeInv
  <2>. QED
    BY <2>1, <2>2
<1>2. CASE Notification(m)
  <2>1. ASSUME m.lacks = "nothing", m.method \in {"didOpen", "didChange"}, Analysed(m)
        PROVE  docs' \in Tables /\ mode' \in {"running", "crash", "endless"} /\ (Silent \/ Shows)
    <3>1. m.uri[1] \in Uris /\ m.doc[1] \in Doc /\ m.doc \in Seq(Doc)
      BY <2>1, MessageFacts, FirstOf
    <3>2. m.doc[1].text \in Texts
      BY <3>1 DEF Doc
    <3>3. docs' \in Tables
      <4>1. docs' \in {docs, With(docs, m.uri[1], m.doc[1])}
        BY <2>1 DEF Analysed
      <4>. QED
        BY <3>1, <4>1, TableFacts DEF TypeInv
    <3>4. mode' \in {"running", "crash", "endless"}
      BY <2>1 DEF Analysed
    <3>5. Silent \/ Shows
      BY <2>1, <3>1 DEF Analysed, Write, Silent, Shows
    <3>. QED
      BY <3>3, <3>4, <3>5
  <2>2. ASSUME m.lacks = "nothing", m.method = "didClose", onDidClose(m)
        PROVE  docs' \in Tables /\ mode' = "running" /\ Shows
    <3>1. m.uri[1] \in Uris
      BY <2>2, MessageFacts, FirstOf
    <3>2. docs' \in Tables
      BY <2>2, <3>1, TableFacts DEF onDidClose, TypeInv
    <3>. QED
      BY <1>0, <2>2, <3>1, <3>2 DEF onDidClose, Write, Shows
  <2>0. m.id = None
    BY <1>2 DEF Notification
  <2>3. CASE UNCHANGED server
    BY <2>0, <2>3 DEF server, Silent, TypeInv
  <2>4. CASE m.method = "exit"
    BY <1>2, <2>4 DEF Notification, Silent, TypeInv
  <2>. QED
    BY <1>2, <2>1, <2>2, <2>3, <2>4 DEF Notification, onDidOpen, onDidChange, onDidClose
<1>3. CASE Request(m)
  <2>1. CASE m.method \in OnDocument
    <3>1. onDocument(m)
      BY <1>3, <2>1 DEF Request
    <3>2. Entry(docs, m.uri[1]) \in Seq(Doc)
      <4>1. Entry(docs, m.uri[1]) = None \/ m.uri[1] \in DOMAIN docs
        BY DEF Entry
      <4>2. DOMAIN docs \subseteq Uris
        BY DEF TypeInv, TypeOK
      <4>. QED
        BY <1>0, <4>1, <4>2, TableFacts DEF TypeInv
    <3>. QED
      BY <1>0, <1>3, <3>1, <3>2, ReplyFacts DEF Request, onDocument, TypeInv
  <2>2. CASE m.method \notin OnDocument
    BY <1>0, <1>3, <2>2, ReplyFacts DEF Request, TypeInv
  <2>. QED
    BY <2>1, <2>2
<1>. QED
  BY <1>1, <1>2, <1>3
-----------------------------------------------------------------------------
(* The order of the ids.                                                   *)

Order == WaitingInOrder /\ WaitingRecent /\ AnsweredBefore /\ AnsweredRecent /\ AnsweredInOrder

LEMMA OutputFacts ==
  ASSUME NEW message \in Output
  PROVE  message.to = "request" => message.id \in Nat
BY DEF Output, Answer, Diagnostics

\* A message that is taken and answered, or not: the ids keep their order.
LEMMA TakingKeepsOrder ==
  ASSUME TypeInv, Order, inbox # << >>, Taken, sent' = sent,
         Silent \/ Shows \/ Replies(Head1)
  PROVE  Order'
<1>. USE DEF Order, WaitingInOrder, WaitingRecent, AnsweredBefore, AnsweredRecent, AnsweredInOrder
<1>1. /\ \A i \in Numbered' : i + 1 \in Numbered /\ inbox'[i] = inbox[i + 1] /\ i \in Nat /\ i >= 1
      /\ Head1.id # None => 1 \in Numbered /\ Head1 = inbox[1]
  BY TakenFacts DEF Numbered, TypeInv, TypeOK
<1>2. /\ \A i \in Numbered : inbox[i].id[1] \in Nat /\ i \in Nat
      /\ \A i \in Answers : outbox[i].id \in Nat /\ i \in Nat
      /\ sent \in Nat
  BY MessageFacts, FirstOf, OutputFacts DEF Numbered, Answers, TypeInv, TypeOK
<1>3. WaitingInOrder' /\ WaitingRecent'
  BY <1>1, <1>2
<1>4. CASE Silent
  <2>1. Answers' = Answers /\ \A i \in Answers : outbox'[i] = outbox[i]
    BY <1>4 DEF Silent, Answers
  <2>. QED
    BY <1>1, <1>2, <1>3, <2>1
<1>5. CASE Shows
  <2>1. PICK u \in Uris, d \in Seq(Doc) : outbox' = Append(outbox, Diagnostics(u, d))
    BY <1>5 DEF Shows
  <2>2. Diagnostics(u, d) \in Output /\ Diagnostics(u, d).to = "editor"
    BY DEF Output, Diagnostics
  <2>3. Answers' = Answers /\ \A i \in Answers : outbox'[i] = outbox[i]
    BY <2>1, <2>2, WrittenFacts DEF Answers, TypeInv
  <2>. QED
    BY <1>1, <1>2, <1>3, <2>3
<1>6. CASE Replies(Head1)
  <2>1. PICK r \in Int, d \in Seq(Doc) : outbox' = Append(outbox, Answer(Head1.id[1], r, d))
    BY <1>6 DEF Replies
  <2>2. 1 \in Numbered /\ Head1 = inbox[1] /\ Head1.id[1] \in Nat
    BY <1>1, <1>2, <1>6 DEF Replies
  <2>3. /\ Answer(Head1.id[1], r, d) \in Output
        /\ Answer(Head1.id[1], r, d).to = "request"
        /\ Answer(Head1.id[1], r, d).id = inbox[1].id[1]
    BY <2>2 DEF Output, Answer
  <2>4. /\ Answers' = Answers \cup {Len(outbox) + 1}
        /\ \A i \in Answers : outbox'[i] = outbox[i] /\ i < Len(outbox) + 1
        /\ outbox'[Len(outbox) + 1].id = inbox[1].id[1]
        /\ Len(outbox) + 1 \in Nat
    BY <2>1, <2>3, WrittenFacts DEF Answers, TypeInv
  <2>5. AnsweredInOrder'
    BY <1>2, <2>2, <2>4
  <2>6. AnsweredBefore'
    BY <1>1, <1>2, <2>2, <2>4
  <2>7. AnsweredRecent'
    BY <1>2, <2>2, <2>4
  <2>. QED
    BY <1>3, <2>5, <2>6, <2>7
<1>. QED
  BY <1>4, <1>5, <1>6

\* A request that is answered is no longer waited for, and the others still are.
LEMMA TakingSkipsNothing ==
  ASSUME TypeInv, NothingSkipped, mode = "running", inbox # << >>, Taken, asked' = asked,
         Silent \/ Shows \/ Replies(Head1),
         Head1.frame = "good" /\ Head1.id # None => Replies(Head1)
  PROVE  NothingSkipped'
<1>. SUFFICES ASSUME NEW r \in asked
              PROVE  (\E i \in Answers' : outbox'[i].id = r.id) \/ (\E i \in Waiting' : inbox'[i].id = Some(r.id))
  BY DEF NothingSkipped
<1>. DEFINE Kept == \A i \in Answers : i \in Answers' /\ outbox'[i] = outbox[i]
<1>1. Kept
  <2>1. CASE Silent
    BY <2>1 DEF Silent, Answers
  <2>2. ASSUME NEW message \in Output, outbox' = Append(outbox, message) PROVE Kept
    BY <2>2, WrittenFacts DEF Answers, TypeInv
  <2>3. CASE Shows
    <3>. HIDE DEF Kept
    <3>. QED
      BY <2>2, <2>3 DEF Shows, Output
  <2>4. CASE Replies(Head1)
    <3>1. Head1.id[1] \in Nat
      BY <2>4, TakenFacts, MessageFacts, FirstOf DEF Replies, TypeInv, TypeOK
    <3>. HIDE DEF Kept
    <3>. QED
      BY <2>2, <2>4, <3>1 DEF Replies, Output
  <2>. QED
    BY <2>1, <2>3, <2>4
<1>2. CASE \E i \in Answers : outbox[i].id = r.id
  BY <1>1, <1>2
<1>3. ASSUME NEW i \in Waiting, inbox[i].id = Some(r.id), i # 1 PROVE i - 1 \in Waiting' /\ inbox'[i - 1].id = Some(r.id)
  BY <1>3, TakenFacts DEF Waiting, TypeInv, TypeOK
<1>4. ASSUME 1 \in Waiting, inbox[1].id = Some(r.id) PROVE \E i \in Answers' : outbox'[i].id = r.id
  <2>1. Head1 = inbox[1] /\ Head1.id # None /\ Head1.id[1] = r.id /\ Replies(Head1) /\ Head1.id[1] \in Nat
    BY <1>4, TakenFacts, MessageFacts, FirstOf DEF Waiting, Some, TypeInv, TypeOK
  <2>2. PICK x \in Int, d \in Seq(Doc) : outbox' = Append(outbox, Answer(r.id, x, d))
    BY <2>1 DEF Replies
  <2>3. Answer(r.id, x, d) \in Output /\ Answer(r.id, x, d).to = "request" /\ Answer(r.id, x, d).id = r.id
    BY <2>1 DEF Output, Answer
  <2>4. Len(outbox) + 1 \in Answers' /\ outbox'[Len(outbox) + 1].id = r.id
    BY <2>2, <2>3, WrittenFacts DEF Answers, TypeInv
  <2>. QED
    BY <2>4
<1>. QED
  BY <1>2, <1>3, <1>4 DEF NothingSkipped
-----------------------------------------------------------------------------
(* What the editor sends.                                                  *)

LEMMA DeliveredFacts ==
  ASSUME TypeInv, NEW m \in Messages, NEW frame \in {"good"} \cup Faults, Deliver(m, frame)
  PROVE  /\ inbox' \in Seq(Messages)
         /\ DOMAIN inbox' = DOMAIN inbox \cup {Len(inbox) + 1}
         /\ \A i \in DOMAIN inbox : inbox'[i] = inbox[i] /\ i \in Nat /\ i < Len(inbox) + 1
         /\ inbox'[Len(inbox) + 1].id = m.id /\ inbox'[Len(inbox) + 1].frame = frame
         /\ inbox'[Len(inbox) + 1].method = m.method /\ inbox'[Len(inbox) + 1].lacks = m.lacks
         /\ inbox'[Len(inbox) + 1].uri = m.uri /\ inbox'[Len(inbox) + 1].doc = m.doc
         /\ Len(inbox) + 1 \in Nat
         /\ sent' = sent + 1
<1>1. [m EXCEPT !.frame = frame] \in Messages
  BY DEF Messages
<1>2. /\ [m EXCEPT !.frame = frame].id = m.id /\ [m EXCEPT !.frame = frame].frame = frame
      /\ [m EXCEPT !.frame = frame].method = m.method /\ [m EXCEPT !.frame = frame].lacks = m.lacks
      /\ [m EXCEPT !.frame = frame].uri = m.uri /\ [m EXCEPT !.frame = frame].doc = m.doc
  BY DEF Messages
<1>. QED
  BY <1>1, <1>2 DEF Deliver, TypeInv, TypeOK

LEMMA DeliveringKeepsOrder ==
  ASSUME TypeInv, Order, NEW m \in Messages, m.id \in {None, Some(sent)},
         NEW frame \in {"good"} \cup Faults, Deliver(m, frame)
  PROVE  Order'
<1>0. /\ \A i \in Numbered : inbox[i].id[1] \in Nat /\ i \in Nat
      /\ \A i \in Answers : outbox[i].id \in Nat /\ i \in Nat
      /\ sent \in Nat
  BY MessageFacts, FirstOf, OutputFacts DEF Numbered, Answers, TypeInv, TypeOK
<1>1. /\ \A i \in Numbered : inbox[i].id[1] \in Nat /\ i \in Nat
      /\ \A i \in Answers : outbox[i].id \in Nat /\ i \in Nat
      /\ sent \in Nat /\ sent' = sent + 1
  BY <1>0, DeliveredFacts
<1>2. Answers' = Answers /\ outbox' = outbox
  BY DEF Deliver, server, Answers
<1>3. \A i \in Numbered' : \/ i \in Numbered /\ inbox'[i] = inbox[i] /\ i < Len(inbox) + 1
                           \/ i = Len(inbox) + 1 /\ inbox'[i].id[1] = sent
  BY DeliveredFacts DEF Numbered, Some
<1>4. Len(inbox) + 1 \in Nat
  BY DeliveredFacts
<1>. USE DEF Order, WaitingInOrder, WaitingRecent, AnsweredBefore, AnsweredRecent, AnsweredInOrder
<1>5. WaitingRecent' /\ AnsweredRecent'
  BY <1>1, <1>2, <1>3
<1>6. WaitingInOrder'
  BY <1>1, <1>3, <1>4
<1>7. AnsweredBefore'
  BY <1>1, <1>2, <1>3
<1>. QED
  BY <1>2, <1>5, <1>6, <1>7

LEMMA DeliveringSkipsNothing ==
  ASSUME TypeInv, NothingSkipped, NEW m \in Messages, NEW frame \in {"good"} \cup Faults, Deliver(m, frame),
         \A r \in asked' : r \in asked \/ (frame = "good" /\ m.id = Some(r.id))
  PROVE  NothingSkipped'
<1>. SUFFICES ASSUME mode = "running", NEW r \in asked'
              PROVE  (\E i \in Answers' : outbox'[i].id = r.id) \/ (\E i \in Waiting' : inbox'[i].id = Some(r.id))
  BY DEF NothingSkipped, Deliver, server
<1>1. Answers' = Answers /\ outbox' = outbox
  BY DEF Deliver, server, Answers
<1>2. \A i \in Waiting : i \in Waiting' /\ inbox'[i] = inbox[i]
  BY DeliveredFacts DEF Waiting
<1>3. CASE r \in asked
  BY <1>1, <1>2, <1>3 DEF NothingSkipped
<1>4. CASE frame = "good" /\ m.id = Some(r.id)
  <2>1. Some(r.id) # None
    BY DEF Some, None
  <2>2. Len(inbox) + 1 \in Waiting' /\ inbox'[Len(inbox) + 1].id = Some(r.id)
    BY <1>4, <2>1, DeliveredFacts DEF Waiting
  <2>. QED
    BY <2>2
<1>. QED
  BY <1>3, <1>4

LEMMA DeliveringKeepsType ==
  ASSUME TypeInv, NEW m \in Messages, NEW frame \in {"good"} \cup Faults, Deliver(m, frame),
         editor' \in Tables, lost' \subseteq Uris
  PROVE  TypeInv'
<1>1. inbox' \in Seq(Messages) /\ sent' = sent + 1
  BY DeliveredFacts
<1>. QED
  BY <1>1 DEF TypeInv, TypeOK, Deliver, server

\* A message of the editor that keeps its table: the invariant in one step.
LEMMA Delivering ==
  ASSUME IInv, NEW m \in Messages, NEW frame \in {"good"} \cup Faults, Deliver(m, frame),
         m.id \in {None, Some(sent)}, editor' \in Tables, lost' \subseteq Uris,
         \A r \in asked' : r \in asked \/ (frame = "good" /\ m.id = Some(r.id))
  PROVE  IInv'
BY DeliveringKeepsOrder, DeliveringSkipsNothing, DeliveringKeepsType DEF IInv, Order

LEMMA EditKeeps ==
  ASSUME IInv, NEW uri \in Uris, NEW text \in Texts, NEW frame \in {"good"} \cup Faults, Edit(uri, text, frame)
  PROVE  IInv'
<1>. DEFINE known == Entry(editor, uri)
            doc   == Document(text, IF known = None THEN 1 ELSE known[1].version + 1)
            m     == Message(IF known = None THEN "didOpen" ELSE "didChange", Some(uri), Some(doc))
<1>1. doc \in Doc
  <2>1. known = None \/ known[1] \in Doc
    BY TableFacts, FirstOf DEF IInv, TypeInv
  <2>. QED
    BY <2>1 DEF Doc, Document
<1>2. m \in Messages /\ m.id = None /\ m.uri[1] = uri
  <2>1. Some(doc) \in Seq(Doc) /\ Some(doc) # None /\ Len(Some(doc)) <= 1
    BY <1>1, OptionFacts
  <2>2. (IF known = None THEN "didOpen" ELSE "didChange") \in OfDocuments \cup OnDocument
    BY DEF OfDocuments
  <2>. HIDE DEF known, doc
  <2>. QED
    BY <2>1, <2>2, MessageIs
<1>3. Deliver(m, frame) /\ editor' = With(editor, uri, doc) /\ asked' = asked /\ lost' \in {lost \ {uri}, lost \cup {uri}}
  BY <1>2 DEF Edit, Tell
<1>4. editor' \in Tables /\ lost' \subseteq Uris
  BY <1>1, <1>3, TableFacts DEF IInv, TypeInv, TypeOK
<1>. HIDE DEF m
<1>. QED
  BY <1>2, <1>3, <1>4, Delivering

LEMMA CloseKeeps ==
  ASSUME IInv, NEW uri \in Uris, NEW frame \in {"good"} \cup Faults, Close(uri, frame)
  PROVE  IInv'
<1>. DEFINE m == Message("didClose", Some(uri), None)
<1>1. m \in Messages /\ m.id = None /\ m.uri[1] = uri
  <2>1. None \in Seq(Doc) /\ Len(None) <= 1
    BY DEF None
  <2>2. "didClose" \in OfDocuments \cup OnDocument /\ "didClose" \notin {"didOpen", "didChange"}
    BY DEF OfDocuments
  <2>. QED
    BY <2>1, <2>2, MessageIs
<1>2. Deliver(m, frame) /\ editor' = Without(editor, uri) /\ asked' = asked /\ lost' \in {lost \ {uri}, lost \cup {uri}}
  BY <1>1 DEF Close, Tell
<1>3. editor' \in Tables /\ lost' \subseteq Uris
  BY <1>2, TableFacts DEF IInv, TypeInv, TypeOK
<1>. HIDE DEF m
<1>. QED
  BY <1>1, <1>2, <1>3, Delivering

\* A message that is given an id is a request.
LEMMA NumberedFacts ==
  ASSUME TypeInv, NEW m \in Messages
  PROVE  LET n == [m EXCEPT !.id = Some(sent)]
         IN  /\ n \in Messages /\ n.id = Some(sent)
             /\ n.uri = m.uri /\ n.doc = m.doc /\ n.method = m.method /\ n.lacks = m.lacks
<1>. DEFINE n == [m EXCEPT !.id = Some(sent)]
<1>1. Some(sent) \in Seq(Nat) /\ Len(Some(sent)) <= 1
  BY OptionFacts DEF TypeInv, TypeOK
<1>2. n \in Shaped /\ n.id = Some(sent)
  BY <1>1 DEF Messages, Shaped
<1>3. n.uri = m.uri /\ n.doc = m.doc /\ n.method = m.method /\ n.lacks = m.lacks
  BY DEF Messages
<1>. HIDE DEF n
<1>4. Len(n.id) <= 1 /\ Len(n.uri) <= 1 /\ Len(n.doc) <= 1
  BY <1>1, <1>2, <1>3, MessageFacts
<1>5. n \in Messages
  BY <1>2, <1>3, <1>4, MessageFacts, ShapedFacts
<1>. QED
  BY <1>2, <1>3, <1>5 DEF n

LEMMA QueryFacts ==
  ASSUME NEW method \in Queries, NEW uri \in Uris
  PROVE  Query(method, uri) \in Messages
<1>1. None \in Seq(Doc) /\ Len(None) <= 1
  BY DEF None
<1>2. method \in OfDocuments \cup OnDocument /\ method \notin {"didOpen", "didChange"}
  BY ServerAssumption DEF OnDocument, Positioned
<1>. QED
  BY <1>1, <1>2, MessageIs DEF Query

LEMMA AskKeeps ==
  ASSUME IInv, NEW m \in Messages, NEW frame \in {"good"} \cup Faults, Ask(m, frame)
  PROVE  IInv'
<1>. DEFINE n == [m EXCEPT !.id = Some(sent)]
<1>1. n \in Messages /\ n.id = Some(sent)
  BY NumberedFacts DEF IInv
<1>2. Deliver(n, frame) /\ editor' = editor /\ lost' = lost
  BY DEF Ask
<1>3. \A r \in asked' : r \in asked \/ (frame = "good" /\ n.id = Some(r.id))
  BY <1>1 DEF Ask
<1>4. editor' \in Tables /\ lost' \subseteq Uris
  BY <1>2 DEF IInv, TypeInv, TypeOK
<1>. HIDE DEF n
<1>. QED
  BY <1>1, <1>2, <1>3, <1>4, Delivering

LEMMA SendKeeps ==
  ASSUME IInv, Send
  PROVE  IInv'
<1>1. ASSUME NEW uri \in Uris, NEW frame \in {"good"} \cup Faults, NEW method \in Queries, Ask(Query(method, uri), frame)
      PROVE  IInv'
  BY <1>1, QueryFacts, AskKeeps
<1>2. ASSUME NEW m \in Odd, Ask(m, "good") PROVE IInv'
  BY <1>2, ServerAssumption, AskKeeps
<1>3. ASSUME NEW m \in Odd, Notify(m) PROVE IInv'
  <2>1. m \in Messages /\ m.id = None
    BY ServerAssumption
  <2>2. Deliver(m, "good") /\ editor' = editor /\ lost' = lost /\ asked' = asked
    BY <1>3 DEF Notify
  <2>3. editor' \in Tables /\ lost' \subseteq Uris
    BY <2>2 DEF IInv, TypeInv, TypeOK
  <2>. QED
    BY <2>1, <2>2, <2>3, Delivering
<1>. QED
  BY <1>1, <1>2, <1>3, EditKeeps, CloseKeeps DEF Send

-----------------------------------------------------------------------------
(* What the server does.                                                   *)

LEMMA HandleKeeps ==
  ASSUME IInv, Handle
  PROVE  IInv'
<1>1. /\ inbox # << >> /\ Taken /\ Head1.frame = "good" /\ mode = "running"
      /\ Invalid(Head1) \/ Notification(Head1) \/ Request(Head1)
      /\ closed' = closed /\ editor' = editor /\ lost' = lost /\ sent' = sent /\ asked' = asked
  BY DEF Handle, client
<1>2. Head1 \in Messages /\ Head1 = inbox[1] /\ inbox' \in Seq(Messages)
  BY <1>1, TakenFacts DEF IInv, TypeInv, TypeOK
<1>3. /\ docs' \in Tables
      /\ mode' \in {"running", "exited", "crash", "endless"}
      /\ IF Head1.id = None THEN Silent \/ Shows ELSE Replies(Head1)
  BY <1>1, <1>2, HandledFacts DEF IInv
<1>4. outbox' \in Seq(Output)
  <2>1. ASSUME NEW message \in Output, outbox' = Append(outbox, message) PROVE outbox' \in Seq(Output)
    BY <2>1, WrittenFacts DEF IInv, TypeInv
  <2>2. Head1.id # None => Head1.id[1] \in Nat
    BY <1>2, MessageFacts, FirstOf
  <2>. QED
    BY <1>3, <2>1, <2>2 DEF Silent, Shows, Replies, Output, IInv, TypeInv
<1>5. DOMAIN docs' \subseteq Uris
  BY <1>3 DEF Tables
<1>6. TypeInv'
  BY <1>1, <1>2, <1>3, <1>4, <1>5 DEF IInv, TypeInv, TypeOK
<1>7. Order'
  BY <1>1, <1>3, TakingKeepsOrder DEF IInv, Order
<1>8. NothingSkipped'
  BY <1>1, <1>3, TakingSkipsNothing DEF IInv
<1>. QED
  BY <1>6, <1>7, <1>8 DEF IInv, Order

LEMMA DamagedKeeps ==
  ASSUME IInv, Damaged
  PROVE  IInv'
<1>1. /\ inbox # << >> /\ Taken /\ Head1.frame = "damaged" /\ mode = "running"
      /\ docs' = docs /\ mode' = mode /\ outbox' = outbox
      /\ closed' = closed /\ editor' = editor /\ lost' = lost /\ sent' = sent /\ asked' = asked
  BY DEF Damaged, client, server
<1>2. Silent
  BY <1>1 DEF Silent
<1>3. inbox' \in Seq(Messages)
  BY <1>1, TakenFacts DEF IInv, TypeInv, TypeOK
<1>4. TypeInv'
  BY <1>1, <1>3 DEF IInv, TypeInv, TypeOK
<1>5. Order'
  BY <1>1, <1>2, TakingKeepsOrder DEF IInv, Order
<1>6. NothingSkipped'
  BY <1>1, <1>2, TakingSkipsNothing DEF IInv
<1>. QED
  BY <1>4, <1>5, <1>6 DEF IInv, Order

\* A server that has stopped, a pipe that is closed, and a step that changes nothing.
LEMMA IdleKeeps ==
  ASSUME IInv, mode' = mode \/ mode' = "ended", closed' \in BOOLEAN,
         UNCHANGED <<docs, inbox, outbox, editor, lost, sent, asked>>
  PROVE  IInv'
<1>1. TypeInv'
  BY DEF IInv, TypeInv, TypeOK
<1>2. Answers' = Answers /\ Numbered' = Numbered /\ Waiting' = Waiting
  BY DEF Answers, Numbered, Waiting
<1>3. Order'
  BY <1>2 DEF IInv, Order, WaitingInOrder, WaitingRecent, AnsweredBefore, AnsweredRecent, AnsweredInOrder
<1>4. NothingSkipped'
  BY <1>2 DEF IInv, NothingSkipped
<1>. QED
  BY <1>1, <1>3, <1>4 DEF IInv, Order

LEMMA InitHolds == Init => IInv
<1>. SUFFICES ASSUME Init PROVE IInv
  OBVIOUS
<1>1. docs \in Tables /\ editor \in Tables
  <2>1. << >> \in [{} -> Doc] /\ {} \in SUBSET Uris
    OBVIOUS
  <2>. QED
    BY <2>1 DEF Init, Tables
<1>2. TypeInv
  <2>1. DOMAIN docs \subseteq Uris /\ inbox \in Seq(Messages) /\ outbox \in Seq(Output)
    BY DEF Init
  <2>. QED
    BY <1>1, <2>1 DEF Init, TypeInv, TypeOK
<1>3. Answers = {} /\ Numbered = {} /\ asked = {}
  BY DEF Init, Answers, Numbered
<1>. QED
  BY <1>2, <1>3 DEF IInv, WaitingInOrder, WaitingRecent, AnsweredBefore, AnsweredRecent, AnsweredInOrder, NothingSkipped

LEMMA StepKeeps == IInv /\ [Next]_vars => IInv'
<1>. SUFFICES ASSUME IInv, [Next]_vars PROVE IInv'
  OBVIOUS
<1>1. CASE EndOfInput \/ BadHeader
  <2>1. closed \in BOOLEAN
    BY DEF IInv, TypeInv, TypeOK
  <2>. QED
    BY <1>1, <2>1, IdleKeeps DEF EndOfInput, BadHeader, client
<1>2. CASE Damaged
  BY <1>2, DamagedKeeps
<1>3. CASE Handle
  BY <1>3, HandleKeeps
<1>4. CASE Send
  BY <1>4, SendKeeps
<1>5. CASE CloseInput
  BY <1>5, IdleKeeps DEF CloseInput, server
<1>6. CASE UNCHANGED vars
  <2>1. closed \in BOOLEAN
    BY DEF IInv, TypeInv, TypeOK
  <2>. QED
    BY <1>6, <2>1, IdleKeeps DEF vars
<1>. QED
  BY <1>1, <1>2, <1>3, <1>4, <1>5, <1>6 DEF Next, Serve

LEMMA Invariance == Spec => []IInv
BY InitHolds, StepKeeps, PTL DEF Spec

-----------------------------------------------------------------------------

\* The server's table, the pipes and what the editor knows keep their types, for
\* any number of documents, texts and messages.
THEOREM ServerTypeCorrect == Spec => []TypeOK
<1>1. IInv => TypeOK
  BY DEF IInv, TypeInv
<1>. QED
  BY <1>1, Invariance, PTL

\* JsonRpcServer::handle: the answers come in the order in which the editor asked,
\* and no request is answered twice, whatever is lost on the way.
THEOREM AnswersInOrder == Spec => []AnsweredInOrder
<1>1. IInv => AnsweredInOrder
  BY DEF IInv
<1>. QED
  BY <1>1, Invariance, PTL

\* JsonRpcServer::handle: a request that arrives is answered before anything that
\* was sent after it is handled; none is forgotten while the server runs.
THEOREM NoRequestSkipped == Spec => []NothingSkipped
<1>1. IInv => NothingSkipped
  BY DEF IInv
<1>. QED
  BY <1>1, Invariance, PTL

-----------------------------------------------------------------------------
\* A message that changes a document, and what it makes of it.
ChangesTo(m) == IF m.method = "didClose" THEN None ELSE m.doc
Changes(m, uri) ==
  /\ m.frame = "good" /\ m.id = None /\ m.lacks = "nothing" /\ m.method \in OfDocuments /\ m.uri = Some(uri)
  /\ ~Undone(ChangesTo(m))

\* The first n messages of the inbox leave the server with `doc` for a document:
\* the last of them that changes it says so, or none does and it is so already.
Leaves(uri, n, doc) ==
  \/ \E i \in 1..n : /\ Changes(inbox[i], uri) /\ ChangesTo(inbox[i]) = doc
                     /\ \A j \in i + 1..n : ~Changes(inbox[j], uri)
  \/ Entry(docs, uri) = doc /\ \A j \in 1..n : ~Changes(inbox[j], uri)

\* The server will know what the editor knows, but for what went lost.
InStep == mode = "running" => \A uri \in Uris \ lost : Leaves(uri, Len(inbox), Entry(editor, uri))

\* When the server comes to a request, it will know what the editor knew when it asked.
RequestsKnown ==
  mode = "running" =>
    \A r \in asked, i \in Waiting :
      r.sure /\ inbox[i].id = Some(r.id) =>
        /\ inbox[i].method \in OnDocument
        /\ inbox[i].lacks # "textDocument" => Leaves(inbox[i].uri[1], i, r.doc)

AskedRecent == \A r \in asked : r.id \in Nat /\ r.id < sent

\* What is shown of a document is what the server knows of it, if that can be shown.
InView ==
  \A uri \in Uris :
    \/ Unshown(Entry(docs, uri))
    \/ Shown(uri) = {} /\ Entry(docs, uri) = None
    \/ \E i \in Shown(uri) : (\A j \in Shown(uri) : j <= i) /\ outbox[i].about = Entry(docs, uri)

DocInv == InStep /\ RequestsKnown /\ AskedRecent /\ InView /\ AnswersAreCurrent

-----------------------------------------------------------------------------
(* Documents in tables, and what the handlers make of them.                *)

LEMMA OneFacts ==
  ASSUME NEW S, NEW s \in Seq(S), s # None, Len(s) <= 1
  PROVE  s[1] \in S /\ s = Some(s[1])
<1>1. Len(s) = 1 /\ s[1] \in S
  BY DEF None
<1>2. <<s[1]>> \in Seq(S) /\ Len(<<s[1]>>) = 1 /\ <<s[1]>>[1] = s[1]
  BY <1>1
<1>3. \A i \in 1..Len(s) : s[i] = <<s[1]>>[i]
  BY <1>1, <1>2
<1>4. s = <<s[1]>>
  BY <1>1, <1>2, <1>3, SeqEqual
<1>. QED
  BY <1>1, <1>4 DEF Some

LEMMA EntryFacts ==
  ASSUME NEW table \in Tables, NEW uri \in Uris, NEW doc
  PROVE  /\ Entry(With(table, uri, doc), uri) = Some(doc)
         /\ Entry(Without(table, uri), uri) = None
         /\ \A other \in Uris \ {uri} : /\ Entry(With(table, uri, doc), other) = Entry(table, other)
                                        /\ Entry(Without(table, uri), other) = Entry(table, other)
<1>1. /\ DOMAIN With(table, uri, doc) = DOMAIN table \cup {uri}
      /\ With(table, uri, doc)[uri] = doc
      /\ \A other \in DOMAIN table \ {uri} : With(table, uri, doc)[other] = table[other]
  BY DEF With
<1>2. /\ DOMAIN Without(table, uri) = DOMAIN table \ {uri}
      /\ \A other \in DOMAIN table \ {uri} : Without(table, uri)[other] = table[other]
  BY DEF Without
<1>. QED
  BY <1>1, <1>2 DEF Entry

\* What handling a message does to the documents and to what is written.
Stops      == mode' # "running" /\ docs' = docs /\ outbox' = outbox
Quiet(m)   == docs' = docs /\ outbox' = outbox /\ \A uri : ~Changes(m, uri)
Informs(m) == /\ m.id # None /\ docs' = docs
              /\ \E r \in Int, d \in Seq(Doc) :
                   /\ outbox' = Append(outbox, Answer(m.id[1], r, d))
                   /\ m.method \in OnDocument /\ r = 0 => m.lacks # "textDocument" /\ d = Entry(docs, m.uri[1])
Stores(m)  == \E uri \in Uris :
                /\ Changes(m, uri) /\ ChangesTo(m) \in Seq(Doc)
                /\ Entry(docs', uri) = ChangesTo(m)
                /\ \A other \in Uris \ {uri} : Entry(docs', other) = Entry(docs, other)
                /\ \/ outbox' = Append(outbox, Diagnostics(uri, ChangesTo(m)))
                   \/ outbox' = outbox /\ Unshown(ChangesTo(m))

LEMMA AnsweredFacts ==
  ASSUME NEW m \in Messages, m.id # None, NEW r \in Int, NEW d \in Seq(Doc), Reply(m, r, d),
         m.method \in OnDocument /\ r = 0 => m.lacks # "textDocument" /\ d = Entry(docs, m.uri[1])
  PROVE  Informs(m)
BY DEF Reply, Write, Informs, server

LEMMA HandledMeans ==
  ASSUME TypeInv, NEW m \in Messages, m.frame = "good", Invalid(m) \/ Notification(m) \/ Request(m)
  PROVE  Stops \/ Quiet(m) \/ Informs(m) \/ Stores(m)
<1>0. None \in Seq(Doc) /\ {InvalidRequest, MethodNotFound, InternalError, 0} \subseteq Int
      /\ InternalError # 0 /\ InvalidRequest # 0 /\ MethodNotFound # 0
  BY DEF None, InvalidRequest, MethodNotFound, InternalError
<1>1. CASE Invalid(m)
  <2>1. "" \notin OfDocuments /\ "" \notin OnDocument
    BY DEF OfDocuments, OnDocument, Positioned
  <2>2. CASE m.id = None
    BY <1>1, <2>1, <2>2 DEF Invalid, server, Quiet, Changes
  <2>3. CASE m.id # None
    BY <1>0, <1>1, <2>1, <2>3, AnsweredFacts DEF Invalid
  <2>. QED
    BY <2>2, <2>3
<1>2. CASE Notification(m)
  <2>0. m.id = None
    BY <1>2 DEF Notification
  <2>1. ASSUME m.lacks = "nothing", m.method \in {"didOpen", "didChange"}, Analysed(m)
        PROVE  Stops \/ Quiet(m) \/ Stores(m)
    <3>1. /\ m.uri[1] \in Uris /\ m.uri = Some(m.uri[1])
          /\ m.doc[1] \in Doc /\ m.doc = Some(m.doc[1]) /\ m.doc \in Seq(Doc)
      BY <2>1, MessageFacts, OneFacts
    <3>2. m.doc[1].text \in Texts
      BY <3>1 DEF Doc
    <3>3. ChangesTo(m) = m.doc /\ m.doc # None /\ m.method \in OfDocuments
      BY <2>1, <3>1 DEF ChangesTo, None, Some, OfDocuments
    <3>4. CASE Fate(m.doc[1].text) \in {"done", "unshown"}
      <4>1. /\ docs' = With(docs, m.uri[1], m.doc[1])
            /\ \/ outbox' = Append(outbox, Diagnostics(m.uri[1], m.doc))
               \/ outbox' = outbox /\ Unshown(m.doc)
        BY <2>1, <3>3, <3>4 DEF Analysed, Write, Unshown
      <4>2. Changes(m, m.uri[1])
        BY <2>0, <2>1, <3>1, <3>3, <3>4 DEF Changes, Undone
      <4>3. Entry(docs', m.uri[1]) = m.doc /\ \A other \in Uris \ {m.uri[1]} : Entry(docs', other) = Entry(docs, other)
        BY <3>1, <4>1, EntryFacts DEF TypeInv
      <4>. QED
        BY <3>1, <3>3, <4>1, <4>2, <4>3 DEF Stores
    <3>5. CASE Fate(m.doc[1].text) \in {"crash", "endless"}
      BY <2>1, <3>5 DEF Analysed, Stops
    <3>6. CASE Fate(m.doc[1].text) = "undone"
      BY <2>1, <3>3, <3>6 DEF Analysed, Quiet, Changes, Undone
    <3>. QED
      BY <3>2, <3>4, <3>5, <3>6, ServerAssumption
  <2>2. ASSUME m.lacks = "nothing", m.method = "didClose", onDidClose(m)
        PROVE  Stores(m)
    <3>1. m.uri[1] \in Uris /\ m.uri = Some(m.uri[1])
      BY <2>2, MessageFacts, OneFacts
    <3>2. docs' = Without(docs, m.uri[1]) /\ outbox' = Append(outbox, Diagnostics(m.uri[1], None))
      BY <2>2 DEF onDidClose, Write
    <3>3. Changes(m, m.uri[1]) /\ ChangesTo(m) = None
      BY <2>0, <2>2, <3>1 DEF Changes, ChangesTo, OfDocuments, Undone
    <3>4. Entry(docs', m.uri[1]) = None /\ \A other \in Uris \ {m.uri[1]} : Entry(docs', other) = Entry(docs, other)
      BY <3>1, <3>2, EntryFacts DEF TypeInv
    <3>. QED
      BY <1>0, <3>1, <3>2, <3>3, <3>4 DEF Stores
  <2>3. CASE UNCHANGED server /\ (m.method \in OfDocuments => m.lacks # "nothing")
    BY <2>3 DEF server, Quiet, Changes
  <2>4. CASE m.method = "exit"
    BY <1>2, <2>4 DEF Notification, Stops
  <2>. QED
    BY <1>2, <2>1, <2>2, <2>3, <2>4 DEF Notification, onDidOpen, onDidChange, onDidClose, OfDocuments
<1>3. CASE Request(m)
  <2>0. m.id # None
    BY <1>3 DEF Request
  <2>1. CASE m.method \in OnDocument
    <3>1. onDocument(m)
      BY <1>3, <2>1 DEF Request
    <3>2. Entry(docs, m.uri[1]) \in Seq(Doc)
      <4>1. Entry(docs, m.uri[1]) = None \/ m.uri[1] \in DOMAIN docs
        BY DEF Entry
      <4>2. DOMAIN docs \subseteq Uris
        BY DEF TypeInv, TypeOK
      <4>. QED
        BY <1>0, <4>1, <4>2, TableFacts DEF TypeInv
    <3>3. \/ Reply(m, InternalError, None)
          \/ m.lacks # "textDocument" /\ Reply(m, 0, Entry(docs, m.uri[1]))
      BY <3>1 DEF onDocument
    <3>. QED
      BY <1>0, <2>0, <3>2, <3>3, AnsweredFacts
  <2>2. CASE m.method \notin OnDocument
    BY <1>0, <1>3, <2>0, <2>2, AnsweredFacts DEF Request
  <2>. QED
    BY <2>1, <2>2
<1>. QED
  BY <1>1, <1>2, <1>3

-----------------------------------------------------------------------------
(* What the messages on their way leave.                                   *)

\* A message that is taken has done what it does.
LEMMA TakingLeaves ==
  ASSUME inbox \in Seq(Messages), inbox # << >>, Taken, NEW uri, NEW doc, NEW n \in 1..Len(inbox),
         Leaves(uri, n, doc),
         Entry(docs', uri) = IF Changes(inbox[1], uri) THEN ChangesTo(inbox[1]) ELSE Entry(docs, uri)
  PROVE  Leaves(uri, n - 1, doc)'
<1>1. /\ n \in Nat /\ n >= 1
      /\ \A j \in 1..n - 1 : j + 1 \in 2..n /\ inbox'[j] = inbox[j + 1]
  <2>1. DOMAIN inbox' = 1..Len(inbox) - 1 /\ Len(inbox) \in Nat
    BY DEF Taken
  <2>. QED
    BY <2>1 DEF Taken
<1>2. CASE \E i \in 1..n : /\ Changes(inbox[i], uri) /\ ChangesTo(inbox[i]) = doc
                           /\ \A j \in i + 1..n : ~Changes(inbox[j], uri)
  <2>1. PICK i \in 1..n : /\ Changes(inbox[i], uri) /\ ChangesTo(inbox[i]) = doc
                          /\ \A j \in i + 1..n : ~Changes(inbox[j], uri)
    BY <1>2
  <2>2. CASE i = 1
    <3>1. \A j \in 1..n - 1 : ~Changes(inbox'[j], uri)
      BY <1>1, <2>1, <2>2
    <3>. QED
      BY <2>1, <2>2, <3>1 DEF Leaves, Changes, ChangesTo, Entry
  <2>3. CASE i # 1
    <3>1. i - 1 \in 1..n - 1 /\ inbox'[i - 1] = inbox[i]
      BY <1>1, <2>3
    <3>2. \A j \in (i - 1) + 1..n - 1 : ~Changes(inbox'[j], uri)
      BY <1>1, <2>1
    <3>. QED
      BY <2>1, <3>1, <3>2 DEF Leaves, Changes, ChangesTo
  <2>. QED
    BY <2>2, <2>3
<1>3. CASE Entry(docs, uri) = doc /\ \A j \in 1..n : ~Changes(inbox[j], uri)
  <2>1. \A j \in 1..n - 1 : ~Changes(inbox'[j], uri)
    BY <1>1, <1>3
  <2>2. ~Changes(inbox[1], uri)
    BY <1>1, <1>3
  <2>. QED
    BY <1>3, <2>1, <2>2 DEF Leaves, Changes, Entry
<1>. QED
  BY <1>2, <1>3 DEF Leaves

\* One more message does nothing before its turn, and what it does then.
LEMMA DeliveringLeaves ==
  ASSUME TypeInv, NEW m \in Messages, NEW frame \in {"good"} \cup Faults, Deliver(m, frame), NEW uri,
         NEW last, last = Len(inbox) + 1
  PROVE  /\ \A doc : \A n \in 0..Len(inbox) : Leaves(uri, n, doc) => Leaves(uri, n, doc)'
         /\ \A doc : Changes(inbox'[last], uri) /\ doc = ChangesTo(inbox'[last]) => Leaves(uri, last, doc)'
         /\ \A doc : ~Changes(inbox'[last], uri) /\ Leaves(uri, Len(inbox), doc) => Leaves(uri, last, doc)'
<1>0. inbox \in Seq(Messages) /\ DOMAIN inbox = 1..Len(inbox) /\ Len(inbox) \in Nat
  BY DEF TypeInv, TypeOK
<1>1. \A i \in 1..Len(inbox) : inbox'[i] = inbox[i]
  BY <1>0, DeliveredFacts
<1>2. docs' = docs
  BY DEF Deliver, server
<1>3. ASSUME NEW n \in 0..Len(inbox), NEW doc, Leaves(uri, n, doc) PROVE Leaves(uri, n, doc)'
  <2>1. \A i \in 1..n : inbox'[i] = inbox[i]
    BY <1>0, <1>1, <1>3
  <2>2. \A i \in 1..n : \A j \in i + 1..n : j \in 1..n
    BY <1>0, <1>3
  <2>. QED
    BY <1>2, <1>3, <2>1, <2>2 DEF Leaves, Changes, ChangesTo, Entry
<1>4. ASSUME NEW doc, Changes(inbox'[last], uri), doc = ChangesTo(inbox'[last])
      PROVE  Leaves(uri, last, doc)'
  <2>1. last \in 1..last /\ last + 1..last = {}
    BY <1>0
  <2>. QED
    BY <1>4, <2>1 DEF Leaves, Changes, ChangesTo
<1>5. ASSUME NEW doc, ~Changes(inbox'[last], uri), Leaves(uri, Len(inbox), doc)
      PROVE  Leaves(uri, last, doc)'
  <2>1. \A j \in 1..last : j \in 1..Len(inbox) \/ j = last
    BY <1>0
  <2>2. \A i \in 1..Len(inbox) : i \in 1..last
    BY <1>0
  <2>3. \A i \in 1..Len(inbox) : \A j \in i + 1..last : j \in i + 1..Len(inbox) \/ j = last
    BY <1>0
  <2>4. \A i \in 1..Len(inbox) : \A j \in i + 1..Len(inbox) : j \in 1..Len(inbox)
    BY <1>0
  <2>. QED
    BY <1>1, <1>2, <1>5, <2>1, <2>2, <2>3, <2>4 DEF Leaves, Changes, ChangesTo, Entry
<1>. QED
  BY <1>3, <1>4, <1>5

-----------------------------------------------------------------------------
(* The server takes a message.                                             *)

\* What the server knows of the documents after it took a message.
Knows == \A uri \in Uris : Entry(docs', uri) = IF Changes(inbox[1], uri) THEN ChangesTo(inbox[1]) ELSE Entry(docs, uri)

LEMMA TakingKeepsStep ==
  ASSUME TypeInv, InStep, RequestsKnown, mode = "running", inbox # << >>, Taken, Knows,
         editor' = editor, lost' = lost, asked' = asked
  PROVE  InStep' /\ RequestsKnown'
<1>0. /\ inbox \in Seq(Messages) /\ Len(inbox) \in Nat /\ Len(inbox) >= 1 /\ DOMAIN inbox = 1..Len(inbox)
      /\ Len(inbox') = Len(inbox) - 1
  BY DEF TypeInv, TypeOK, Taken
<1>1. ASSUME NEW uri \in Uris, NEW doc, NEW n \in 1..Len(inbox), Leaves(uri, n, doc)
      PROVE  Leaves(uri, n - 1, doc)'
  BY <1>0, <1>1, TakingLeaves DEF Knows
<1>2. ASSUME NEW uri \in Uris \ lost', NEW doc, doc = Entry(editor', uri), NEW n, n = Len(inbox')
      PROVE  Leaves(uri, n, doc)'
  <2>1. doc = Entry(editor, uri) /\ uri \in Uris \ lost
    BY <1>2
  <2>2. Leaves(uri, Len(inbox), doc)
    BY <2>1 DEF InStep
  <2>3. Len(inbox) \in 1..Len(inbox) /\ n = Len(inbox) - 1
    BY <1>0, <1>2
  <2>4. PICK k : k = Len(inbox)
    OBVIOUS
  <2>. QED
    BY <1>1, <2>1, <2>2, <2>3, <2>4
<1>3. InStep'
  BY <1>2 DEF InStep
<1>4. ASSUME NEW r \in asked, NEW i \in Waiting', r.sure, inbox'[i].id = Some(r.id)
      PROVE  /\ inbox'[i].method \in OnDocument
             /\ \A uri : inbox'[i].lacks # "textDocument" /\ uri = inbox'[i].uri[1] => Leaves(uri, i, r.doc)'
  <2>1. i \in Nat /\ i + 1 \in DOMAIN inbox /\ inbox'[i] = inbox[i + 1] /\ i + 1 \in Waiting /\ i >= 1
    BY <1>0, TakenFacts DEF Waiting
  <2>2. PICK k : k = i + 1
    OBVIOUS
  <2>3. /\ inbox[k].method \in OnDocument
        /\ inbox[k].lacks # "textDocument" => Leaves(inbox[k].uri[1], k, r.doc)
    BY <1>4, <2>1, <2>2 DEF RequestsKnown
  <2>4. inbox[k].lacks # "textDocument" => inbox[k].uri[1] \in Uris
    <3>1. inbox[k] \in Messages
      BY <1>0, <2>1, <2>2
    <3>. QED
      BY <2>3, <3>1, MessageFacts, FirstOf
  <2>5. k \in 1..Len(inbox) /\ k - 1 = i
    BY <1>0, <2>1, <2>2
  <2>. QED
    BY <1>1, <2>1, <2>2, <2>3, <2>4, <2>5
<1>5. RequestsKnown'
  BY <1>4 DEF RequestsKnown
<1>. QED
  BY <1>3, <1>5

\* Nothing written, an answer, and what is shown of a document.
LEMMA SilentKeepsView ==
  ASSUME InView, outbox' = outbox, docs' = docs
  PROVE  InView'
BY DEF InView, Shown, Entry

LEMMA AnswerKeepsView ==
  ASSUME TypeInv, InView, NEW message \in Output, message.to = "request",
         outbox' = Append(outbox, message), docs' = docs
  PROVE  InView'
<1>1. \A uri : Shown(uri)' = Shown(uri) /\ \A i \in Shown(uri) : outbox'[i] = outbox[i]
  BY WrittenFacts DEF Shown, TypeInv
<1>. QED
  BY <1>1 DEF InView, Entry

\* A document whose diagnostics are not written is stored as the others are.
LEMMA UnshownKeepsView ==
  ASSUME InView, NEW uri \in Uris, outbox' = outbox, Unshown(Entry(docs', uri)),
         \A other \in Uris \ {uri} : Entry(docs', other) = Entry(docs, other)
  PROVE  InView'
<1>1. \A other : Shown(other)' = Shown(other)
  BY DEF Shown
<1>. QED
  BY <1>1 DEF InView

LEMMA StoringKeepsView ==
  ASSUME TypeInv, InView, NEW uri \in Uris, NEW d \in Seq(Doc),
         outbox' = Append(outbox, Diagnostics(uri, d)),
         Entry(docs', uri) = d, \A other \in Uris \ {uri} : Entry(docs', other) = Entry(docs, other)
  PROVE  InView'
<1> DEFINE message == Diagnostics(uri, d)
           last    == Len(outbox) + 1
<1>1. message \in Output /\ message.to = "editor" /\ message.uri = uri /\ message.about = d
  BY DEF Output, Diagnostics
<1>. HIDE DEF message
<1>2. /\ last \in DOMAIN outbox' /\ last \in Nat /\ outbox'[last] = message
      /\ DOMAIN outbox' = DOMAIN outbox \cup {last}
      /\ \A i \in DOMAIN outbox : outbox'[i] = outbox[i] /\ i \in Nat /\ i < last
  BY <1>1, WrittenFacts DEF TypeInv, message
<1>. HIDE DEF last
<1>3. Shown(uri)' = Shown(uri) \cup {last} /\ \A i \in Shown(uri)' : i <= last
  BY <1>1, <1>2 DEF Shown
<1>4. \A other \in Uris \ {uri} : Shown(other)' = Shown(other) /\ \A i \in Shown(other) : outbox'[i] = outbox[i]
  BY <1>1, <1>2 DEF Shown
<1>5. ASSUME NEW other \in Uris \ {uri}
      PROVE  \/ Unshown(Entry(docs', other))
             \/ Shown(other)' = {} /\ Entry(docs', other) = None
             \/ \E i \in Shown(other)' : (\A j \in Shown(other)' : j <= i) /\ outbox'[i].about = Entry(docs', other)
  BY <1>4, <1>5 DEF InView
<1>6. last \in Shown(uri)' /\ (\A j \in Shown(uri)' : j <= last) /\ outbox'[last].about = Entry(docs', uri)
  BY <1>1, <1>2, <1>3
<1>. QED
  BY <1>5, <1>6 DEF InView

\* The answers stay about what was asked when nothing is answered.
LEMMA NoAnswerKeepsCurrent ==
  ASSUME TypeInv, AnswersAreCurrent, asked' = asked,
         outbox' = outbox \/ \E message \in Output : message.to = "editor" /\ outbox' = Append(outbox, message)
  PROVE  AnswersAreCurrent'
<1>1. Answers' = Answers /\ \A i \in Answers : outbox'[i] = outbox[i]
  <2>1. CASE outbox' = outbox
    BY <2>1 DEF Answers
  <2>2. ASSUME NEW message \in Output, message.to = "editor", outbox' = Append(outbox, message)
        PROVE  Answers' = Answers /\ \A i \in Answers : outbox'[i] = outbox[i]
    BY <2>2, WrittenFacts DEF Answers, TypeInv
  <2>. QED
    BY <2>1, <2>2
<1>. QED
  BY <1>1 DEF AnswersAreCurrent

\* The answer to a request whose turn has come is about what the server knows
\* then, which is what the editor knew when it asked.
LEMMA AnswerKeepsCurrent ==
  ASSUME TypeInv, RequestsKnown, AnswersAreCurrent, mode = "running", asked' = asked,
         inbox # << >>, Head1 \in Messages, Head1 = inbox[1], Head1.frame = "good", Informs(Head1)
  PROVE  AnswersAreCurrent' /\ \E message \in Output : message.to = "request" /\ outbox' = Append(outbox, message)
<1>1. PICK x \in Int, d \in Seq(Doc) :
        /\ outbox' = Append(outbox, Answer(Head1.id[1], x, d))
        /\ Head1.method \in OnDocument /\ x = 0 => Head1.lacks # "textDocument" /\ d = Entry(docs, Head1.uri[1])
  BY DEF Informs
<1>2. Head1.id # None /\ Head1.id[1] \in Nat /\ Head1.id = Some(Head1.id[1])
  BY MessageFacts, OneFacts DEF Informs
<1> DEFINE message == Answer(Head1.id[1], x, d)
           last    == Len(outbox) + 1
<1>3. /\ message \in Output /\ message.to = "request" /\ message.id = Head1.id[1]
      /\ message.result = x /\ message.about = d
  BY <1>2 DEF Output, Answer
<1>. HIDE DEF message
<1>4. /\ Answers' = Answers \cup {last} /\ outbox'[last] = message
      /\ \A i \in Answers : outbox'[i] = outbox[i]
  BY <1>1, <1>3, WrittenFacts DEF Answers, TypeInv, message
<1>. HIDE DEF last
<1>5. ASSUME NEW r \in asked, r.id = Head1.id[1], r.sure, x = 0
      PROVE  d = r.doc
  <2>1. 1 \in Waiting /\ inbox[1].id = Some(r.id)
    BY <1>2, <1>5 DEF Waiting, TypeInv, TypeOK
  <2>2. /\ Head1.method \in OnDocument
        /\ Head1.lacks # "textDocument" => Leaves(Head1.uri[1], 1, r.doc)
    BY <1>5, <2>1 DEF RequestsKnown
  <2>3. d = Entry(docs, Head1.uri[1]) /\ Leaves(Head1.uri[1], 1, r.doc)
    BY <1>1, <1>5, <2>2
  <2>4. ~Changes(inbox[1], Head1.uri[1]) /\ \A i \in 1..1 : i = 1
    BY <1>2 DEF Changes, Informs
  <2>. QED
    BY <2>3, <2>4 DEF Leaves
<1>6. AnswersAreCurrent'
  BY <1>3, <1>4, <1>5 DEF AnswersAreCurrent
<1>. QED
  BY <1>1, <1>3, <1>6 DEF message

LEMMA HandleKeepsDocs ==
  ASSUME IInv, DocInv, Handle
  PROVE  DocInv'
<1>1. /\ inbox # << >> /\ Taken /\ Head1.frame = "good" /\ mode = "running"
      /\ Invalid(Head1) \/ Notification(Head1) \/ Request(Head1)
      /\ editor' = editor /\ lost' = lost /\ sent' = sent /\ asked' = asked
  BY DEF Handle, client
<1>2. Head1 \in Messages /\ Head1 = inbox[1] /\ TypeInv
  BY <1>1, TakenFacts DEF IInv, TypeInv, TypeOK
<1>3. AskedRecent'
  BY <1>1 DEF DocInv, AskedRecent
<1>4. CASE Stops
  <2>1. AnswersAreCurrent' /\ InView'
    BY <1>1, <1>2, <1>4, NoAnswerKeepsCurrent, SilentKeepsView DEF Stops, DocInv
  <2>. QED
    BY <1>3, <1>4, <2>1 DEF Stops, DocInv, InStep, RequestsKnown
<1>5. CASE Quiet(Head1)
  <2>1. AnswersAreCurrent' /\ InView'
    BY <1>1, <1>2, <1>5, NoAnswerKeepsCurrent, SilentKeepsView DEF Quiet, DocInv
  <2>2. Knows
    BY <1>2, <1>5 DEF Knows, Quiet, Entry
  <2>. QED
    BY <1>1, <1>2, <1>3, <2>1, <2>2, TakingKeepsStep DEF DocInv
<1>6. CASE Informs(Head1)
  <2>1. AnswersAreCurrent' /\ InView'
    BY <1>1, <1>2, <1>6, AnswerKeepsCurrent, AnswerKeepsView DEF DocInv, Informs
  <2>2. Knows
    BY <1>2, <1>6 DEF Knows, Informs, Entry, Changes
  <2>. QED
    BY <1>1, <1>2, <1>3, <2>1, <2>2, TakingKeepsStep DEF DocInv
<1>7. CASE Stores(Head1)
  <2>1. PICK uri \in Uris :
          /\ Changes(Head1, uri) /\ ChangesTo(Head1) \in Seq(Doc)
          /\ Entry(docs', uri) = ChangesTo(Head1)
          /\ \A other \in Uris \ {uri} : Entry(docs', other) = Entry(docs, other)
          /\ \/ outbox' = Append(outbox, Diagnostics(uri, ChangesTo(Head1)))
             \/ outbox' = outbox /\ Unshown(ChangesTo(Head1))
    BY <1>7 DEF Stores
  <2>2. Knows
    <3>1. \A other \in Uris : Changes(Head1, other) => other = uri
      BY <2>1 DEF Changes, Some
    <3>. QED
      BY <1>2, <2>1, <3>1 DEF Knows
  <2>3. InView'
    BY <1>2, <2>1, StoringKeepsView, UnshownKeepsView DEF DocInv
  <2>4. Diagnostics(uri, ChangesTo(Head1)) \in Output /\ Diagnostics(uri, ChangesTo(Head1)).to = "editor"
    BY <2>1 DEF Output, Diagnostics
  <2>5. AnswersAreCurrent'
    BY <1>1, <1>2, <2>1, <2>4, NoAnswerKeepsCurrent DEF DocInv
  <2>. QED
    BY <1>1, <1>2, <1>3, <2>2, <2>3, <2>5, TakingKeepsStep DEF DocInv
<1>. QED
  BY <1>1, <1>2, <1>4, <1>5, <1>6, <1>7, HandledMeans

LEMMA DamagedKeepsDocs ==
  ASSUME IInv, DocInv, Damaged
  PROVE  DocInv'
<1>1. /\ inbox # << >> /\ Taken /\ Head1.frame = "damaged" /\ mode = "running"
      /\ docs' = docs /\ mode' = mode /\ outbox' = outbox
      /\ editor' = editor /\ lost' = lost /\ sent' = sent /\ asked' = asked
  BY DEF Damaged, client, server
<1>2. Head1 = inbox[1] /\ TypeInv
  BY <1>1, TakenFacts DEF IInv, TypeInv, TypeOK
<1>3. Knows
  BY <1>1, <1>2 DEF Knows, Changes, Entry
<1>4. AnswersAreCurrent' /\ InView'
  BY <1>1, <1>2, NoAnswerKeepsCurrent, SilentKeepsView DEF DocInv
<1>5. AskedRecent'
  BY <1>1 DEF DocInv, AskedRecent
<1>. QED
  BY <1>1, <1>2, <1>3, <1>4, <1>5, TakingKeepsStep DEF DocInv

-----------------------------------------------------------------------------
(* The editor sends a message.                                             *)

\* A document that is not lost afterwards is as the message says, or as it was.
Told(m) ==
  \A uri \in Uris \ lost' :
    IF Changes(m, uri) THEN Entry(editor', uri) = ChangesTo(m)
                       ELSE uri \notin lost /\ Entry(editor', uri) = Entry(editor, uri)

\* A new request is the message, and what the editor knows when it asks.
Asked(m) ==
  \A r \in asked' \ asked :
    /\ r.id = sent
    /\ r.sure => /\ m.method \in OnDocument
                 /\ m.lacks # "textDocument" => m.uri[1] \notin lost /\ r.doc = Entry(editor, m.uri[1])

LEMMA TellingKeepsStep ==
  ASSUME TypeInv, InStep, NEW m \in Messages, NEW frame \in {"good"} \cup Faults, Deliver(m, frame),
         Told(inbox'[Len(inbox) + 1])
  PROVE  InStep'
<1>1. PICK last : last = Len(inbox) + 1
  OBVIOUS
<1>2. Len(inbox') = last /\ mode' = mode
  BY <1>1 DEF Deliver, server, TypeInv, TypeOK
<1>3. ASSUME mode' = "running", NEW uri \in Uris \ lost', NEW doc, doc = Entry(editor', uri)
      PROVE  Leaves(uri, last, doc)'
  <2>1. /\ \A d : Changes(inbox'[last], uri) /\ d = ChangesTo(inbox'[last]) => Leaves(uri, last, d)'
        /\ \A d : ~Changes(inbox'[last], uri) /\ Leaves(uri, Len(inbox), d) => Leaves(uri, last, d)'
    BY <1>1, DeliveringLeaves
  <2>2. CASE Changes(inbox'[last], uri)
    BY <1>1, <1>3, <2>1, <2>2 DEF Told
  <2>3. CASE ~Changes(inbox'[last], uri)
    <3>1. uri \in Uris \ lost /\ doc = Entry(editor, uri)
      BY <1>1, <1>3, <2>3 DEF Told
    <3>2. Leaves(uri, Len(inbox), doc)
      BY <1>2, <1>3, <3>1 DEF InStep
    <3>. QED
      BY <2>1, <2>3, <3>2
  <2>. QED
    BY <2>2, <2>3
<1>. QED
  BY <1>2, <1>3 DEF InStep

LEMMA AskingKeepsKnown ==
  ASSUME TypeInv, WaitingRecent, AskedRecent, InStep, RequestsKnown,
         NEW m \in Messages, NEW frame \in {"good"} \cup Faults, Deliver(m, frame),
         m.id \in {None, Some(sent)}, Asked(m)
  PROVE  RequestsKnown'
<1>1. PICK last : last = Len(inbox) + 1
  OBVIOUS
<1>2. mode' = mode /\ Len(inbox) \in Nat /\ DOMAIN inbox = 1..Len(inbox) /\ sent \in Nat
  BY DEF Deliver, server, TypeInv, TypeOK
<1>3. /\ \A i \in Waiting' : (i \in Waiting /\ inbox'[i] = inbox[i] /\ i \in 0..Len(inbox)) \/ i = last
      /\ inbox'[last].id = m.id /\ inbox'[last].method = m.method
      /\ inbox'[last].lacks = m.lacks /\ inbox'[last].uri = m.uri
  <2>1. DOMAIN inbox' = DOMAIN inbox \cup {last}
    BY <1>1, DeliveredFacts
  <2>2. \A i \in DOMAIN inbox : inbox'[i] = inbox[i] /\ i \in 0..Len(inbox)
    BY <1>2, DeliveredFacts
  <2>. QED
    BY <1>1, <2>1, <2>2, DeliveredFacts DEF Waiting
<1>4. ASSUME mode' = "running", NEW r \in asked', NEW i \in Waiting', r.sure, inbox'[i].id = Some(r.id)
      PROVE  /\ inbox'[i].method \in OnDocument
             /\ \A uri : inbox'[i].lacks # "textDocument" /\ uri = inbox'[i].uri[1] => Leaves(uri, i, r.doc)'
  <2>1. CASE r \in asked /\ i \in Waiting /\ inbox'[i] = inbox[i] /\ i \in 0..Len(inbox)
    <3>1. /\ inbox[i].method \in OnDocument
          /\ inbox[i].lacks # "textDocument" => Leaves(inbox[i].uri[1], i, r.doc)
      BY <1>2, <1>4, <2>1 DEF RequestsKnown
    <3>2. \A uri, doc : Leaves(uri, i, doc) => Leaves(uri, i, doc)'
      BY <1>1, <2>1, DeliveringLeaves
    <3>. QED
      BY <2>1, <3>1, <3>2
  <2>2. CASE r \notin asked /\ i \in Waiting /\ inbox'[i] = inbox[i]
    <3>1. r.id = sent
      BY <2>2 DEF Asked
    <3>2. i \in Numbered /\ inbox[i].id[1] < sent
      BY <2>2 DEF WaitingRecent, Waiting, Numbered
    <3>3. inbox[i].id[1] = r.id
      BY <1>4, <2>2 DEF Some
    <3>. QED
      BY <1>2, <3>1, <3>2, <3>3
  <2>3. CASE r \in asked /\ i = last
    <3>1. m.id = Some(r.id)
      BY <1>3, <1>4, <2>3
    <3>2. r.id = sent
      BY <3>1 DEF Some, None
    <3>. QED
      BY <1>2, <2>3, <3>2 DEF AskedRecent
  <2>4. CASE r \notin asked /\ i = last
    <3>1. /\ m.method \in OnDocument
          /\ m.lacks # "textDocument" => m.uri[1] \notin lost /\ r.doc = Entry(editor, m.uri[1])
      BY <1>4, <2>4 DEF Asked
    <3>2. ASSUME m.lacks # "textDocument", NEW uri, uri = m.uri[1] PROVE Leaves(uri, i, r.doc)'
      <4>1. uri \in Uris \ lost
        BY <3>1, <3>2, MessageFacts, FirstOf
      <4>2. Leaves(uri, Len(inbox), r.doc)
        BY <1>2, <1>4, <3>1, <3>2, <4>1 DEF InStep
      <4>3. ~Changes(inbox'[last], uri)
        <5>1. inbox'[last].id = <<r.id>> /\ <<r.id>> # << >>
          BY <1>4, <2>4 DEF Some
        <5>. QED
          BY <5>1 DEF Changes, None
      <4>. QED
        BY <1>1, <2>4, <4>2, <4>3, DeliveringLeaves
    <3>. QED
      BY <1>3, <2>4, <3>1, <3>2
  <2>. QED
    BY <1>3, <2>1, <2>2, <2>3, <2>4
<1>. QED
  BY <1>4 DEF RequestsKnown

\* What the editor sends keeps the invariant, by what it changes and asks.
LEMMA SendingKeepsDocs ==
  ASSUME IInv, DocInv, NEW m \in Messages, NEW frame \in {"good"} \cup Faults, Deliver(m, frame),
         m.id \in {None, Some(sent)}, Told(inbox'[Len(inbox) + 1]), Asked(m)
  PROVE  DocInv'
<1>1. InStep' /\ RequestsKnown'
  BY TellingKeepsStep, AskingKeepsKnown DEF IInv, DocInv
<1>2. docs' = docs /\ outbox' = outbox /\ sent' = sent + 1 /\ sent \in Nat
  BY DEF Deliver, server, IInv, TypeInv, TypeOK
<1>3. InView'
  BY <1>2, SilentKeepsView DEF DocInv
<1>4. AskedRecent'
  BY <1>2 DEF DocInv, AskedRecent, Asked
<1>5. AnswersAreCurrent'
  <2>1. Answers' = Answers
    BY <1>2 DEF Answers
  <2>2. \A i \in Answers : outbox[i].id < sent /\ outbox[i].id \in Nat
    BY OutputFacts DEF IInv, AnsweredRecent, Answers, TypeInv
  <2>3. \A i \in Answers, r \in asked' : r.id = outbox[i].id => r \in asked
    BY <1>2, <2>2 DEF Asked
  <2>. QED
    BY <1>2, <2>1, <2>3 DEF DocInv, AnswersAreCurrent
<1>. QED
  BY <1>1, <1>3, <1>4, <1>5 DEF DocInv

LEMMA EditKeepsDocs ==
  ASSUME IInv, DocInv, NEW uri \in Uris, NEW text \in Texts, NEW frame \in {"good"} \cup Faults,
         Edit(uri, text, frame)
  PROVE  DocInv'
<1>. DEFINE known  == Entry(editor, uri)
            doc    == Document(text, IF known = None THEN 1 ELSE known[1].version + 1)
            method == IF known = None THEN "didOpen" ELSE "didChange"
            m      == Message(method, Some(uri), Some(doc))
<1>1. doc \in Doc
  <2>1. known = None \/ known[1] \in Doc
    BY TableFacts, FirstOf DEF IInv, TypeInv
  <2>. QED
    BY <2>1 DEF Doc, Document
<1>2. /\ m \in Messages /\ m.id = None /\ m.uri = Some(uri) /\ m.uri[1] = uri /\ m.doc = Some(doc)
      /\ m.method = method /\ m.lacks = "nothing"
  <2>1. Some(doc) \in Seq(Doc) /\ Some(doc) # None /\ Len(Some(doc)) <= 1
    BY <1>1, OptionFacts
  <2>2. method \in OfDocuments \cup OnDocument
    BY DEF OfDocuments
  <2>. HIDE DEF known, doc, method
  <2>. QED
    BY <2>1, <2>2, MessageIs
<1>3. /\ Deliver(m, frame) /\ editor' = With(editor, uri, doc) /\ asked' = asked
      /\ lost' = IF frame = "good" /\ ~Undone(Some(doc)) THEN lost \ {uri} ELSE lost \cup {uri}
  BY <1>2 DEF Edit, Tell
<1>4. method \in {"didOpen", "didChange"}
  OBVIOUS
<1>. HIDE DEF known, doc, method, m
<1>5. Told(inbox'[Len(inbox) + 1])
  <2>1. PICK n : n = inbox'[Len(inbox) + 1]
    OBVIOUS
  <2>2. n.frame = frame /\ n.id = None /\ n.lacks = "nothing" /\ n.method = method /\ n.uri = Some(uri) /\ n.doc = Some(doc)
    BY <1>2, <1>3, <2>1, DeliveredFacts DEF IInv
  <2>3. /\ ChangesTo(n) = Some(doc)
        /\ \A other \in Uris : Changes(n, other) <=> frame = "good" /\ ~Undone(Some(doc)) /\ other = uri
    BY <1>4, <2>2 DEF Changes, ChangesTo, OfDocuments, Some
  <2>4. Entry(editor', uri) = Some(doc) /\ \A other \in Uris \ {uri} : Entry(editor', other) = Entry(editor, other)
    BY <1>3, EntryFacts DEF IInv, TypeInv
  <2>5. Told(n)
    BY <1>3, <2>3, <2>4 DEF Told
  <2>. QED
    BY <2>1, <2>5
<1>6. Asked(m)
  BY <1>3 DEF Asked
<1>. QED
  BY <1>2, <1>3, <1>5, <1>6, SendingKeepsDocs

LEMMA CloseKeepsDocs ==
  ASSUME IInv, DocInv, NEW uri \in Uris, NEW frame \in {"good"} \cup Faults, Close(uri, frame)
  PROVE  DocInv'
<1>. DEFINE m == Message("didClose", Some(uri), None)
<1>1. /\ m \in Messages /\ m.id = None /\ m.uri = Some(uri) /\ m.uri[1] = uri /\ m.doc = None
      /\ m.method = "didClose" /\ m.lacks = "nothing"
  <2>1. None \in Seq(Doc) /\ Len(None) <= 1
    BY DEF None
  <2>2. "didClose" \in OfDocuments \cup OnDocument /\ "didClose" \notin {"didOpen", "didChange"}
    BY DEF OfDocuments
  <2>. QED
    BY <2>1, <2>2, MessageIs
<1>2. /\ Deliver(m, frame) /\ editor' = Without(editor, uri) /\ asked' = asked
      /\ lost' = IF frame = "good" THEN lost \ {uri} ELSE lost \cup {uri}
  BY <1>1 DEF Close, Tell, Undone
<1>. HIDE DEF m
<1>3. Told(inbox'[Len(inbox) + 1])
  <2>1. PICK n : n = inbox'[Len(inbox) + 1]
    OBVIOUS
  <2>2. n.frame = frame /\ n.id = None /\ n.lacks = "nothing" /\ n.method = "didClose" /\ n.uri = Some(uri)
    BY <1>1, <1>2, <2>1, DeliveredFacts DEF IInv
  <2>3. /\ ChangesTo(n) = None
        /\ \A other \in Uris : Changes(n, other) <=> frame = "good" /\ other = uri
    BY <2>2 DEF Changes, ChangesTo, OfDocuments, Some, Undone
  <2>4. Entry(editor', uri) = None /\ \A other \in Uris \ {uri} : Entry(editor', other) = Entry(editor, other)
    BY <1>2, EntryFacts DEF IInv, TypeInv
  <2>5. Told(n)
    BY <1>2, <2>3, <2>4 DEF Told
  <2>. QED
    BY <2>1, <2>5
<1>4. Asked(m)
  BY <1>2 DEF Asked
<1>. QED
  BY <1>1, <1>2, <1>3, <1>4, SendingKeepsDocs

LEMMA AskKeepsDocs ==
  ASSUME IInv, DocInv, NEW m \in Messages, NEW frame \in {"good"} \cup Faults, Ask(m, frame)
  PROVE  DocInv'
<1>. DEFINE n == [m EXCEPT !.id = Some(sent)]
<1>1. /\ n \in Messages /\ n.id = Some(sent)
      /\ n.uri = m.uri /\ n.doc = m.doc /\ n.method = m.method /\ n.lacks = m.lacks
  BY NumberedFacts DEF IInv
<1>2. Deliver(n, frame) /\ editor' = editor /\ lost' = lost
  BY DEF Ask
<1>3. Asked(n)
  <2>1. \A r \in asked' \ asked :
          /\ r.id = sent /\ r.sure = (m.method \in OnDocument /\ m.uri[1] \notin lost)
          /\ r.doc = IF m.uri = None THEN None ELSE Entry(editor, m.uri[1])
    BY DEF Ask
  <2>2. m.method \in OnDocument /\ m.lacks # "textDocument" => m.uri # None
    BY MessageFacts
  <2>. HIDE DEF n
  <2>. QED
    BY <1>1, <2>1, <2>2 DEF Asked
<1>. HIDE DEF n
<1>4. Told(inbox'[Len(inbox) + 1])
  <2>1. PICK k : k = inbox'[Len(inbox) + 1]
    OBVIOUS
  <2>2. k.id = <<sent>> /\ <<sent>> # << >>
    BY <1>1, <1>2, <2>1, DeliveredFacts DEF IInv, Some
  <2>3. \A uri : ~Changes(k, uri)
    BY <2>2 DEF Changes, None
  <2>4. Told(k)
    BY <1>2, <2>3 DEF Told, Entry
  <2>. QED
    BY <2>1, <2>4
<1>. QED
  BY <1>1, <1>2, <1>3, <1>4, SendingKeepsDocs

LEMMA NotifyKeepsDocs ==
  ASSUME IInv, DocInv, NEW m \in Odd, Notify(m)
  PROVE  DocInv'
<1>1. m \in Messages /\ m.id = None /\ (m.method \in OfDocuments => m.lacks # "nothing")
  BY ServerAssumption
<1>2. Deliver(m, "good") /\ editor' = editor /\ lost' = lost /\ asked' = asked
  BY DEF Notify
<1>3. Told(inbox'[Len(inbox) + 1])
  <2>1. PICK k : k = inbox'[Len(inbox) + 1]
    OBVIOUS
  <2>2. k.method = m.method /\ k.lacks = m.lacks
    BY <1>1, <1>2, <2>1, DeliveredFacts DEF IInv
  <2>3. \A uri : ~Changes(k, uri)
    BY <1>1, <2>2 DEF Changes
  <2>4. Told(k)
    BY <1>2, <2>3 DEF Told, Entry
  <2>. QED
    BY <2>1, <2>4
<1>4. Asked(m)
  BY <1>2 DEF Asked
<1>. QED
  BY <1>1, <1>2, <1>3, <1>4, SendingKeepsDocs

-----------------------------------------------------------------------------

LEMMA DocInit == ASSUME Init PROVE DocInv
<1>1. Answers = {} /\ asked = {} /\ Waiting = {} /\ inbox = << >> /\ editor = docs /\ docs = << >>
  BY DEF Init, Answers, Waiting
<1>2. \A uri : Entry(docs, uri) = None /\ Shown(uri) = {}
  BY DEF Init, Entry, Shown
<1>3. \A uri : Leaves(uri, Len(inbox), Entry(editor, uri))
  BY <1>1 DEF Leaves
<1>. QED
  BY <1>1, <1>2, <1>3 DEF DocInv, InStep, RequestsKnown, AskedRecent, InView, AnswersAreCurrent

\* A server that has stopped, a pipe that is closed, and a step that changes nothing.
LEMMA IdleKeepsDocs ==
  ASSUME DocInv, mode' = mode \/ mode' = "ended", UNCHANGED <<docs, inbox, outbox, editor, lost, sent, asked>>
  PROVE  DocInv'
<1>1. Answers' = Answers /\ Waiting' = Waiting /\ \A uri : Shown(uri)' = Shown(uri) /\ Entry(docs, uri)' = Entry(docs, uri)
  BY DEF Answers, Waiting, Shown, Entry
<1>2. \A uri, n, doc : Leaves(uri, n, doc) => Leaves(uri, n, doc)'
  BY DEF Leaves, Changes, ChangesTo, Entry
<1>3. InView' /\ AnswersAreCurrent' /\ AskedRecent'
  BY <1>1 DEF DocInv, InView, AnswersAreCurrent, AskedRecent
<1>4. InStep'
  BY <1>2 DEF DocInv, InStep, Entry
<1>5. RequestsKnown'
  BY <1>1, <1>2 DEF DocInv, RequestsKnown
<1>. QED
  BY <1>3, <1>4, <1>5 DEF DocInv

LEMMA DocStep == IInv /\ DocInv /\ [Next]_vars => DocInv'
<1>. SUFFICES ASSUME IInv, DocInv, [Next]_vars PROVE DocInv'
  OBVIOUS
<1>1. CASE EndOfInput \/ BadHeader
  BY <1>1, IdleKeepsDocs DEF EndOfInput, BadHeader, client
<1>2. CASE Damaged
  BY <1>2, DamagedKeepsDocs
<1>3. CASE Handle
  BY <1>3, HandleKeepsDocs
<1>4. CASE Send
  <2>1. ASSUME NEW uri \in Uris, NEW frame \in {"good"} \cup Faults, NEW method \in Queries,
               Ask(Query(method, uri), frame)
        PROVE  DocInv'
    BY <2>1, QueryFacts, AskKeepsDocs
  <2>2. ASSUME NEW m \in Odd, Ask(m, "good") PROVE DocInv'
    BY <2>2, ServerAssumption, AskKeepsDocs
  <2>. QED
    BY <1>4, <2>1, <2>2, EditKeepsDocs, CloseKeepsDocs, NotifyKeepsDocs DEF Send
<1>5. CASE CloseInput
  BY <1>5, IdleKeepsDocs DEF CloseInput, server
<1>6. CASE UNCHANGED vars
  BY <1>6, IdleKeepsDocs DEF vars
<1>. QED
  BY <1>1, <1>2, <1>3, <1>4, <1>5, <1>6 DEF Next, Serve

LEMMA Documents == Spec => [](IInv /\ DocInv)
<1>1. Init => DocInv
  BY DocInit
<1>2. IInv /\ DocInv /\ [Next]_vars => DocInv'
  BY DocStep
<1>. QED
  BY <1>1, <1>2, Invariance, PTL DEF Spec

\* Server::onDocument: an answer is about the document as the editor had it when it
\* asked, however many changes were on their way then and whatever else went lost.
THEOREM AnswersCurrent == Spec => []AnswersAreCurrent
<1>1. IInv /\ DocInv => AnswersAreCurrent
  BY DEF DocInv
<1>. QED
  BY <1>1, Documents, PTL

\* publishDiagnostics: when all is read, the diagnostics last shown for a document
\* are those of its last text and version, or none when it is closed.
THEOREM DiagnosticsCatchUp == Spec => []DiagnosticsSettle
<1>1. ASSUME IInv, DocInv PROVE DiagnosticsSettle
  <2>. SUFFICES ASSUME mode = "running", inbox = << >>, NEW uri \in Uris \ lost
                PROVE  \/ Unshown(Entry(editor, uri))
                       \/ Shown(uri) = {} /\ uri \notin DOMAIN editor
                       \/ \E i \in Shown(uri) : (\A j \in Shown(uri) : j <= i) /\ outbox[i].about = Entry(editor, uri)
    BY DEF DiagnosticsSettle
  <2>1. Leaves(uri, 0, Entry(editor, uri))
    BY <1>1 DEF DocInv, InStep
  <2>2. Entry(docs, uri) = Entry(editor, uri)
    BY <2>1 DEF Leaves
  <2>3. Entry(editor, uri) = None => uri \notin DOMAIN editor
    BY DEF Entry, None, Some
  <2>. QED
    BY <1>1, <2>2, <2>3 DEF DocInv, InView
<1>. QED
  BY <1>1, Documents, PTL

=============================================================================
