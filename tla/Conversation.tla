----------------------------- MODULE Conversation -----------------------------
(***************************************************************************)
(* The conversation of one ticket: the message composers of the ticket     *)
(* page, the upload and message handlers of the API, the attachment rows   *)
(* and the object storage.                                                 *)
(*                                                                         *)
(* A composer uploads each file on its own, keeps the ids it got and sends *)
(* them with the message.  A handler runs on when its composer has given   *)
(* up; objects and rows are written one after the other.  Texts, file      *)
(* names, sizes and types are left out (the checks on them are Refuse),    *)
(* as are the clocks and the notifications a reply touches.                *)
(***************************************************************************)
EXTENDS Integers, Sequences

CONSTANTS
    Composers,     \* message composers mounted on the ticket's pages
    Internal,      \* those that write internal notes
    Direct,        \* API clients that name whatever files they like
    AuthorOf,      \* the user of each
    Files,         \* uploads of a file
    Handlers,      \* HTTP requests in flight at the same time
    Faults,        \* what may go wrong
    MaxMessages    \* bound: no submission starts beyond it

FaultName == {"restart", "lostAnswer", "storage", "database", "unknownCommit"}

ASSUME ConversationAssumption ==
    /\ Composers # {}
    /\ Internal \subseteq Composers /\ Direct \subseteq Composers
    /\ Faults \subseteq FaultName
    /\ MaxMessages \in Nat

VARIABLES
    status,     \* of the ticket: OPEN stands for all that are not CLOSED
    objects,    \* the files in the object storage
    rows,       \* the attachments rows
    uploader,   \* who uploaded them
    messageId,  \* their message, 0 for none
    messages,   \* the ticket_messages rows
    composer,   \* the composers
    request     \* the requests in flight

vars == <<status, objects, rows, uploader, messageId, messages, composer, request>>

--------------------------------------------------------------------------------
(* Types *)

Message == [by : Composers, draft : Nat, files : SUBSET Files]

Composer == [pc : {"away", "writing", "uploading", "submitting"},
             draft : Nat, files : SUBSET Files]

\* `waited': the composer still waits for the answer.
Request == [op : {"none", "upload", "message"},
            pc : {"idle", "store", "row", "undo", "check", "find", "commit", "answer"},
            by : Composers, draft : Nat, files : SUBSET Files,
            done : BOOLEAN, waited : BOOLEAN]

Idle == [op |-> "none", pc |-> "idle", by |-> CHOOSE c \in Composers : TRUE,
         draft |-> 0, files |-> {}, done |-> FALSE, waited |-> FALSE]

TypeOK ==
    /\ status \in {"OPEN", "CLOSED"}
    /\ objects \subseteq Files
    /\ rows \subseteq Files
    /\ uploader \in [Files -> Composers]
    /\ messageId \in [Files -> Nat]
    /\ messages \in Seq(Message)
    /\ composer \in [Composers -> Composer]
    /\ request \in [Handlers -> Request]

Init ==
    /\ status = "OPEN"
    /\ objects = {} /\ rows = {}
    /\ uploader = [f \in Files |-> Idle.by]
    /\ messageId = [f \in Files |-> 0]
    /\ messages = <<>>
    /\ composer = [c \in Composers |-> [pc |-> "writing", draft |-> 1, files |-> {}]]
    /\ request = [h \in Handlers |-> Idle]

At(h, op, pc) == request[h].op = op /\ request[h].pc = pc
Goto(h, pc)   == request' = [request EXCEPT ![h].pc = pc]
Answers(h, done) ==
    request' = [request EXCEPT ![h].pc = "answer", ![h].done = done]

Database == <<rows, uploader, messageId, messages>>

--------------------------------------------------------------------------------
(* The composer *)

Send(c, h, op, pc, files) ==
    /\ request[h].pc = "idle"
    /\ request' = [request EXCEPT ![h] =
                     [op |-> op, pc |-> pc, by |-> c, draft |-> composer[c].draft,
                      files |-> files, done |-> FALSE, waited |-> TRUE]]
    /\ UNCHANGED <<status, objects, Database>>

\* Each upload has an id and a storage key of its own.
AttachFile(c, h, f) ==
    /\ composer[c].pc = "writing"
    /\ f \notin objects \cup rows
    /\ \A g \in Handlers : f \notin request[g].files
    /\ composer' = [composer EXCEPT ![c].pc = "uploading"]
    /\ Send(c, h, "upload", "store", {f})

\* The page disables public replies on a ticket it believes closed; a page
\* with older data does not.
Submit(c, h) ==
    /\ composer[c].pc = "writing"
    /\ Len(messages) < MaxMessages
    /\ composer' = [composer EXCEPT ![c].pc = "submitting"]
    /\ \E files \in {composer[c].files} \cup {any \in SUBSET Files : c \in Direct} :
         Send(c, h, "message", "check", files)

RemoveFile(c, f) ==
    /\ composer[c].pc = "writing"
    /\ f \in composer[c].files
    /\ composer' = [composer EXCEPT ![c].files = @ \ {f}]
    /\ UNCHANGED <<status, objects, Database, request>>

\* Going to another page unmounts the composer for good: coming back mounts
\* another.  Its request runs on.
Leave(c) ==
    /\ composer[c].pc # "away"
    /\ composer' = [composer EXCEPT ![c] =
                      [pc |-> "away", draft |-> @.draft, files |-> {}]]
    /\ request' = [h \in Handlers |->
                     IF request[h].by = c THEN [request[h] EXCEPT !.waited = FALSE]
                                          ELSE request[h]]
    /\ UNCHANGED <<status, objects, Database>>

\* The composer after an answer: an error keeps the draft and its files.
Answered(k, r) ==
    IF ~r.done THEN [k EXCEPT !.pc = "writing"]
    ELSE IF r.op = "upload"
         THEN [k EXCEPT !.pc = "writing", !.files = @ \cup r.files]
         ELSE [pc |-> "writing", draft |-> k.draft + 1, files |-> {}]

\* Mutant: an answer nobody waits for any more is taken for the present one.
AnswerLate(h) ==
    LET r == request[h]
    IN  /\ r.pc = "answer"
        /\ composer' = IF composer[r.by].pc = "submitting"
                       THEN [composer EXCEPT ![r.by] = Answered(@, r)] ELSE composer
        /\ request' = [request EXCEPT ![h] = Idle]
        /\ UNCHANGED <<status, objects, Database>>

Answer(h) ==
    LET r == request[h]
    IN  /\ r.pc = "answer"
        /\ composer' = IF r.waited THEN [composer EXCEPT ![r.by] = Answered(@, r)]
                                   ELSE composer
        /\ request' = [request EXCEPT ![h] = Idle]
        /\ UNCHANGED <<status, objects, Database>>

\* The connection breaks: an error for the composer, nothing for the handler.
LoseAnswer(h) ==
    /\ "lostAnswer" \in Faults
    /\ request[h].pc # "idle" /\ request[h].waited
    /\ composer' = [composer EXCEPT ![request[h].by].pc = "writing"]
    /\ request' = [request EXCEPT ![h].waited = FALSE]
    /\ UNCHANGED <<status, objects, Database>>

--------------------------------------------------------------------------------
(* uploadTicketAttachment *)

Refuse(h) ==
    /\ request[h].pc \in {"store", "check"}
    /\ Answers(h, FALSE)
    /\ UNCHANGED <<status, objects, Database, composer>>

\* Mutant: the row is written while the object is on its way.
StoreObjectLater(h) ==
    /\ At(h, "upload", "store")
    /\ objects' \in {objects, objects \cup request[h].files}
    /\ Goto(h, "row")
    /\ UNCHANGED <<status, Database, composer>>

StoreObject(h) ==
    /\ At(h, "upload", "store")
    /\ objects' = objects \cup request[h].files
    /\ Goto(h, "row")
    /\ UNCHANGED <<status, Database, composer>>

\* An upload that failed for the API may have reached the storage.
StoreFails(h) ==
    /\ "storage" \in Faults
    /\ At(h, "upload", "store")
    /\ objects' \in {objects, objects \cup request[h].files}
    /\ Answers(h, FALSE)
    /\ UNCHANGED <<status, Database, composer>>

CreateRow(r) ==
    /\ rows' = rows \cup r.files
    /\ uploader' = [f \in Files |-> IF f \in r.files THEN r.by ELSE uploader[f]]

\* The row and its ATTACHMENT_ADDED event.
WriteRow(h) ==
    /\ At(h, "upload", "row")
    /\ CreateRow(request[h])
    /\ Answers(h, TRUE)
    /\ UNCHANGED <<status, objects, messageId, messages, composer>>

\* Rolled back; or the commit took place, and its answer never came.
WriteRowFails(h) ==
    /\ "database" \in Faults
    /\ At(h, "upload", "row")
    /\ \/ UNCHANGED <<rows, uploader>>
       \/ "unknownCommit" \in Faults /\ CreateRow(request[h])
    /\ Goto(h, "undo")
    /\ UNCHANGED <<status, objects, messageId, messages, composer>>

\* Mutant: the upload is tried again, and its object kept for that.
UndoStoreLater(h) ==
    /\ At(h, "upload", "undo")
    /\ Goto(h, "row")
    /\ UNCHANGED <<status, objects, Database, composer>>

\* The object is deleted again; an error of that is swallowed.
UndoStore(h) ==
    /\ At(h, "upload", "undo")
    /\ objects' \in {objects \ request[h].files} \cup {objects : x \in Faults \cap {"storage"}}
    /\ Answers(h, FALSE)
    /\ UNCHANGED <<status, Database, composer>>

--------------------------------------------------------------------------------
(* createPublicReply, createInternalNote *)

CheckTicket(h) ==
    /\ At(h, "message", "check")
    /\ IF request[h].by \notin Internal /\ status = "CLOSED"
       THEN Answers(h, FALSE) ELSE Goto(h, "find")
    /\ UNCHANGED <<status, objects, Database, composer>>

\* findLinkableAttachments: one's own files, on no message yet.
Linkable(r) ==
    \A f \in r.files : /\ f \in rows
                       /\ messageId[f] = 0
                       /\ AuthorOf[uploader[f]] = AuthorOf[r.by]

FindFiles(h) ==
    /\ At(h, "message", "find")
    /\ IF Linkable(request[h]) THEN Goto(h, "commit") ELSE Answers(h, FALSE)
    /\ UNCHANGED <<status, objects, Database, composer>>

\* Mutant: the update trusts what findLinkableAttachments found.
StillLinkableAsFound(r) == TRUE

\* updateMany repeats the condition and the count is compared.
StillLinkable(r) == Linkable(r)

PostMessage(r) ==
    /\ messages' = Append(messages, [by |-> r.by, draft |-> r.draft, files |-> r.files])
    /\ messageId' = [f \in Files |-> IF f \in r.files THEN Len(messages) + 1
                                                      ELSE messageId[f]]

CommitMessage(h) ==
    /\ At(h, "message", "commit")
    /\ IF StillLinkable(request[h])
       THEN PostMessage(request[h]) /\ Answers(h, TRUE)
       ELSE UNCHANGED <<messages, messageId>> /\ Answers(h, FALSE)
    /\ UNCHANGED <<status, objects, rows, uploader, composer>>

\* The transaction is rolled back, or its commit is not answered.
CommitFails(h) ==
    /\ "database" \in Faults
    /\ At(h, "message", "commit")
    /\ \/ UNCHANGED <<messages, messageId>>
       \/ /\ "unknownCommit" \in Faults
          /\ StillLinkable(request[h])
          /\ PostMessage(request[h])
    /\ Answers(h, FALSE)
    /\ UNCHANGED <<status, objects, rows, uploader, composer>>

--------------------------------------------------------------------------------
(* Reading *)

\* getTicketTimeline for a customer: public messages with their files.
CustomerTimeline == {n \in DOMAIN messages : messages[n].by \notin Internal}

\* Mutant: any linked file is the customer's.
CustomerDownloadsLinked(f) == f \in rows /\ messageId[f] # 0

\* getTicketAttachmentDownloadUrl for a customer.
CustomerDownloads(f) ==
    /\ f \in rows
    /\ messageId[f] # 0
    /\ messages[messageId[f]].by \notin Internal

--------------------------------------------------------------------------------
\* The API process dies and comes back; who waited gets an error.
Restart ==
    /\ "restart" \in Faults
    /\ \E h \in Handlers : request[h].pc # "idle"
    /\ composer' = [c \in Composers |->
                      IF composer[c].pc \in {"uploading", "submitting"}
                      THEN [composer[c] EXCEPT !.pc = "writing"] ELSE composer[c]]
    /\ request' = [h \in Handlers |-> Idle]
    /\ UNCHANGED <<status, objects, Database>>

\* Everybody else.
SetStatus ==
    /\ status' \in {"OPEN", "CLOSED"} \ {status}
    /\ UNCHANGED <<objects, Database, composer, request>>

Write(c) ==
    \/ \E h \in Handlers : Submit(c, h) \/ \E f \in Files : AttachFile(c, h, f)
    \/ \E f \in Files : RemoveFile(c, f)
    \/ Leave(c)

Handle(h) ==
    \/ Refuse(h)
    \/ StoreObject(h) \/ StoreFails(h)
    \/ WriteRow(h) \/ WriteRowFails(h) \/ UndoStore(h)
    \/ CheckTicket(h) \/ FindFiles(h)
    \/ CommitMessage(h) \/ CommitFails(h)
    \/ Answer(h)

Next ==
    \/ \E c \in Composers : Write(c)
    \/ \E h \in Handlers : Handle(h) \/ LoseAnswer(h)
    \/ Restart
    \/ SetStatus

\* The event loop comes back to every handler; users may stop at any time.
Spec == Init /\ [][Next]_vars /\ \A h \in Handlers : WF_vars(Handle(h))

--------------------------------------------------------------------------------
(* Properties *)

(* A committed message has all the files it was sent with, files of its    *)
(* author, and no file is on two messages, however often one is resent.    *)
MessageCarriesItsFiles ==
    \A n \in DOMAIN messages :
        /\ messages[n].files = {f \in rows : messageId[f] = n}
        /\ \A f \in messages[n].files : AuthorOf[uploader[f]] = AuthorOf[messages[n].by]

(* What a page offers or has posted can be fetched: the files of a draft   *)
(* have their row and their object, and so do those of the messages that   *)
(* were sent from a composer, whatever fails on the way.  A row that lost  *)
(* its object, for its commit took place and was not answered (the catch   *)
(* of uploadTicketAttachment deletes on any error), is in no draft, and    *)
(* only a client that names files of its own accord can post it.           *)
OfferedFilesExist ==
    /\ \A c \in Composers : composer[c].files \subseteq rows \cap objects
    /\ \A n \in DOMAIN messages :
          messages[n].by \notin Direct => messages[n].files \subseteq rows \cap objects

(* A composer that clears a draft has posted it, with the files it shows:  *)
(* an answer to an earlier attempt is not taken for the present one.       *)
ClearedIsPosted ==
    [][\A c \in Composers :
         /\ composer[c].pc = "submitting"
         /\ composer'[c].pc = "writing"
         /\ composer'[c].draft # composer[c].draft
         => \E n \in DOMAIN messages :
              /\ messages[n].by = c /\ messages[n].draft = composer[c].draft
              /\ c \notin Direct => messages[n].files = composer[c].files]_vars

(* Customers can download exactly the files their timeline shows.          *)
DownloadsMatchTimeline ==
    {f \in Files : CustomerDownloads(f)}
      = UNION {messages[n].files : n \in CustomerTimeline}

(* A composer never stays busy: every upload and submission is answered,   *)
(* or fails with the connection.                                           *)
ComposerComesBack ==
    \A c \in Composers :
        composer[c].pc \in {"uploading", "submitting"} ~> composer[c].pc \in {"writing", "away"}

(* Files are kept, then shared with one audience, for good.                *)
Audience(f) ==
    IF f \notin rows THEN "ABSENT"
    ELSE IF messageId[f] = 0 THEN "UPLOADER"
    ELSE IF messages[messageId[f]].by \in Internal THEN "STAFF" ELSE "CUSTOMER"
Contract == INSTANCE FileContract WITH audience <- [f \in Files |-> Audience(f)]
ImplementsFiles == Contract!Spec

================================================================================
