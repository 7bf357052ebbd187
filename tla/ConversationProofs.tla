--------------------------- MODULE ConversationProofs ---------------------------
(***************************************************************************)
(* Proofs about Conversation: files and messages stay together, what is    *)
(* offered can be fetched, and the conversation implements FileContract,   *)
(* for any number of files, composers and handlers.                        *)
(*                                                                         *)
(* The invariant adds what an upload under way may count on: its file is   *)
(* in no other upload, and has no row before it is written.  A second one  *)
(* says which files are on offer, and that no upload that takes its object *)
(* back has one of them.                                                   *)
(***************************************************************************)
EXTENDS Conversation, TLAPS

Upload(r) ==
    r.op = "upload" =>
      /\ \E f \in Files : r.files = {f}
      /\ r.pc \in {"store", "row"} => r.files \cap rows = {}
      /\ r.pc = "row" => r.files \subseteq objects

\* No two uploads are of the same file.
Apart ==
    \A g, h \in Handlers :
        g # h /\ request[g].op = "upload" /\ request[h].op = "upload"
          => request[g].files \cap request[h].files = {}

Linked ==
    \A f \in Files : messageId[f] <= Len(messages) /\ (messageId[f] # 0 => f \in rows)

IInv ==
    /\ TypeOK
    /\ \A h \in Handlers : Upload(request[h])
    /\ Apart
    /\ MessageCarriesItsFiles
    /\ Linked

LEMMA IdleIsRequest == Idle \in Request /\ Idle.op = "none" /\ Idle.by \in Composers
<1>1. (CHOOSE c \in Composers : TRUE) \in Composers
  BY ConversationAssumption
<1> QED
  BY <1>1 DEF Idle, Request

LEMMA InitIInv == Init => IInv
<1> SUFFICES ASSUME Init PROVE IInv
  OBVIOUS
<1>1. \A h \in Handlers : request[h] = Idle
  BY DEF Init
<1>2. TypeOK
  BY <1>1, IdleIsRequest DEF Init, TypeOK, Composer
<1>3. (\A h \in Handlers : Upload(request[h])) /\ Apart
  BY <1>1, IdleIsRequest DEF Upload, Apart
<1>4. MessageCarriesItsFiles /\ Linked
  BY DEF Init, MessageCarriesItsFiles, Linked
<1> QED
  BY <1>2, <1>3, <1>4 DEF IInv

--------------------------------------------------------------------------------
(* Steps that leave the database and the storage alone *)

\* A record of a request after a step that keeps what it carries.
Carries(new, r) ==
    /\ new \in Request
    /\ new.op = r.op /\ new.files = r.files

\* Nothing an upload under way relies on changes.
LEMMA OnlyRequests ==
    ASSUME IInv, UNCHANGED <<objects, Database>>, status' \in {"OPEN", "CLOSED"},
           composer' \in [Composers -> Composer], request' \in [Handlers -> Request],
           \A h \in Handlers :
              request'[h].op = "upload" =>
                 /\ request[h].op = "upload" /\ request'[h].files = request[h].files
                 /\ request'[h].pc \in {request[h].pc, "answer"}
    PROVE  IInv'
<1>1. TypeOK'
  BY DEF IInv, TypeOK, Database
<1>2. ASSUME NEW h \in Handlers
      PROVE  Upload(request[h])'
  BY DEF IInv, Upload, Database
<1>3. Apart'
  BY DEF IInv, Apart
<1>4. MessageCarriesItsFiles' /\ Linked'
  BY DEF IInv, MessageCarriesItsFiles, Linked, Database
<1> QED
  BY <1>1, <1>2, <1>3, <1>4 DEF IInv

LEMMA ComposerSteps ==
    ASSUME IInv, NEW c \in Composers,
           \/ \E h \in Handlers : Submit(c, h)
           \/ \E f \in Files : RemoveFile(c, f)
           \/ Leave(c)
    PROVE  IInv'
<1> USE DEF TypeOK
<1>1. /\ composer \in [Composers -> Composer] /\ request \in [Handlers -> Request]
      /\ status \in {"OPEN", "CLOSED"} /\ composer[c] \in Composer
  BY DEF IInv
<1>2. ASSUME NEW h \in Handlers, Submit(c, h)
      PROVE  IInv'
  <2>1. composer' \in [Composers -> Composer]
    BY <1>1, <1>2 DEF Submit, Composer
  <2>2. PICK files \in SUBSET Files : Send(c, h, "message", "check", files)
    BY <1>1, <1>2 DEF Submit, Composer
  <2> DEFINE r == [op |-> "message", pc |-> "check", by |-> c, draft |-> composer[c].draft,
                   files |-> files, done |-> FALSE, waited |-> TRUE]
  <2>3. r \in Request /\ r.op = "message"
    BY <1>1 DEF Request, Composer
  <2>4. request' = [request EXCEPT ![h] = r] /\ UNCHANGED <<status, objects, Database>>
    BY <2>2 DEF Send
  <2> HIDE DEF r
  <2> QED
    BY <1>1, <2>1, <2>3, <2>4, OnlyRequests
<1>3. ASSUME NEW f \in Files, RemoveFile(c, f)
      PROVE  IInv'
  <2>1. composer' \in [Composers -> Composer]
    BY <1>1, <1>3 DEF RemoveFile, Composer
  <2> QED
    BY <1>1, <1>3, <2>1, OnlyRequests DEF RemoveFile
<1>4. CASE Leave(c)
  <2>1. composer' \in [Composers -> Composer]
    BY <1>1, <1>4 DEF Leave, Composer
  <2>2. ASSUME NEW h \in Handlers
        PROVE  Carries(request'[h], request[h]) /\ request'[h].pc = request[h].pc
    <3>1. CASE request[h].by = c
      <4>1. request'[h] = [request[h] EXCEPT !.waited = FALSE] /\ request[h] \in Request
        BY <1>1, <1>4, <3>1 DEF Leave
      <4> QED
        BY <4>1 DEF Carries, Request
    <3>2. CASE request[h].by # c
      BY <1>1, <1>4, <3>2 DEF Leave, Carries
    <3> QED
      BY <3>1, <3>2
  <2>3. request' \in [Handlers -> Request]
    BY <2>2, <1>4 DEF Leave, Carries
  <2> QED
    BY <1>1, <1>4, <2>1, <2>2, <2>3, OnlyRequests DEF Leave, Carries
<1> QED
  BY <1>2, <1>3, <1>4

LEMMA HandlerMoves ==
    ASSUME IInv, NEW h \in Handlers, UNCHANGED <<objects, Database, composer>>,
           status' \in {"OPEN", "CLOSED"},
           \/ \E done \in BOOLEAN : Answers(h, done)
           \/ request[h].op = "message" /\ \E pc \in {"find", "commit"} : Goto(h, pc)
    PROVE  IInv'
<1>1. /\ composer \in [Composers -> Composer] /\ request \in [Handlers -> Request]
      /\ request[h] \in Request
  BY DEF IInv, TypeOK
<1>2. CASE \E done \in BOOLEAN : Answers(h, done)
  <2>1. PICK done \in BOOLEAN : Answers(h, done)
    BY <1>2
  <2> DEFINE new == [request[h] EXCEPT !.pc = "answer", !.done = done]
  <2>2. request' = [request EXCEPT ![h] = new]
    BY <1>1, <2>1 DEF Answers
  <2>3. Carries(new, request[h]) /\ new.pc = "answer"
    BY <1>1 DEF Carries, Request
  <2> HIDE DEF new
  <2> QED
    BY <1>1, <2>2, <2>3, OnlyRequests DEF Carries
<1>3. CASE request[h].op = "message" /\ \E pc \in {"find", "commit"} : Goto(h, pc)
  <2>1. PICK pc \in {"find", "commit"} : Goto(h, pc)
    BY <1>3
  <2> DEFINE new == [request[h] EXCEPT !.pc = pc]
  <2>2. request' = [request EXCEPT ![h] = new]
    BY <1>1, <2>1 DEF Goto
  <2>3. Carries(new, request[h])
    BY <1>1 DEF Carries, Request
  <2> HIDE DEF new
  <2> QED
    BY <1>1, <1>3, <2>2, <2>3, OnlyRequests DEF Carries
<1> QED
  BY <1>2, <1>3

LEMMA AnswerSteps ==
    ASSUME IInv, NEW h \in Handlers, Answer(h) \/ LoseAnswer(h)
    PROVE  IInv'
<1>1. /\ composer \in [Composers -> Composer] /\ request \in [Handlers -> Request]
      /\ request[h] \in Request /\ status \in {"OPEN", "CLOSED"}
      /\ request[h].by \in Composers /\ composer[request[h].by] \in Composer
  BY DEF IInv, TypeOK, Request
<1>2. CASE Answer(h)
  <2>1. Answered(composer[request[h].by], request[h]) \in Composer
    <3> DEFINE k == composer[request[h].by]
               r == request[h]
    <3>1. k.draft \in Nat /\ k.files \subseteq Files /\ r.files \subseteq Files
      BY <1>1 DEF Composer, Request
    <3>2. CASE ~r.done
      BY <1>1, <3>2 DEF Answered, Composer
    <3>3. CASE r.done /\ r.op = "upload"
      BY <1>1, <3>1, <3>3 DEF Answered, Composer
    <3>4. CASE r.done /\ r.op # "upload"
      BY <3>1, <3>4 DEF Answered, Composer
    <3> QED
      BY <3>2, <3>3, <3>4
  <2>2. composer' \in [Composers -> Composer]
    BY <1>1, <1>2, <2>1 DEF Answer
  <2>3. request' = [request EXCEPT ![h] = Idle]
    BY <1>2 DEF Answer
  <2> QED
    BY <1>1, <1>2, <2>2, <2>3, IdleIsRequest, OnlyRequests DEF Answer
<1>3. CASE LoseAnswer(h)
  <2>1. composer' \in [Composers -> Composer]
    BY <1>1, <1>3 DEF LoseAnswer, Composer
  <2> DEFINE new == [request[h] EXCEPT !.waited = FALSE]
  <2>2. request' = [request EXCEPT ![h] = new]
    BY <1>1, <1>3 DEF LoseAnswer
  <2>3. Carries(new, request[h]) /\ new.pc = request[h].pc
    BY <1>1 DEF Carries, Request
  <2> HIDE DEF new
  <2> QED
    BY <1>1, <1>3, <2>1, <2>2, <2>3, OnlyRequests DEF LoseAnswer, Carries
<1> QED
  BY <1>2, <1>3

LEMMA EnvironmentSteps == ASSUME IInv, Restart \/ SetStatus PROVE IInv'
<1>1. /\ composer \in [Composers -> Composer] /\ request \in [Handlers -> Request]
      /\ status \in {"OPEN", "CLOSED"}
  BY DEF IInv, TypeOK
<1>2. CASE Restart
  <2>1. composer' \in [Composers -> Composer]
    BY <1>1, <1>2 DEF Restart, Composer
  <2>2. request' \in [Handlers -> Request] /\ \A h \in Handlers : request'[h].op = "none"
    BY <1>2, IdleIsRequest DEF Restart
  <2> QED
    BY <1>1, <1>2, <2>1, <2>2, OnlyRequests DEF Restart
<1>3. CASE SetStatus
  BY <1>1, <1>3, OnlyRequests DEF SetStatus
<1> QED
  BY <1>2, <1>3

--------------------------------------------------------------------------------
(* Uploads *)

LEMMA AttachIInv ==
    ASSUME IInv, NEW c \in Composers, NEW h \in Handlers, NEW f \in Files,
           AttachFile(c, h, f)
    PROVE  IInv'
<1> DEFINE r == [op |-> "upload", pc |-> "store", by |-> c, draft |-> composer[c].draft,
                 files |-> {f}, done |-> FALSE, waited |-> TRUE]
<1>1. /\ composer \in [Composers -> Composer] /\ request \in [Handlers -> Request]
      /\ composer[c] \in Composer
  BY DEF IInv, TypeOK
<1>2. /\ r \in Request /\ r.op = "upload" /\ r.files = {f} /\ r.pc = "store"
      /\ request' = [request EXCEPT ![h] = r]
      /\ UNCHANGED <<status, objects, Database>>
      /\ f \notin rows
      /\ \A g \in Handlers : f \notin request[g].files
  BY <1>1 DEF AttachFile, Send, Request, Composer
<1>3. composer' \in [Composers -> Composer]
  BY <1>1 DEF AttachFile, Composer
<1> HIDE DEF r
<1>4. TypeOK'
  BY <1>1, <1>2, <1>3 DEF IInv, TypeOK, Database
<1>5. ASSUME NEW g \in Handlers
      PROVE  Upload(request[g])'
  BY <1>1, <1>2 DEF IInv, Upload, Database
<1>6. Apart'
  BY <1>1, <1>2 DEF IInv, Apart
<1>7. MessageCarriesItsFiles' /\ Linked'
  BY <1>2 DEF IInv, MessageCarriesItsFiles, Linked, Database
<1> QED
  BY <1>4, <1>5, <1>6, <1>7 DEF IInv

\* What the steps of an upload have in common.
LEMMA UploadMoves ==
    ASSUME IInv, NEW h \in Handlers, request[h].op = "upload",
           NEW pc \in {"row", "undo", "answer"},
           Goto(h, pc) \/ (pc = "answer" /\ \E done \in BOOLEAN : Answers(h, done))
    PROVE  /\ request' \in [Handlers -> Request]
           /\ request'[h].pc = pc
           /\ request'[h].files = request[h].files
           /\ request'[h].op = "upload"
           /\ \A g \in Handlers \ {h} : request'[g] = request[g]
           /\ Apart'
           /\ \A g \in Handlers \ {h} :
                 request[g].op = "upload" => request[g].files \cap request[h].files = {}
           /\ request[h].files \subseteq Files /\ request[h].by \in Composers
<1>1. request \in [Handlers -> Request] /\ request[h] \in Request
  BY DEF IInv, TypeOK
<1>2. PICK done \in BOOLEAN :
         request' = [request EXCEPT ![h].pc = pc, ![h].done = done]
  BY <1>1 DEF Goto, Answers, Request
<1> DEFINE new == [request[h] EXCEPT !.pc = pc, !.done = done]
<1>3. request' = [request EXCEPT ![h] = new]
  BY <1>1, <1>2
<1>4. new \in Request /\ new.op = "upload" /\ new.files = request[h].files /\ new.pc = pc
  BY <1>1 DEF Request
<1> HIDE DEF new
<1>5. /\ request' \in [Handlers -> Request] /\ request'[h] = new
      /\ \A g \in Handlers \ {h} : request'[g] = request[g]
  BY <1>1, <1>3, <1>4
<1>6. Apart'
  BY <1>4, <1>5 DEF IInv, Apart
<1>7. \A g \in Handlers \ {h} :
         request[g].op = "upload" => request[g].files \cap request[h].files = {}
  BY DEF IInv, Apart
<1>8. request[h].files \subseteq Files /\ request[h].by \in Composers
  BY <1>1 DEF Request
<1> QED
  BY <1>4, <1>5, <1>6, <1>7, <1>8

\* The object comes before the row.
LEMMA StoreIInv ==
    ASSUME IInv, NEW h \in Handlers, StoreObject(h) \/ StoreFails(h)
    PROVE  IInv'
<1>1. /\ request[h].op = "upload" /\ UNCHANGED <<status, Database, composer>>
      /\ objects' \in {objects, objects \cup request[h].files}
      /\ Upload(request[h])
  BY DEF StoreObject, StoreFails, At, IInv
<1>2. PICK pc \in {"row", "answer"} :
        /\ Goto(h, pc) \/ (pc = "answer" /\ \E done \in BOOLEAN : Answers(h, done))
        /\ pc = "row" => objects' = objects \cup request[h].files
        /\ request[h].pc = "store"
  BY DEF StoreObject, StoreFails, At
<1>3. /\ request' \in [Handlers -> Request]
      /\ request'[h].pc = pc /\ request'[h].files = request[h].files
      /\ request'[h].op = "upload"
      /\ \A g \in Handlers \ {h} : request'[g] = request[g]
      /\ Apart' /\ request[h].files \subseteq Files
  BY <1>1, <1>2, UploadMoves
<1>4. TypeOK'
  BY <1>1, <1>3 DEF IInv, TypeOK, Database
<1>5. ASSUME NEW g \in Handlers
      PROVE  Upload(request[g])'
  <2>1. CASE g = h
    BY <1>1, <1>2, <1>3, <2>1 DEF Upload, Database
  <2>2. CASE g # h
    BY <1>1, <1>3, <2>2 DEF IInv, Upload, Database
  <2> QED
    BY <2>1, <2>2
<1>6. MessageCarriesItsFiles' /\ Linked'
  BY <1>1 DEF IInv, MessageCarriesItsFiles, Linked, Database
<1> QED
  BY <1>3, <1>4, <1>5, <1>6 DEF IInv

\* The row of an upload: of no message yet, and its object is there.
LEMMA RowIInv ==
    ASSUME IInv, NEW h \in Handlers, WriteRow(h) \/ WriteRowFails(h)
    PROVE  IInv'
<1>1. /\ request[h].op = "upload" /\ request[h].pc = "row"
      /\ UNCHANGED <<status, objects, messageId, messages, composer>>
      /\ Upload(request[h])
  BY DEF WriteRow, WriteRowFails, At, IInv
<1>2. PICK pc \in {"undo", "answer"} :
        /\ Goto(h, pc) \/ (pc = "answer" /\ \E done \in BOOLEAN : Answers(h, done))
        /\ UNCHANGED <<rows, uploader>> \/ CreateRow(request[h])
  BY DEF WriteRow, WriteRowFails
<1>3. /\ request' \in [Handlers -> Request]
      /\ request'[h].pc = pc /\ request'[h].files = request[h].files
      /\ request'[h].op = "upload"
      /\ \A g \in Handlers \ {h} : request'[g] = request[g]
      /\ Apart' /\ request[h].files \subseteq Files /\ request[h].by \in Composers
      /\ \A g \in Handlers \ {h} :
            request[g].op = "upload" => request[g].files \cap request[h].files = {}
  BY <1>1, <1>2, UploadMoves
<1>4. /\ rows \subseteq rows' /\ rows' \subseteq rows \cup request[h].files
      /\ uploader' \in [Files -> Composers]
      /\ \A f \in Files \ request[h].files : uploader'[f] = uploader[f]
  BY <1>2, <1>3 DEF CreateRow, IInv, TypeOK
<1>5. \A f \in request[h].files : f \notin rows /\ messageId[f] = 0 /\ f \in objects
  BY <1>1, <1>3 DEF Upload, IInv, Linked
<1>6. TypeOK'
  BY <1>1, <1>3, <1>4 DEF IInv, TypeOK
<1>7. ASSUME NEW g \in Handlers
      PROVE  Upload(request[g])'
  <2>1. CASE g = h
    BY <1>1, <1>2, <1>3, <2>1 DEF Upload
  <2>2. CASE g # h
    BY <1>1, <1>3, <1>4, <2>2 DEF IInv, Upload
  <2> QED
    BY <2>1, <2>2
<1>8. Linked'
  BY <1>1, <1>4, <1>5 DEF IInv, Linked
<1>9. MessageCarriesItsFiles'
  <2> SUFFICES ASSUME NEW n \in DOMAIN messages
               PROVE  /\ messages[n].files = {f \in rows' : messageId[f] = n}
                      /\ \A f \in messages[n].files :
                            AuthorOf[uploader'[f]] = AuthorOf[messages[n].by]
    BY <1>1 DEF MessageCarriesItsFiles
  <2>1. messages[n] \in Message /\ n # 0 /\ messages[n].files \subseteq Files
    <3>1. messages \in Seq(Message)
      BY DEF IInv, TypeOK
    <3>2. messages[n] \in Message /\ n \in 1..Len(messages) /\ Len(messages) \in Nat
      BY <3>1
    <3> QED
      BY <3>2 DEF Message
  <2>2. messages[n].files = {f \in rows : messageId[f] = n}
    BY DEF IInv, MessageCarriesItsFiles
  <2>3. messages[n].files = {f \in rows' : messageId[f] = n}
    BY <1>4, <1>5, <2>1, <2>2
  <2>4. \A f \in messages[n].files : uploader'[f] = uploader[f]
    BY <1>4, <1>5, <2>1, <2>2
  <2> QED
    BY <2>3, <2>4 DEF IInv, MessageCarriesItsFiles
<1> QED
  BY <1>3, <1>6, <1>7, <1>8, <1>9 DEF IInv

\* The object is deleted again, whatever became of its row.
LEMMA UndoIInv ==
    ASSUME IInv, NEW h \in Handlers, UndoStore(h)
    PROVE  IInv'
<1>1. /\ request[h].op = "upload" /\ request[h].pc = "undo"
      /\ UNCHANGED <<status, Database, composer>>
      /\ objects' \in {objects, objects \ request[h].files}
      /\ \E done \in BOOLEAN : Answers(h, done)
      /\ Upload(request[h])
  BY DEF UndoStore, At, IInv
<1>2. /\ request' \in [Handlers -> Request]
      /\ request'[h].pc = "answer" /\ request'[h].files = request[h].files
      /\ request'[h].op = "upload"
      /\ \A g \in Handlers \ {h} : request'[g] = request[g]
      /\ Apart' /\ request[h].files \subseteq Files
      /\ \A g \in Handlers \ {h} :
            request[g].op = "upload" => request[g].files \cap request[h].files = {}
  BY <1>1, UploadMoves
<1>3. TypeOK'
  BY <1>1, <1>2 DEF IInv, TypeOK, Database
<1>4. ASSUME NEW g \in Handlers
      PROVE  Upload(request[g])'
  <2>1. CASE g = h
    BY <1>1, <1>2, <2>1 DEF Upload, Database
  <2>2. CASE g # h
    BY <1>1, <1>2, <2>2 DEF IInv, Upload, Database
  <2> QED
    BY <2>1, <2>2
<1>5. MessageCarriesItsFiles' /\ Linked'
  BY <1>1 DEF IInv, MessageCarriesItsFiles, Linked, Database
<1> QED
  BY <1>2, <1>3, <1>4, <1>5 DEF IInv

--------------------------------------------------------------------------------
(* Messages *)

\* A message takes files that were on none.
LEMMA PostIInv ==
    ASSUME IInv, NEW h \in Handlers, request[h].op = "message",
           Linkable(request[h]), PostMessage(request[h]), Answers(h, TRUE) \/ Answers(h, FALSE),
           UNCHANGED <<status, objects, rows, uploader, composer>>
    PROVE  IInv'
<1> DEFINE r == request[h]
           m == [by |-> r.by, draft |-> r.draft, files |-> r.files]
<1>1. /\ request \in [Handlers -> Request] /\ r \in Request
      /\ messages \in Seq(Message) /\ m \in Message
      /\ Len(messages) \in Nat /\ messageId \in [Files -> Nat]
      /\ r.files \subseteq Files
  BY DEF IInv, TypeOK, Request, Message
<1>2. /\ messages' = Append(messages, m)
      /\ messageId' = [f \in Files |-> IF f \in r.files THEN Len(messages) + 1 ELSE messageId[f]]
      /\ \A f \in r.files : /\ f \in rows /\ messageId[f] = 0
                            /\ AuthorOf[uploader[f]] = AuthorOf[r.by]
  BY DEF PostMessage, Linkable
<1>3. /\ request' \in [Handlers -> Request]
      /\ request'[h].op = "message"
      /\ \A g \in Handlers \ {h} : request'[g] = request[g]
  <2> DEFINE new(done) == [request[h] EXCEPT !.pc = "answer", !.done = done]
  <2>1. PICK done \in BOOLEAN : request' = [request EXCEPT ![h] = new(done)]
    BY <1>1 DEF Answers
  <2>2. new(done) \in Request /\ new(done).op = "message"
    BY <1>1 DEF Request
  <2> HIDE DEF new
  <2> QED
    BY <1>1, <2>1, <2>2
<1> HIDE DEF m, r
<1>4. /\ messages' \in Seq(Message) /\ Len(messages') = Len(messages) + 1
      /\ messages'[Len(messages) + 1] = m
      /\ \A n \in 1..Len(messages) : messages'[n] = messages[n]
  BY <1>1, <1>2
<1>5. TypeOK'
  <2>1. messageId' \in [Files -> Nat]
    BY <1>1, <1>2
  <2> QED
    BY <1>3, <1>4, <2>1 DEF IInv, TypeOK
<1>6. ASSUME NEW g \in Handlers
      PROVE  Upload(request[g])'
  <2>1. CASE g = h
    BY <1>3, <2>1 DEF Upload
  <2>2. CASE g # h
    BY <1>3, <2>2 DEF IInv, Upload
  <2> QED
    BY <2>1, <2>2
<1>7. Apart'
  BY <1>3 DEF IInv, Apart
<1>8. Linked'
  BY <1>1, <1>2, <1>4 DEF IInv, Linked
<1>9. MessageCarriesItsFiles'
  <2> SUFFICES ASSUME NEW n \in DOMAIN messages'
               PROVE  /\ messages'[n].files = {f \in rows : messageId'[f] = n}
                      /\ \A f \in messages'[n].files :
                            AuthorOf[uploader[f]] = AuthorOf[messages'[n].by]
    BY DEF MessageCarriesItsFiles
  <2>1. n \in 1..(Len(messages) + 1) /\ rows \subseteq Files
    BY <1>4 DEF IInv, TypeOK
  <2>2. CASE n = Len(messages) + 1
    <3>1. m.files = r.files /\ m.by = r.by
      BY DEF m
    <3>2. r.files = {f \in rows : messageId'[f] = n}
      BY <1>1, <1>2, <2>1, <2>2 DEF IInv, Linked
    <3>3. messages'[n] = m
      BY <1>4, <2>2
    <3>4. \A f \in r.files : AuthorOf[uploader[f]] = AuthorOf[r.by]
      BY <1>2
    <3>5. uploader' = uploader
      OBVIOUS
    <3> QED
      BY <3>1, <3>2, <3>3, <3>4, <3>5
  <2>3. CASE n # Len(messages) + 1
    <3>1. n \in 1..Len(messages) /\ n \in DOMAIN messages /\ messages'[n] = messages[n]
      BY <1>1, <1>4, <2>1, <2>3
    <3>2. {f \in rows : messageId'[f] = n} = {f \in rows : messageId[f] = n}
      BY <1>1, <1>2, <2>1, <2>3, <3>1
    <3> QED
      BY <3>1, <3>2 DEF IInv, MessageCarriesItsFiles
  <2> QED
    BY <2>2, <2>3
<1> QED
  BY <1>5, <1>6, <1>7, <1>8, <1>9 DEF IInv

LEMMA CommitIInv ==
    ASSUME IInv, NEW h \in Handlers, CommitMessage(h) \/ CommitFails(h)
    PROVE  IInv'
<1>1. /\ request[h].op = "message"
      /\ Answers(h, TRUE) \/ Answers(h, FALSE)
      /\ UNCHANGED <<status, objects, rows, uploader, composer>>
      /\ \/ UNCHANGED <<messages, messageId>>
         \/ Linkable(request[h]) /\ PostMessage(request[h])
  BY DEF CommitMessage, CommitFails, At, StillLinkable
<1>2. CASE UNCHANGED <<messages, messageId>>
  <2>1. UNCHANGED <<objects, Database, composer>> /\ status' \in {"OPEN", "CLOSED"}
    BY <1>1, <1>2 DEF Database, IInv, TypeOK
  <2>2. \E done \in BOOLEAN : Answers(h, done)
    BY <1>1
  <2> QED
    BY <2>1, <2>2, HandlerMoves
<1>3. CASE Linkable(request[h]) /\ PostMessage(request[h])
  BY <1>1, <1>3, PostIInv
<1> QED
  BY <1>1, <1>2, <1>3

--------------------------------------------------------------------------------
(* Every step *)

LEMMA CheckIInv ==
    ASSUME IInv, NEW h \in Handlers, Refuse(h) \/ CheckTicket(h) \/ FindFiles(h)
    PROVE  IInv'
<1>1. status \in {"OPEN", "CLOSED"}
  BY DEF IInv, TypeOK
<1> QED
  BY <1>1, HandlerMoves DEF Refuse, CheckTicket, FindFiles, At

LEMMA StutterIInv == IInv /\ UNCHANGED vars => IInv'
BY DEF IInv, TypeOK, Upload, Apart, MessageCarriesItsFiles, Linked, vars, Database

LEMMA NextIInv == IInv /\ [Next]_vars => IInv'
<1> SUFFICES ASSUME IInv, Next PROVE IInv'
  BY StutterIInv
<1>1. ASSUME NEW c \in Composers, Write(c)
      PROVE  IInv'
  BY <1>1, ComposerSteps, AttachIInv DEF Write
<1>2. ASSUME NEW h \in Handlers, Handle(h)
      PROVE  IInv'
  BY <1>2, CheckIInv, StoreIInv, RowIInv, UndoIInv, CommitIInv, AnswerSteps DEF Handle
<1> QED
  BY <1>1, <1>2, AnswerSteps, EnvironmentSteps DEF Next

LEMMA Invariance == Spec => []IInv
BY InitIInv, NextIInv, PTL DEF Spec

--------------------------------------------------------------------------------
(* Theorems *)

(* Every reachable state is typed, for any number of files, composers and  *)
(* handlers (Conversation).                                                *)
THEOREM TypeCorrect == Spec => []TypeOK
<1>1. IInv => TypeOK
  BY DEF IInv
<1> QED
  BY <1>1, Invariance, PTL

(* A message has all its files and only its author's, and no file is on    *)
(* two messages (createPublicReply, createInternalNote).                   *)
THEOREM MessageTheorem == Spec => []MessageCarriesItsFiles
<1>1. IInv => MessageCarriesItsFiles
  BY DEF IInv
<1> QED
  BY <1>1, Invariance, PTL

(* What customers may download is what their timeline shows                *)
(* (getTicketAttachmentDownloadUrl, getTicketTimeline).                    *)
THEOREM DownloadsTheorem == Spec => []DownloadsMatchTimeline
<1>1. IInv => DownloadsMatchTimeline
  <2> SUFFICES ASSUME IInv
               PROVE  \A f : (f \in Files /\ CustomerDownloads(f))
                               <=> \E n \in CustomerTimeline : f \in messages[n].files
    BY DEF DownloadsMatchTimeline
  <2>1. /\ messages \in Seq(Message) /\ Len(messages) \in Nat /\ rows \subseteq Files
        /\ messageId \in [Files -> Nat] /\ DOMAIN messages = 1..Len(messages)
        /\ Linked /\ MessageCarriesItsFiles
    BY DEF IInv, TypeOK
  <2> TAKE f
  <2>2. ASSUME f \in Files, CustomerDownloads(f)
        PROVE  \E n \in CustomerTimeline : f \in messages[n].files
    <3>1. messageId[f] \in DOMAIN messages /\ f \in rows
      BY <2>1, <2>2 DEF CustomerDownloads, Linked
    <3>2. f \in messages[messageId[f]].files
      BY <2>1, <3>1 DEF MessageCarriesItsFiles
    <3> QED
      BY <2>2, <3>1, <3>2 DEF CustomerDownloads, CustomerTimeline
  <2>3. ASSUME NEW n \in CustomerTimeline, f \in messages[n].files
        PROVE  f \in Files /\ CustomerDownloads(f)
    BY <2>1, <2>3 DEF CustomerTimeline, MessageCarriesItsFiles, CustomerDownloads
  <2> QED
    BY <2>2, <2>3
<1> QED
  BY <1>1, Invariance, PTL

--------------------------------------------------------------------------------
(* Refinement *)

LEMMA AudienceIs ==
    ASSUME TypeOK, Linked, NEW f \in Files
    PROVE  /\ Audience(f) = "ABSENT" <=> f \notin rows
           /\ Audience(f) = "UPLOADER" <=> f \in rows /\ messageId[f] = 0
BY DEF Audience

\* A row that is written keeps its file for its uploader.
LEMMA RowKeeps ==
    ASSUME IInv, IInv', NEW h \in Handlers, WriteRow(h) \/ WriteRowFails(h)
    PROVE  [Contract!Next]_([f \in Files |-> Audience(f)])
<1>1. /\ Upload(request[h]) /\ request[h].op = "upload" /\ request[h].pc = "row"
      /\ UNCHANGED <<messageId, messages>>
      /\ rows' = rows \/ rows' = rows \cup request[h].files
  BY DEF WriteRow, WriteRowFails, At, IInv, CreateRow
<1>2. PICK f \in Files : request[h].files = {f} /\ f \notin rows /\ messageId[f] = 0
  BY <1>1 DEF Upload, IInv, Linked
<1>3. CASE rows' = rows
  BY <1>1, <1>3 DEF Audience
<1>4. CASE rows' = rows \cup {f}
  <2>1. Audience(f) = "ABSENT" /\ Audience(f)' = "UPLOADER"
    BY <1>1, <1>2, <1>4 DEF Audience
  <2>2. \A g \in Files \ {f} : Audience(g)' = Audience(g)
    BY <1>1, <1>4 DEF Audience
  <2>3. Contract!Keep(f)
    BY <2>1, <2>2 DEF Contract!Keep
  <2> QED
    BY <2>3 DEF Contract!Next
<1> QED
  BY <1>1, <1>2, <1>3, <1>4

\* A message shares its files with its readers, and no others.
LEMMA MessageShares ==
    ASSUME IInv, IInv', NEW h \in Handlers, CommitMessage(h) \/ CommitFails(h)
    PROVE  [Contract!Next]_([f \in Files |-> Audience(f)])
<1> DEFINE r == request[h]
           last == Len(messages) + 1
<1>1. /\ UNCHANGED rows
      /\ \/ UNCHANGED <<messages, messageId>>
         \/ Linkable(r) /\ PostMessage(r)
  BY DEF CommitMessage, CommitFails, StillLinkable
<1>2. CASE UNCHANGED <<messages, messageId>>
  BY <1>1, <1>2 DEF Audience
<1>3. CASE Linkable(r) /\ PostMessage(r)
  <2>1. /\ messages \in Seq(Message) /\ Len(messages) \in Nat /\ r.files \subseteq Files
        /\ messageId \in [Files -> Nat] /\ rows \subseteq Files
        /\ [by |-> r.by, draft |-> r.draft, files |-> r.files] \in Message
        /\ Linked
    BY DEF IInv, TypeOK, Request, Message
  <2>2. /\ messages'[last].by = r.by
        /\ \A n \in 1..Len(messages) : messages'[n] = messages[n]
        /\ \A f \in Files : messageId'[f] = IF f \in r.files THEN last ELSE messageId[f]
        /\ \A f \in r.files : f \in rows /\ messageId[f] = 0
    BY <1>3, <2>1 DEF PostMessage, Linkable
  <2> DEFINE with == IF r.by \in Internal THEN "STAFF" ELSE "CUSTOMER"
  <2>3. \A f \in r.files : Audience(f) = "UPLOADER" /\ Audience(f)' = with
    BY <1>1, <2>1, <2>2 DEF Audience
  <2>4. \A f \in Files \ r.files : Audience(f)' = Audience(f)
    <3> TAKE f \in Files \ r.files
    <3>1. messageId'[f] = messageId[f]
      BY <2>2
    <3>2. messageId[f] # 0 => messages'[messageId[f]] = messages[messageId[f]]
      BY <2>1, <2>2 DEF Linked
    <3> QED
      BY <1>1, <3>1, <3>2 DEF Audience
  <2>5. Contract!Share(r.files, with)
    BY <2>1, <2>3, <2>4 DEF Contract!Share
  <2> QED
    BY <2>1, <2>5 DEF Contract!Next
<1> QED
  BY <1>1, <1>2, <1>3

LEMMA StepRefines ==
    ASSUME IInv, IInv', [Next]_vars
    PROVE  [Contract!Next]_([f \in Files |-> Audience(f)])
<1>1. CASE UNCHANGED <<rows, messageId, messages>>
  BY <1>1 DEF Audience
<1>2. ASSUME NEW h \in Handlers, Handle(h), ~UNCHANGED <<rows, messageId, messages>>
      PROVE  \/ WriteRow(h) \/ WriteRowFails(h)
             \/ CommitMessage(h) \/ CommitFails(h)
  BY <1>2 DEF Handle, Refuse, StoreObject, StoreFails, UndoStore, CheckTicket, FindFiles,
              Answer, Database
<1>3. ASSUME Next, ~UNCHANGED <<rows, messageId, messages>>
      PROVE  \E h \in Handlers : Handle(h)
  BY <1>3 DEF Next, Write, Submit, AttachFile, Send, RemoveFile, Leave, LoseAnswer, Restart,
              SetStatus, Database
<1> QED
  BY <1>1, <1>2, <1>3, RowKeeps, MessageShares DEF vars

(* The conversation implements FileContract: a file is kept for its        *)
(* uploader, then shared with one audience for good                        *)
(* (uploadTicketAttachment, createPublicReply, createInternalNote).        *)
THEOREM RefinementTheorem == Spec => ImplementsFiles
<1>1. Init => Contract!Init
  BY DEF Init, Contract!Init, Audience
<1> QED
  BY <1>1, Invariance, StepRefines, PTL DEF Spec, ImplementsFiles, Contract!Spec

--------------------------------------------------------------------------------
(* Files on offer *)

\* A request that will offer its files, or post what was offered.
Offers(r) ==
    \/ r.op = "message" /\ r.by \notin Direct
    \/ r.op = "upload" /\ r.pc = "answer" /\ r.done

Offered ==
    {f \in Files : \/ \E c \in Composers : f \in composer[c].files
                   \/ \E h \in Handlers : Offers(request[h]) /\ f \in request[h].files
                   \/ \E n \in DOMAIN messages :
                        messages[n].by \notin Direct /\ f \in messages[n].files}

TakesBack(r) == r.op = "upload" /\ r.pc = "undo"

OInv ==
    /\ Offered \subseteq rows \cap objects
    /\ \A h \in Handlers : TakesBack(request[h]) => request[h].files \cap Offered = {}

LEMMA InitOInv == Init => OInv
<1> SUFFICES ASSUME Init PROVE OInv
  OBVIOUS
<1>1. \A h \in Handlers : request[h].op = "none"
  BY IdleIsRequest DEF Init
<1>2. Offered = {}
  BY <1>1 DEF Init, Offered, Offers
<1> QED
  BY <1>1, <1>2 DEF OInv, TakesBack

\* Nothing new is on offer, and an upload that turns to taking its object
\* back wrote no row before.
LEMMA NothingNew ==
    ASSUME IInv, OInv, Offered' \subseteq Offered,
           rows \subseteq rows', objects \subseteq objects',
           \A h \in Handlers :
              TakesBack(request'[h]) =>
                 /\ request[h].op = "upload" /\ request[h].pc \in {"row", "undo"}
                 /\ request'[h].files = request[h].files
    PROVE  OInv'
<1>1. Offered' \subseteq rows' \cap objects'
  BY DEF OInv
<1>2. ASSUME NEW h \in Handlers, TakesBack(request'[h])
      PROVE  request'[h].files \cap Offered = {}
  <2>1. CASE request[h].pc = "undo"
    BY <1>2, <2>1 DEF OInv, TakesBack
  <2>2. CASE request[h].pc = "row"
    BY <1>2, <2>2 DEF OInv, IInv, Upload
  <2> QED
    BY <1>2, <2>1, <2>2
<1> QED
  BY <1>1, <1>2 DEF OInv, TakesBack

LEMMA ComposerOInv ==
    ASSUME IInv, OInv, NEW c \in Composers, Write(c)
    PROVE  OInv'
<1>1. /\ composer \in [Composers -> Composer] /\ request \in [Handlers -> Request]
      /\ composer[c] \in Composer
  BY DEF IInv, TypeOK
<1>2. UNCHANGED <<objects, rows, messages>>
  BY DEF Write, Submit, AttachFile, Send, RemoveFile, Leave, Database
<1>3. ASSUME NEW h \in Handlers, NEW op, NEW pc, NEW busy, NEW files,
             composer' = [composer EXCEPT ![c].pc = busy],
             pc \in {"store", "check"},
             op = "upload" \/ (c \notin Direct => files = composer[c].files),
             Send(c, h, op, pc, files)
      PROVE  OInv'
  <2> DEFINE r == [op |-> op, pc |-> pc, by |-> c, draft |-> composer[c].draft,
                   files |-> files, done |-> FALSE, waited |-> TRUE]
  <2>1. \A d \in Composers : composer'[d].files = composer[d].files
    BY <1>1, <1>3 DEF Composer
  <2>2. request' = [request EXCEPT ![h] = r]
    BY <1>3 DEF Send
  <2>3. ~TakesBack(r) /\ (Offers(r) => r.files = composer[c].files)
    BY <1>3 DEF Offers, TakesBack
  <2> HIDE DEF r
  <2>4. request'[h] = r /\ \A g \in Handlers \ {h} : request'[g] = request[g]
    BY <1>1, <2>2
  <2>5. Offered' \subseteq Offered
    BY <1>2, <2>1, <2>3, <2>4 DEF Offered
  <2> QED
    BY <1>2, <2>3, <2>4, <2>5, NothingNew DEF TakesBack
<1>4. ASSUME NEW h \in Handlers, Submit(c, h)
      PROVE  OInv'
  <2>1. PICK files : /\ Send(c, h, "message", "check", files)
                     /\ c \notin Direct => files = composer[c].files
    BY <1>4 DEF Submit
  <2> QED
    BY <1>3, <1>4, <2>1 DEF Submit
<1>5. ASSUME NEW h \in Handlers, NEW f \in Files, AttachFile(c, h, f)
      PROVE  OInv'
  BY <1>3, <1>5 DEF AttachFile
<1>6. ASSUME NEW f \in Files, RemoveFile(c, f)
      PROVE  OInv'
  <2>1. UNCHANGED request /\ \A d \in Composers : composer'[d].files \subseteq composer[d].files
    BY <1>1, <1>6 DEF RemoveFile, Composer
  <2>2. Offered' \subseteq Offered
    BY <1>2, <2>1 DEF Offered
  <2> QED
    BY <1>2, <2>1, <2>2, NothingNew DEF TakesBack
<1>7. CASE Leave(c)
  <2>1. \A d \in Composers : composer'[d].files \subseteq composer[d].files
    BY <1>1, <1>7 DEF Leave, Composer
  <2>2. \A h \in Handlers :
          /\ request'[h].op = request[h].op /\ request'[h].pc = request[h].pc
          /\ request'[h].files = request[h].files /\ request'[h].by = request[h].by
          /\ request'[h].done = request[h].done
    BY <1>1, <1>7 DEF Leave, Request
  <2>3. Offered' \subseteq Offered
    BY <1>2, <2>1, <2>2 DEF Offered, Offers
  <2> QED
    BY <1>2, <2>2, <2>3, NothingNew DEF TakesBack
<1> QED
  BY <1>4, <1>5, <1>6, <1>7 DEF Write

\* A handler that goes on without having written anything.
LEMMA MovesOInv ==
    ASSUME IInv, OInv, NEW h \in Handlers, UNCHANGED <<composer, messages>>,
           rows \subseteq rows', objects \subseteq objects',
           \/ Answers(h, FALSE)
           \/ \E pc \in {"row", "find", "commit"} : Goto(h, pc)
           \/ At(h, "upload", "row") /\ Goto(h, "undo")
    PROVE  OInv'
<1>1. request \in [Handlers -> Request] /\ request[h] \in Request
  BY DEF IInv, TypeOK
<1>2. /\ \A g \in Handlers \ {h} : request'[g] = request[g]
      /\ request'[h].op = request[h].op /\ request'[h].by = request[h].by
      /\ request'[h].files = request[h].files
      /\ request'[h].pc = "answer" => ~request'[h].done
      /\ request'[h].pc = "undo" => At(h, "upload", "row")
  BY <1>1 DEF Answers, Goto, Request
<1>3. Offered' \subseteq Offered
  BY <1>2 DEF Offered, Offers
<1> QED
  BY <1>2, <1>3, NothingNew DEF TakesBack, At

\* The row and its object are there when the upload is answered.
LEMMA RowOInv ==
    ASSUME IInv, OInv, NEW h \in Handlers, WriteRow(h)
    PROVE  OInv'
<1>1. request \in [Handlers -> Request] /\ request[h] \in Request
  BY DEF IInv, TypeOK
<1>2. /\ UNCHANGED <<objects, messages, composer>>
      /\ rows' = rows \cup request[h].files
      /\ request[h].op = "upload" /\ request[h].files \subseteq objects
  BY DEF WriteRow, CreateRow, At, IInv, Upload
<1>3. /\ \A g \in Handlers \ {h} : request'[g] = request[g]
      /\ request'[h].pc = "answer" /\ request'[h].files = request[h].files
  BY <1>1 DEF WriteRow, Answers, Request
<1>4. Offered' \subseteq Offered \cup request[h].files
  BY <1>2, <1>3 DEF Offered
<1>5. ASSUME NEW g \in Handlers, TakesBack(request'[g])
      PROVE  request'[g].files \cap Offered' = {}
  <2>1. g # h /\ request'[g] = request[g]
    BY <1>3, <1>5 DEF TakesBack
  <2>2. request[g].files \cap request[h].files = {}
    BY <1>2, <1>5, <2>1 DEF IInv, Apart, TakesBack
  <2>3. request[g].files \cap Offered = {}
    BY <1>5, <2>1 DEF OInv
  <2> QED
    BY <1>4, <2>1, <2>2, <2>3
<1> QED
  BY <1>2, <1>4, <1>5 DEF OInv, TakesBack

\* An upload takes back an object nobody was offered.
LEMMA UndoOInv ==
    ASSUME IInv, OInv, NEW h \in Handlers, UndoStore(h)
    PROVE  OInv'
<1>1. request \in [Handlers -> Request] /\ request[h] \in Request
  BY DEF IInv, TypeOK
<1>2. /\ UNCHANGED <<rows, messages, composer>>
      /\ objects \ request[h].files \subseteq objects'
      /\ request[h].files \cap Offered = {}
  BY DEF UndoStore, At, Database, OInv, TakesBack
<1>3. /\ \A g \in Handlers \ {h} : request'[g] = request[g]
      /\ request'[h].pc = "answer" /\ ~request'[h].done
      /\ request'[h].op = "upload"
  BY <1>1 DEF UndoStore, At, Answers, Request
<1>4. Offered' \subseteq Offered
  BY <1>2, <1>3 DEF Offered, Offers
<1> QED
  BY <1>2, <1>3, <1>4 DEF OInv, TakesBack

\* A message has the files of its request.
LEMMA CommitOInv ==
    ASSUME IInv, OInv, NEW h \in Handlers, CommitMessage(h) \/ CommitFails(h)
    PROVE  OInv'
<1> DEFINE r == request[h]
           m == [by |-> r.by, draft |-> r.draft, files |-> r.files]
<1>1. /\ request \in [Handlers -> Request] /\ r \in Request
      /\ messages \in Seq(Message) /\ m \in Message
  BY DEF IInv, TypeOK, Request, Message
<1>2. /\ UNCHANGED <<objects, rows, composer>>
      /\ r.op = "message"
      /\ UNCHANGED messages \/ messages' = Append(messages, m)
  BY DEF CommitMessage, CommitFails, PostMessage, At
<1>3. /\ \A g \in Handlers \ {h} : request'[g] = request[g]
      /\ request'[h].op = "message" /\ request'[h].by = r.by /\ request'[h].files = r.files
  BY <1>1, <1>2 DEF CommitMessage, CommitFails, Answers, Request
<1>4. m.by = r.by /\ m.files = r.files
  OBVIOUS
<1> HIDE DEF m
<1>5. \A n \in DOMAIN messages' :
         messages'[n] = m \/ (n \in DOMAIN messages /\ messages'[n] = messages[n])
  BY <1>1, <1>2
<1>6. Offered' \subseteq Offered
  <2> SUFFICES ASSUME NEW f \in Offered' PROVE f \in Offered
    OBVIOUS
  <2>1. CASE \E c \in Composers : f \in composer'[c].files
    BY <1>2, <2>1 DEF Offered
  <2>2. CASE \E g \in Handlers : Offers(request'[g]) /\ f \in request'[g].files
    BY <1>2, <1>3, <2>2 DEF Offered, Offers
  <2>3. CASE \E n \in DOMAIN messages' :
                messages'[n].by \notin Direct /\ f \in messages'[n].files
    BY <1>2, <1>4, <1>5, <2>3 DEF Offered, Offers
  <2> QED
    BY <2>1, <2>2, <2>3 DEF Offered, Offers
<1> QED
  BY <1>2, <1>3, <1>6, NothingNew DEF TakesBack

\* A composer takes over the file of an upload that was answered.
LEMMA AnswerOInv ==
    ASSUME IInv, OInv, NEW h \in Handlers, Answer(h) \/ LoseAnswer(h)
    PROVE  OInv'
<1> DEFINE r == request[h]
<1>1. /\ composer \in [Composers -> Composer] /\ request \in [Handlers -> Request]
      /\ r \in Request /\ r.by \in Composers /\ composer[r.by] \in Composer
      /\ UNCHANGED <<objects, rows, messages>>
  BY DEF IInv, TypeOK, Request, Answer, LoseAnswer, Database
<1>2. \A d \in Composers :
         \/ composer'[d].files \subseteq composer[d].files
         \/ Offers(r) /\ composer'[d].files \subseteq composer[d].files \cup r.files
  <2>1. CASE Answer(h)
    BY <1>1, <2>1 DEF Answer, Answered, Offers, Composer
  <2>2. CASE LoseAnswer(h)
    BY <1>1, <2>2 DEF LoseAnswer, Composer
  <2> QED
    BY <2>1, <2>2
<1>3. /\ \A g \in Handlers \ {h} : request'[g] = request[g]
      /\ \/ request'[h].op = "none"
         \/ /\ request'[h].op = r.op /\ request'[h].pc = r.pc /\ request'[h].by = r.by
            /\ request'[h].files = r.files /\ request'[h].done = r.done
  <2>1. CASE Answer(h)
    BY <1>1, <2>1, IdleIsRequest DEF Answer
  <2>2. CASE LoseAnswer(h)
    BY <1>1, <2>2 DEF LoseAnswer, Request
  <2> QED
    BY <2>1, <2>2
<1>4. Offered' \subseteq Offered
  <2> SUFFICES ASSUME NEW f \in Offered' PROVE f \in Offered
    OBVIOUS
  <2>1. CASE \E c \in Composers : f \in composer'[c].files
    BY <1>2, <2>1 DEF Offered
  <2>2. CASE \E g \in Handlers : Offers(request'[g]) /\ f \in request'[g].files
    BY <1>3, <2>2 DEF Offered, Offers
  <2>3. CASE \E n \in DOMAIN messages :
                messages[n].by \notin Direct /\ f \in messages[n].files
    BY <2>3 DEF Offered
  <2> QED
    BY <1>1, <2>1, <2>2, <2>3 DEF Offered, Offers
<1> QED
  BY <1>1, <1>3, <1>4, NothingNew DEF TakesBack

LEMMA NextOInv == IInv /\ OInv /\ [Next]_vars => OInv'
<1> SUFFICES ASSUME IInv, OInv, [Next]_vars PROVE OInv'
  OBVIOUS
<1>1. ASSUME NEW h \in Handlers, Handle(h)
      PROVE  OInv'
  <2>1. CASE Refuse(h) \/ StoreObject(h) \/ StoreFails(h) \/ WriteRowFails(h)
    BY <2>1, MovesOInv
       DEF Refuse, StoreObject, StoreFails, WriteRowFails, CreateRow, Database
  <2>2. CASE CheckTicket(h) \/ FindFiles(h)
    BY <2>2, MovesOInv DEF CheckTicket, FindFiles, Database
  <2> QED
    BY <1>1, <2>1, <2>2, RowOInv, UndoOInv, CommitOInv, AnswerOInv DEF Handle
<1>2. CASE Restart
  <2>1. \A h \in Handlers : request'[h].op = "none"
    BY <1>2, IdleIsRequest DEF Restart
  <2>2. \A c \in Composers : composer'[c].files = composer[c].files
    BY <1>2 DEF Restart, IInv, TypeOK, Composer
  <2>3. Offered' \subseteq Offered
    BY <1>2, <2>1, <2>2 DEF Offered, Offers, Restart, Database
  <2> QED
    BY <1>2, <2>1, <2>3, NothingNew DEF TakesBack, Restart, Database
<1>3. CASE SetStatus \/ UNCHANGED vars
  BY <1>3 DEF OInv, Offered, Offers, TakesBack, SetStatus, vars, Database
<1> QED
  BY <1>1, <1>2, <1>3, ComposerOInv, AnswerOInv DEF Next

(* What a composer offers and what was posted from one has its row and its *)
(* object, whatever statement, upload or commit fails or goes unanswered   *)
(* (uploadTicketAttachment and its catch, createPublicReply).              *)
THEOREM OfferedTheorem == Spec => []OfferedFilesExist
<1>1. IInv /\ OInv => OfferedFilesExist
  <2> SUFFICES ASSUME IInv, OInv PROVE OfferedFilesExist
    OBVIOUS
  <2>1. \A c \in Composers : composer[c].files \subseteq Files
    BY DEF IInv, TypeOK, Composer
  <2>2. \A n \in DOMAIN messages : messages[n].files \subseteq Files
    <3>1. messages \in Seq(Message)
      BY DEF IInv, TypeOK
    <3>2. \A n \in DOMAIN messages : messages[n] \in Message
      BY <3>1
    <3> QED
      BY <3>2 DEF Message
  <2> QED
    BY <2>1, <2>2 DEF OInv, Offered, OfferedFilesExist
<1> QED
  BY <1>1, Invariance, InitOInv, NextOInv, PTL DEF Spec

--------------------------------------------------------------------------------
(* Composers and the answers they wait for *)

\* A request that is waited for is the one its composer is busy with.
Waits(r) ==
    r.waited =>
      /\ r.op # "none"
      /\ composer[r.by].pc = IF r.op = "upload" THEN "uploading" ELSE "submitting"
      /\ composer[r.by].draft = r.draft
      /\ r.op = "message" /\ r.by \notin Direct => r.files = composer[r.by].files

OneWaits ==
    \A g, h \in Handlers :
        g # h /\ request[g].waited /\ request[h].waited => request[g].by # request[h].by

\* A message handler that succeeds has posted.
Posted(r) ==
    r.op = "message" /\ r.done =>
      \E n \in DOMAIN messages :
         messages[n].by = r.by /\ messages[n].draft = r.draft /\ messages[n].files = r.files

CInv ==
    /\ TypeOK
    /\ \A h \in Handlers : Waits(request[h]) /\ Posted(request[h])
    /\ OneWaits

LEMMA InitCInv == Init => CInv
<1> SUFFICES ASSUME Init PROVE CInv
  OBVIOUS
<1>1. \A h \in Handlers : /\ request[h] = Idle
                          /\ ~request[h].waited /\ request[h].op = "none"
  BY DEF Init, Idle
<1>2. TypeOK
  BY InitIInv DEF IInv
<1> QED
  BY <1>1, <1>2 DEF CInv, Waits, Posted, OneWaits

\* Messages are only ever added.
LEMMA MessagesStay ==
    ASSUME TypeOK, TypeOK', NEW r,
           UNCHANGED messages \/ \E m \in Message : messages' = Append(messages, m),
           Posted(r)
    PROVE  Posted(r)'
<1>1. messages \in Seq(Message) /\ Len(messages) \in Nat
  BY DEF TypeOK
<1>2. \A n \in DOMAIN messages : n \in DOMAIN messages' /\ messages'[n] = messages[n]
  BY <1>1
<1> QED
  BY <1>2 DEF Posted

LEMMA ComposerCInv ==
    ASSUME CInv, TypeOK', NEW c \in Composers, Write(c)
    PROVE  CInv'
<1>1. /\ composer \in [Composers -> Composer] /\ request \in [Handlers -> Request]
      /\ composer[c] \in Composer
      /\ \A h \in Handlers : request[h] \in Request /\ request[h].by \in Composers
  BY DEF CInv, TypeOK, Request
<1>2. UNCHANGED messages
  BY DEF Write, Submit, AttachFile, Send, RemoveFile, Leave, Database
<1>3. composer[c].pc = "writing" => \A h \in Handlers : request[h].waited => request[h].by # c
  BY DEF CInv, Waits
<1>4. \A d \in Composers \ {c} : composer'[d] = composer[d]
  BY <1>1 DEF Write, Submit, AttachFile, RemoveFile, Leave
<1>5. ASSUME NEW h \in Handlers, NEW op \in {"upload", "message"}, NEW pc, NEW files,
             composer[c].pc = "writing",
             composer' = [composer EXCEPT ![c].pc =
                            IF op = "upload" THEN "uploading" ELSE "submitting"],
             op = "message" /\ c \notin Direct => files = composer[c].files,
             Send(c, h, op, pc, files)
      PROVE  CInv'
  <2> DEFINE r == [op |-> op, pc |-> pc, by |-> c, draft |-> composer[c].draft,
                   files |-> files, done |-> FALSE, waited |-> TRUE]
  <2>1. /\ request' = [request EXCEPT ![h] = r]
        /\ r.by = c /\ r.op = op /\ r.files = files /\ ~r.done
        /\ r.draft = composer[c].draft
    BY <1>5 DEF Send
  <2>2. /\ composer'[c].pc = IF op = "upload" THEN "uploading" ELSE "submitting"
        /\ composer'[c].draft = composer[c].draft /\ composer'[c].files = composer[c].files
    BY <1>1, <1>5 DEF Composer
  <2> HIDE DEF r
  <2>3. request'[h] = r /\ \A g \in Handlers \ {h} : request'[g] = request[g]
    BY <1>1, <2>1
  <2>4. ASSUME NEW g \in Handlers
        PROVE  Waits(request[g])' /\ Posted(request[g])'
    <3>1. CASE g = h
      BY <1>5, <2>1, <2>2, <2>3, <3>1 DEF Waits, Posted
    <3>2. CASE g # h
      <4>1. request'[g] = request[g] /\ Waits(request[g]) /\ Posted(request[g])
        BY <2>3, <3>2 DEF CInv
      <4>2. request[g].waited => composer'[request[g].by] = composer[request[g].by]
        BY <1>1, <1>3, <1>4, <1>5
      <4> QED
        BY <1>2, <4>1, <4>2 DEF Waits, Posted
    <3> QED
      BY <3>1, <3>2
  <2>5. OneWaits'
    BY <1>3, <1>5, <2>1, <2>3 DEF CInv, OneWaits
  <2> QED
    BY <2>4, <2>5 DEF CInv
<1>6. ASSUME NEW h \in Handlers, Submit(c, h)
      PROVE  CInv'
  <2>1. PICK files : /\ Send(c, h, "message", "check", files)
                     /\ c \notin Direct => files = composer[c].files
    BY <1>6 DEF Submit
  <2> QED
    BY <1>5, <1>6, <2>1 DEF Submit
<1>7. ASSUME NEW h \in Handlers, NEW f \in Files, AttachFile(c, h, f)
      PROVE  CInv'
  BY <1>5, <1>7 DEF AttachFile
<1>8. ASSUME NEW f \in Files, RemoveFile(c, f)
      PROVE  CInv'
  <2>1. UNCHANGED request /\ composer[c].pc = "writing"
    BY <1>8 DEF RemoveFile
  <2>2. ASSUME NEW g \in Handlers
        PROVE  Waits(request[g])' /\ Posted(request[g])'
    <3>1. Waits(request[g]) /\ Posted(request[g])
      BY DEF CInv
    <3>2. request[g].waited => composer'[request[g].by] = composer[request[g].by]
      BY <1>1, <1>3, <1>4, <2>1
    <3> QED
      BY <1>2, <2>1, <3>1, <3>2 DEF Waits, Posted
  <2> QED
    BY <2>1, <2>2 DEF CInv, OneWaits
<1>9. CASE Leave(c)
  <2>1. \A g \in Handlers :
          request'[g] = IF request[g].by = c THEN [request[g] EXCEPT !.waited = FALSE]
                                             ELSE request[g]
    BY <1>9 DEF Leave
  <2>2. \A g \in Handlers :
          /\ request'[g].waited => request[g].by # c /\ request'[g] = request[g]
          /\ request'[g].op = request[g].op /\ request'[g].done = request[g].done
          /\ request'[g].by = request[g].by /\ request'[g].draft = request[g].draft
          /\ request'[g].files = request[g].files
    BY <1>1, <2>1 DEF Request
  <2>3. ASSUME NEW g \in Handlers
        PROVE  Waits(request[g])' /\ Posted(request[g])'
    <3>1. Waits(request[g]) /\ Posted(request[g])
      BY DEF CInv
    <3>2. request'[g].waited => composer'[request[g].by] = composer[request[g].by]
      BY <1>1, <1>4, <2>2
    <3>3. Waits(request[g])'
      BY <2>2, <3>1, <3>2 DEF Waits
    <3>4. Posted(request[g])'
      BY <1>2, <2>2, <3>1 DEF Posted
    <3> QED
      BY <3>3, <3>4
  <2> QED
    BY <2>2, <2>3 DEF CInv, OneWaits
<1> QED
  BY <1>6, <1>7, <1>8, <1>9 DEF Write

\* A handler goes on; it succeeds with a message only when it has posted it.
LEMMA HandlerCInv ==
    ASSUME CInv, TypeOK', NEW h \in Handlers, Handle(h), ~Answer(h)
    PROVE  CInv'
<1> DEFINE r == request[h]
<1>1. /\ request \in [Handlers -> Request] /\ r \in Request
      /\ messages \in Seq(Message) /\ Len(messages) \in Nat
      /\ composer \in [Composers -> Composer]
  BY DEF CInv, TypeOK
<1>2. UNCHANGED composer
  BY DEF Handle, Refuse, StoreObject, StoreFails, WriteRow, WriteRowFails, UndoStore,
         CheckTicket, FindFiles, CommitMessage, CommitFails
<1>3. /\ \A g \in Handlers \ {h} : request'[g] = request[g]
      /\ request'[h].op = r.op /\ request'[h].by = r.by /\ request'[h].draft = r.draft
      /\ request'[h].files = r.files /\ request'[h].waited = r.waited
      /\ \/ r.op = "upload"
         \/ ~request'[h].done \/ request'[h].done = r.done
         \/ PostMessage(r)
  <2>1. ASSUME NEW pc, Goto(h, pc)
        PROVE  <1>3
    BY <1>1, <2>1 DEF Goto, Request
  <2>2. CASE Answers(h, FALSE)
    BY <1>1, <2>2 DEF Answers, Request
  <2>3. CASE Answers(h, TRUE) /\ (r.op = "upload" \/ PostMessage(r))
    BY <1>1, <2>3 DEF Answers, Request
  <2> QED
    BY <2>1, <2>2, <2>3
       DEF Handle, Refuse, StoreObject, StoreFails, WriteRow, WriteRowFails, UndoStore,
           CheckTicket, FindFiles, CommitMessage, CommitFails, At
<1>4. UNCHANGED messages \/ PostMessage(r)
  BY DEF Handle, Refuse, StoreObject, StoreFails, WriteRow, WriteRowFails, UndoStore,
         CheckTicket, FindFiles, CommitMessage, CommitFails, Database
<1>5. \A q : Posted(q) => Posted(q)'
  <2>1. [by |-> r.by, draft |-> r.draft, files |-> r.files] \in Message
    BY <1>1 DEF Request, Message
  <2>2. UNCHANGED messages \/ \E m \in Message : messages' = Append(messages, m)
    BY <1>4, <2>1 DEF PostMessage
  <2> QED
    BY <2>2, MessagesStay DEF CInv
<1>6. Posted(request[h])'
  <2>1. CASE PostMessage(r)
    <3>1. /\ Len(messages) + 1 \in DOMAIN messages'
          /\ messages'[Len(messages) + 1]
               = [by |-> r.by, draft |-> r.draft, files |-> r.files]
      BY <1>1, <2>1 DEF PostMessage
    <3> QED
      BY <1>3, <3>1 DEF Posted
  <2>2. CASE ~PostMessage(r)
    <3>1. Posted(r) /\ UNCHANGED messages
      BY <1>4, <2>2 DEF CInv
    <3> QED
      BY <1>3, <2>2, <3>1 DEF Posted
  <2> QED
    BY <2>1, <2>2
<1>7. ASSUME NEW g \in Handlers
       PROVE  Waits(request[g])' /\ Posted(request[g])'
  <2>1. CASE g = h
    <3>1. Waits(r)
      BY DEF CInv
    <3> QED
      BY <1>2, <1>3, <1>6, <2>1, <3>1 DEF Waits
  <2>2. CASE g # h
    <3>1. request'[g] = request[g] /\ Waits(request[g]) /\ Posted(request[g])
      BY <1>3, <2>2 DEF CInv
    <3> QED
      BY <1>2, <1>5, <3>1 DEF Waits, Posted
  <2> QED
    BY <2>1, <2>2
<1>8. OneWaits'
  BY <1>3 DEF CInv, OneWaits
<1> QED
  BY <1>7, <1>8 DEF CInv

LEMMA AnswerCInv ==
    ASSUME CInv, TypeOK', NEW h \in Handlers, Answer(h) \/ LoseAnswer(h)
    PROVE  CInv'
<1> DEFINE r == request[h]
<1>1. /\ request \in [Handlers -> Request] /\ r \in Request /\ r.by \in Composers
      /\ composer \in [Composers -> Composer] /\ UNCHANGED messages
  BY DEF CInv, TypeOK, Request, Answer, LoseAnswer, Database
<1>2. /\ ~r.waited => composer' = composer
      /\ \A d \in Composers \ {r.by} : composer'[d] = composer[d]
  BY <1>1 DEF Answer, LoseAnswer
<1>3. /\ \A g \in Handlers \ {h} : request'[g] = request[g]
      /\ ~request'[h].waited
      /\ request'[h].op = "none" \/ /\ request'[h].op = r.op /\ request'[h].done = r.done
                                    /\ request'[h].by = r.by /\ request'[h].draft = r.draft
                                    /\ request'[h].files = r.files
  <2>1. CASE Answer(h)
    BY <1>1, <2>1 DEF Answer, Idle
  <2>2. CASE LoseAnswer(h)
    BY <1>1, <2>2 DEF LoseAnswer, Request
  <2> QED
    BY <2>1, <2>2
<1>4. ASSUME NEW g \in Handlers
      PROVE  Waits(request[g])' /\ Posted(request[g])'
  <2>1. CASE g = h
    <3>1. Posted(r)
      BY DEF CInv
    <3> QED
      BY <1>1, <1>3, <2>1, <3>1 DEF Waits, Posted
  <2>2. CASE g # h
    <3>1. request'[g] = request[g] /\ Waits(request[g]) /\ Posted(request[g])
      BY <1>3, <2>2 DEF CInv
    <3>2. request[g].waited => composer'[request[g].by] = composer[request[g].by]
      <4>1. request[g].waited /\ r.waited => request[g].by # r.by
        BY <2>2 DEF CInv, OneWaits
      <4>2. request[g].by \in Composers
        BY <1>1 DEF Request
      <4> QED
        BY <1>2, <4>1, <4>2
    <3> QED
      BY <1>1, <3>1, <3>2 DEF Waits, Posted
  <2> QED
    BY <2>1, <2>2
<1>5. OneWaits'
  BY <1>3 DEF CInv, OneWaits
<1> QED
  BY <1>4, <1>5 DEF CInv

LEMMA NextCInv == CInv /\ TypeOK' /\ [Next]_vars => CInv'
<1> SUFFICES ASSUME CInv, TypeOK', [Next]_vars PROVE CInv'
  OBVIOUS
<1>1. CASE Restart
  <2>1. \A h \in Handlers : ~request'[h].waited /\ request'[h].op = "none"
    BY <1>1 DEF Restart, Idle
  <2> QED
    BY <2>1 DEF CInv, Waits, Posted, OneWaits
<1>2. CASE SetStatus \/ UNCHANGED vars
  BY <1>2 DEF CInv, Waits, Posted, OneWaits, SetStatus, vars, Database
<1> QED
  BY <1>1, <1>2, ComposerCInv, HandlerCInv, AnswerCInv DEF Next

LEMMA CInvariance == Spec => []CInv
<1>1. IInv => TypeOK
  BY DEF IInv
<1> QED
  BY <1>1, Invariance, InitCInv, NextCInv, PTL DEF Spec

(* A composer clears its draft only when that draft is posted, with the    *)
(* files it shows, whatever answers were lost or late (the composers of    *)
(* the ticket page).                                                       *)
THEOREM ClearedTheorem == Spec => ClearedIsPosted
<1> DEFINE Cleared ==
      \A c \in Composers :
         /\ composer[c].pc = "submitting"
         /\ composer'[c].pc = "writing"
         /\ composer'[c].draft # composer[c].draft
         => \E n \in DOMAIN messages :
              /\ messages[n].by = c /\ messages[n].draft = composer[c].draft
              /\ c \notin Direct => messages[n].files = composer[c].files
<1>1. CInv /\ [Next]_vars => [Cleared]_vars
  <2> SUFFICES ASSUME CInv, Next, NEW c \in Composers,
                      composer[c].pc = "submitting", composer'[c].pc = "writing",
                      composer'[c].draft # composer[c].draft
               PROVE  \E n \in DOMAIN messages :
                         /\ messages[n].by = c /\ messages[n].draft = composer[c].draft
                         /\ c \notin Direct => messages[n].files = composer[c].files
    BY DEF vars
  <2>1. composer \in [Composers -> Composer] /\ request \in [Handlers -> Request]
    BY DEF CInv, TypeOK
  <2>2. ASSUME NEW d \in Composers, Write(d)
        PROVE  FALSE
    <3>1. composer[c] \in Composer /\ composer[d] \in Composer
      BY <2>1
    <3>2. CASE \E f \in Files : RemoveFile(d, f)
      BY <2>1, <3>1, <3>2 DEF RemoveFile, Composer
    <3>3. CASE \E h \in Handlers : Submit(d, h)
      BY <2>1, <3>1, <3>3 DEF Submit, Composer
    <3>4. CASE \E h \in Handlers, f \in Files : AttachFile(d, h, f)
      BY <2>1, <3>1, <3>4 DEF AttachFile, Composer
    <3>5. CASE Leave(d)
      BY <2>1, <3>1, <3>5 DEF Leave, Composer
    <3> QED
      BY <2>2, <3>2, <3>3, <3>4, <3>5 DEF Write
  <2>3. ~(Restart \/ SetStatus \/ \E h \in Handlers : LoseAnswer(h))
    <3>1. composer[c] \in Composer
      BY <2>1
    <3>2. ~Restart
      BY <2>1, <3>1 DEF Restart, Composer
    <3>3. ASSUME NEW h \in Handlers, LoseAnswer(h)
          PROVE  FALSE
      <4>1. /\ composer' = [composer EXCEPT ![request[h].by].pc = "writing"]
            /\ request[h].by \in Composers
        BY <2>1, <3>3 DEF LoseAnswer, Request
      <4> QED
        BY <2>1, <3>1, <4>1 DEF Composer
    <3> QED
      BY <3>2, <3>3 DEF SetStatus
  <2>4. PICK h \in Handlers : Handle(h)
    BY <2>2, <2>3 DEF Next
  <2>5. Answer(h)
    BY <2>4 DEF Handle, Refuse, StoreObject, StoreFails, WriteRow, WriteRowFails, UndoStore,
                CheckTicket, FindFiles, CommitMessage, CommitFails
  <2> DEFINE r == request[h]
  <2>6. r.waited /\ r.by = c /\ r.done /\ r \in Request
    BY <2>1, <2>5 DEF Answer, Answered, Composer
  <2>7. Waits(r) /\ Posted(r)
    BY DEF CInv
  <2>8. r.op = "message"
    BY <2>6, <2>7 DEF Waits, Request
  <2> QED
    BY <2>6, <2>7, <2>8 DEF Waits, Posted
<1> QED
  BY <1>1, CInvariance, PTL DEF Spec, ClearedIsPosted

================================================================================
