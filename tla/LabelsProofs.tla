------------------------------ MODULE LabelsProofs ------------------------------
(***************************************************************************)
(* Proofs about Labels: types, and what a replacement of tags may take     *)
(* away and says it added, for any number of links and requests.           *)
(*                                                                         *)
(* The invariant holds request by request what its transaction may have    *)
(* touched (Local), that no row has two open writers, and that an open     *)
(* insert never meets a committed row it does not delete itself (New).     *)
(***************************************************************************)
EXTENDS Labels, TLAPS

Transaction == {"delete", "lock", "insert"}

(* What a request deletes and inserts stays within what it read and what   *)
(* it computed from that; nothing outlives the transaction.                *)
Local(r) ==
    /\ r.todo \subseteq r.removed
    /\ r.deleted \subseteq r.removed
    /\ r.inserted \subseteq r.added
    /\ r.pc \in Transaction => r.op \in {"tags", "teams"}
    /\ r.op = "tags" /\ r.pc \in Transaction =>
         r.removed \subseteq r.seen /\ r.added \cap r.removed = {}
    /\ r.pc # "lock" => r.todo = {}
    /\ r.pc # "insert" => r.inserted = {}
    /\ r.pc \notin {"lock", "insert"} => r.deleted = {}

\* Rows still to be locked are there, rows inserted are not, in others' eyes.
New(r) ==
    /\ r.pc = "lock" => r.todo \subseteq linked[r.op]
    /\ r.pc = "insert" => r.inserted \cap (linked[r.op] \ r.deleted) = {}

Touched(r) == r.deleted \cup r.inserted

IInv ==
    /\ TypeOK
    /\ \A h \in Handlers : Local(request[h]) /\ New(request[h])
    /\ LinksHaveOneWriter

\* A step of one request that commits nothing only has to keep its own record right.
LEMMA OneRequest ==
    ASSUME IInv, NEW h \in Handlers, NEW r \in Request,
           request' = [request EXCEPT ![h] = r], linked' = linked,
           field' \in Values, told' \in [from : Values, to : Values],
           Local(r), New(r),
           \A g \in Handlers \ {h} :
              request[g].op = r.op => Touched(r) \cap Touched(request[g]) = {}
    PROVE  IInv'
<1>1. TypeOK'
  BY DEF IInv, TypeOK
<1>2. /\ request'[h] = r
      /\ \A g \in Handlers \ {h} : request'[g] = request[g]
  BY DEF IInv, TypeOK
<1>3. \A g \in Handlers : Local(request[g])' /\ New(request[g])'
  <2> TAKE g \in Handlers
  <2>1. CASE g = h
    BY <1>2, <2>1 DEF Local, New
  <2>2. CASE g # h
    BY <1>2, <2>2 DEF IInv, Local, New
  <2> QED
    BY <2>1, <2>2
<1>4. LinksHaveOneWriter'
  BY <1>2 DEF IInv, LinksHaveOneWriter, Others, Touched
<1> QED
  BY <1>1, <1>3, <1>4 DEF IInv

\* In particular if it touches no row.
LEMMA UntouchedRequest ==
    ASSUME IInv, NEW h \in Handlers, NEW r \in Request,
           request' = [request EXCEPT ![h] = r], linked' = linked,
           field' \in Values, told' \in [from : Values, to : Values],
           Local(r), New(r), r.deleted = {}, r.inserted = {}
    PROVE  IInv'
<1>1. \A g \in Handlers \ {h} : Touched(r) \cap Touched(request[g]) = {}
  BY DEF Touched
<1> QED
  BY <1>1, OneRequest

LEMMA IdleIsGood ==
    /\ Idle \in Request /\ Local(Idle) /\ New(Idle) /\ Touched(Idle) = {}
<1>1. SomeValue \in Values
  BY LabelsAssumption DEF SomeValue
<1> QED
  BY <1>1 DEF Idle, Request, OpName, Local, New, Touched, Transaction

\* A request that ends leaves nothing behind.
LEMMA FinishIInv ==
    ASSUME IInv, NEW h \in Handlers, Finish(h), linked' = linked,
           field' \in Values, told' \in [from : Values, to : Values]
    PROVE  IInv'
  BY OneRequest, IdleIsGood DEF Finish

LEMMA InitIInv == Init => IInv
<1> SUFFICES ASSUME Init PROVE IInv
  OBVIOUS
<1>1. SomeValue \in Values
  BY LabelsAssumption DEF SomeValue
<1>2. \A h \in Handlers : request[h] = Idle
  BY DEF Init
<1> QED
  BY <1>1, <1>2, IdleIsGood DEF Init, IInv, TypeOK, LinksHaveOneWriter, Others, Touched, New

--------------------------------------------------------------------------------
(* The steps of one request *)

LEMMA BeginIInv ==
    ASSUME IInv, NEW h \in Handlers, Begin(h)
    PROVE  IInv'
<1>1. SomeValue \in Values /\ field \in Values /\ told \in [from : Values, to : Values]
  BY LabelsAssumption DEF SomeValue, IInv, TypeOK
<1>2. ASSUME NEW wanted \in SUBSET Links, BeginTags(h, wanted)
      PROVE  IInv'
  <2> DEFINE r == [Idle EXCEPT !.op = "tags", !.pc = "read", !.wanted = wanted]
  <2>1. /\ r \in Request /\ Local(r) /\ New(r) /\ r.deleted = {} /\ r.inserted = {}
        /\ request' = [request EXCEPT ![h] = r]
    BY <1>1, <1>2 DEF BeginTags, Idle, Request, OpName, Local, New, Transaction
  <2> HIDE DEF r
  <2> QED
    BY <1>1, <1>2, <2>1, UntouchedRequest DEF BeginTags
<1>3. ASSUME NEW wanted \in SUBSET Links, BeginTeams(h, wanted)
      PROVE  IInv'
  <2> DEFINE r == [Idle EXCEPT !.op = "teams", !.pc = "delete", !.wanted = wanted,
                               !.removed = Links, !.added = wanted]
  <2>1. /\ r \in Request /\ Local(r) /\ New(r) /\ r.deleted = {} /\ r.inserted = {}
        /\ request' = [request EXCEPT ![h] = r]
    BY <1>1, <1>3 DEF BeginTeams, Idle, Request, OpName, Local, New, Transaction
  <2> HIDE DEF r
  <2> QED
    BY <1>1, <1>3, <2>1, UntouchedRequest DEF BeginTeams
<1>4. ASSUME NEW to \in Values, BeginField(h, to)
      PROVE  IInv'
  <2> DEFINE r == [Idle EXCEPT !.op = "field", !.pc = "read", !.to = to]
  <2>1. /\ r \in Request /\ Local(r) /\ New(r) /\ r.deleted = {} /\ r.inserted = {}
        /\ request' = [request EXCEPT ![h] = r]
    BY <1>1, <1>4 DEF BeginField, Idle, Request, OpName, Local, New, Transaction
  <2> HIDE DEF r
  <2> QED
    BY <1>1, <1>4, <2>1, UntouchedRequest DEF BeginField
<1> QED
  BY <1>2, <1>3, <1>4 DEF Begin

LEMMA ReadIInv ==
    ASSUME IInv, NEW h \in Handlers, ReadTags(h) \/ ReadField(h) \/ WriteField(h)
    PROVE  IInv'
<1>1. /\ field \in Values /\ told \in [from : Values, to : Values]
      /\ request \in [Handlers -> Request] /\ request[h] \in Request
      /\ linked["tags"] \subseteq Links
      /\ Local(request[h])
  BY DEF IInv, TypeOK
<1>2. CASE Finish(h)
  BY <1>1, <1>2, FinishIInv DEF ReadTags, ReadField, WriteField, Request
<1>3. CASE ReadTags(h) /\ ~Finish(h)
  <2> DEFINE r == [request[h] EXCEPT !.seen = linked["tags"],
                                     !.added = request[h].wanted \ linked["tags"],
                                     !.removed = RemovedTags(linked["tags"], request[h].wanted),
                                     !.pc = "delete"]
  <2>1. request' = [request EXCEPT ![h] = r]
    BY <1>1, <1>3 DEF ReadTags
  <2>2. r \in Request
    BY <1>1, <1>3 DEF Request, RemovedTags
  <2>3. Local(r) /\ New(r) /\ r.deleted = {} /\ r.inserted = {}
    BY <1>1, <1>3 DEF Local, New, Transaction, Request, RemovedTags, ReadTags
  <2> HIDE DEF r
  <2> QED
    BY <1>1, <1>3, <2>1, <2>2, <2>3, UntouchedRequest DEF ReadTags
<1>4. CASE ReadField(h) /\ ~Finish(h)
  <2> DEFINE r == [request[h] EXCEPT !.from = field, !.pc = "write"]
  <2>1. request' = [request EXCEPT ![h] = r]
    BY <1>1, <1>4 DEF ReadField
  <2>2. r \in Request
    BY <1>1, <1>4 DEF Request
  <2>3. Local(r) /\ New(r) /\ r.deleted = {} /\ r.inserted = {}
    BY <1>1, <1>4 DEF Local, New, Transaction, Request, ReadField
  <2> HIDE DEF r
  <2> QED
    BY <1>1, <1>4, <2>1, <2>2, <2>3, UntouchedRequest DEF ReadField
<1> QED
  BY <1>2, <1>3, <1>4 DEF WriteField

\* Rows are locked one after the other, and inserted where no other is at work.
LEMMA DeleteIInv ==
    ASSUME IInv, NEW h \in Handlers,
           StartDelete(h) \/ StartInsert(h) \/ \E l \in Links : DeleteRow(h, l)
    PROVE  IInv'
<1>1. /\ field \in Values /\ told \in [from : Values, to : Values]
      /\ request \in [Handlers -> Request] /\ request[h] \in Request
      /\ linked \in [{"tags", "teams"} -> SUBSET Links]
      /\ Local(request[h]) /\ New(request[h])
      /\ \A g \in Handlers \ {h} : request[g].op = request[h].op =>
            Touched(request[h]) \cap Touched(request[g]) = {}
  BY DEF IInv, TypeOK, LinksHaveOneWriter, Others, Touched
<1>2. CASE StartDelete(h)
  <2> DEFINE r == [request[h] EXCEPT
                      !.todo = @ \cup (linked[request[h].op] \cap request[h].removed),
                      !.pc = "lock"]
  <2>1. request' = [request EXCEPT ![h] = r]
    BY <1>1, <1>2 DEF StartDelete
  <2>2. r \in Request
    BY <1>1, <1>2 DEF Request, StartDelete, Local, Transaction
  <2>3. Local(r) /\ New(r) /\ r.deleted = {} /\ r.inserted = {}
    BY <1>1, <1>2 DEF Local, New, Transaction, Request, StartDelete
  <2> HIDE DEF r
  <2> QED
    BY <1>1, <1>2, <2>1, <2>2, <2>3, UntouchedRequest DEF StartDelete
<1>3. CASE StartInsert(h)
  <2> DEFINE r == [request[h] EXCEPT !.pc = "insert"]
  <2>1. request' = [request EXCEPT ![h] = r]
    BY <1>1, <1>3 DEF StartInsert
  <2>2. /\ r \in Request /\ r.op = request[h].op /\ Touched(r) = Touched(request[h])
        /\ r.inserted = {}
    BY <1>1, <1>3 DEF Request, StartInsert, Local, Touched
  <2>3. Local(r) /\ New(r)
    BY <1>1, <1>3, <2>2 DEF Local, New, Transaction, Request, StartInsert
  <2> HIDE DEF r
  <2>4. /\ linked' = linked /\ field' \in Values /\ told' \in [from : Values, to : Values]
        /\ \A g \in Handlers \ {h} :
              request[g].op = r.op => Touched(r) \cap Touched(request[g]) = {}
    BY <1>1, <1>3, <2>2 DEF StartInsert
  <2> QED
    BY <2>1, <2>2, <2>3, <2>4, OneRequest
<1>4. ASSUME NEW l \in Links, DeleteRow(h, l)
      PROVE  IInv'
  <2> DEFINE r == [request[h] EXCEPT !.todo = @ \ {l}, !.deleted = @ \cup {l}]
  <2>1. request' = [request EXCEPT ![h] = r]
    BY <1>1, <1>4 DEF DeleteRow
  <2>2. r \in Request /\ r.op = request[h].op /\ r.pc = "lock"
    BY <1>1, <1>4 DEF Request, DeleteRow
  <2>3. Local(r) /\ New(r)
    <3>1. /\ r.pc = "lock" /\ request[h].pc = "lock" /\ l \in request[h].todo
          /\ r.todo = request[h].todo \ {l} /\ r.deleted = request[h].deleted \cup {l}
          /\ r.inserted = request[h].inserted /\ r.removed = request[h].removed
          /\ r.added = request[h].added /\ r.seen = request[h].seen
          /\ r.op = request[h].op
      BY <1>1, <1>4 DEF Request, DeleteRow
    <3> HIDE DEF r
    <3>2. Local(r)
      BY <1>1, <3>1 DEF Local, Transaction
    <3>3. New(r)
      BY <1>1, <3>1 DEF New
    <3> QED
      BY <3>2, <3>3
  <2>4. ASSUME NEW g \in Handlers \ {h}, request[g].op = r.op
        PROVE  l \notin Touched(request[g])
    <3>1. l \notin request[g].deleted /\ l \in linked[request[g].op]
      BY <1>1, <1>4, <2>2, <2>4 DEF DeleteRow, DeletedByOther, Others, New
    <3>2. Local(request[g]) /\ New(request[g])
      BY DEF IInv
    <3> QED
      BY <3>1, <3>2 DEF Touched, Local, New
  <2>5. Touched(r) = Touched(request[h]) \cup {l}
    BY <1>1, <1>4 DEF Request, Touched
  <2>6. \A g \in Handlers \ {h} :
           request[g].op = r.op => Touched(r) \cap Touched(request[g]) = {}
    BY <1>1, <2>2, <2>4, <2>5
  <2>7. linked' = linked /\ field' = field /\ told' = told
    BY <1>4 DEF DeleteRow
  <2> HIDE DEF r
  <2> QED
    BY <1>1, <2>1, <2>2, <2>3, <2>6, <2>7, OneRequest
<1> QED
  BY <1>2, <1>3, <1>4

LEMMA InsertIInv ==
    ASSUME IInv, NEW h \in Handlers, NEW l \in Links, InsertRow(h, l)
    PROVE  IInv'
<1>1. /\ field \in Values /\ told \in [from : Values, to : Values]
      /\ request \in [Handlers -> Request] /\ request[h] \in Request
      /\ linked \in [{"tags", "teams"} -> SUBSET Links]
      /\ Local(request[h]) /\ New(request[h])
      /\ \A g \in Handlers \ {h} : request[g].op = request[h].op =>
            Touched(request[h]) \cap Touched(request[g]) = {}
  BY DEF IInv, TypeOK, LinksHaveOneWriter, Others, Touched
<1>2. CASE Finish(h)
  BY <1>1, <1>2, FinishIInv DEF InsertRow
<1>3. CASE ~Finish(h)
  <2> DEFINE r == [request[h] EXCEPT !.inserted = @ \cup {l}]
  <2>1. request' = [request EXCEPT ![h] = r]
    BY <1>1, <1>3 DEF InsertRow
  <2>2. r \in Request /\ r.op = request[h].op /\ r.pc = "insert"
    BY <1>1, <1>3 DEF Request, InsertRow
  <2>3. Local(r) /\ New(r)
    BY <1>1, <1>3, <2>2 DEF Local, New, Transaction, Request, InsertRow
  <2>4. \A g \in Handlers \ {h} : request[g].op = r.op => l \notin Touched(request[g])
    BY <2>2 DEF InsertRow, HeldByOther, Others, Touched
  <2>5. Touched(r) = Touched(request[h]) \cup {l}
    BY <1>1 DEF Request, Touched
  <2>6. \A g \in Handlers \ {h} :
           request[g].op = r.op => Touched(r) \cap Touched(request[g]) = {}
    BY <1>1, <2>2, <2>4, <2>5
  <2>7. linked' = linked /\ field' = field /\ told' = told
    BY DEF InsertRow
  <2> HIDE DEF r
  <2> QED
    BY <1>1, <2>1, <2>2, <2>3, <2>6, <2>7, OneRequest
<1> QED
  BY <1>2, <1>3

\* What a commit makes of the records of the requests.
LEMMA AfterCommit ==
    ASSUME NEW r \in Request, NEW gone, NEW new,
           new \in {[r EXCEPT !.pc = "answer", !.deleted = {}, !.inserted = {}],
                    [r EXCEPT !.todo = @ \ gone]}
    PROVE  new \in Request /\ new.op = r.op /\ Touched(new) \subseteq Touched(r)
BY DEF Request, Touched

\* A commit changes the rows under the other transactions of its kind.
LEMMA CommitIInv ==
    ASSUME IInv, NEW h \in Handlers, Commit(h)
    PROVE  IInv'
<1> DEFINE s == request[h]
<1>1. /\ request \in [Handlers -> Request] /\ s \in Request
      /\ linked \in [{"tags", "teams"} -> SUBSET Links]
      /\ s.pc = "insert" /\ s.op \in {"tags", "teams"}
      /\ \A g \in Handlers : Local(request[g]) /\ New(request[g]) /\ request[g] \in Request
  BY DEF IInv, TypeOK, Commit, Local, Transaction
<1>2. /\ linked' = [linked EXCEPT ![s.op] = (@ \ s.deleted) \cup s.inserted]
      /\ request'[h] = [s EXCEPT !.pc = "answer", !.deleted = {}, !.inserted = {}]
      /\ \A g \in Others(h) : request'[g] = [request[g] EXCEPT !.todo = @ \ s.deleted]
      /\ \A g \in Handlers \ ({h} \cup Others(h)) : request'[g] = request[g]
      /\ DOMAIN request' = Handlers
  BY DEF Commit, Others
<1>3. TypeOK'
  <2>1. linked' \in [{"tags", "teams"} -> SUBSET Links]
    BY <1>1, <1>2 DEF Request
  <2>2. \A g \in Handlers : request'[g] \in Request
    <3> TAKE g \in Handlers
    <3>1. CASE g = h
      BY <1>1, <1>2, <3>1, AfterCommit
    <3>2. CASE g \in Others(h)
      <4>1. request[g] \in Request /\ request'[g] = [request[g] EXCEPT !.todo = @ \ s.deleted]
        BY <1>1, <1>2, <3>2
      <4> HIDE DEF s
      <4> QED
        BY <4>1 DEF Request
    <3>3. CASE g # h /\ g \notin Others(h)
      BY <1>1, <1>2, <3>3
    <3> QED
      BY <3>1, <3>2, <3>3
  <2>3. request' = [g \in Handlers |-> request'[g]]
    BY DEF Commit
  <2> QED
    BY <2>1, <2>2, <2>3 DEF Commit, IInv, TypeOK
<1>4. \A g \in Handlers : Local(request[g])' /\ New(request[g])'
  <2> TAKE g \in Handlers
  <2>1. CASE g = h
    <3> DEFINE t == request'[h]
    <3>1. Local(s) /\ s.pc = "insert"
      BY <1>1
    <3>2. /\ t.pc = "answer" /\ t.deleted = {} /\ t.inserted = {} /\ t.todo = s.todo
          /\ t.removed = s.removed /\ t.added = s.added
      BY <1>1, <1>2 DEF Request
    <3>3. s.todo = {}
      BY <3>1 DEF Local
    <3> HIDE DEF s, t
    <3>4. t.pc \notin Transaction /\ t.pc # "lock" /\ t.pc # "insert"
      BY <3>2 DEF Transaction
    <3>5. Local(t)
      BY <3>2, <3>3, <3>4 DEF Local
    <3> QED
      BY <2>1, <3>4, <3>5 DEF Local, New, t
  <2>2. CASE g \in Others(h)
    <3>1. /\ g # h /\ request[g].op = s.op
          /\ Touched(s) \cap Touched(request[g]) = {}
      BY <2>2 DEF Others, IInv, LinksHaveOneWriter, Touched
    <3>2. /\ linked'[s.op] = (linked[s.op] \ s.deleted) \cup s.inserted
          /\ request'[g] = [request[g] EXCEPT !.todo = @ \ s.deleted]
      BY <1>1, <1>2, <2>2
    <3>3. Local(request[g])'
      BY <1>1, <3>1, <3>2 DEF Local, Request
    <3>4. New(request[g])'
      BY <1>1, <3>1, <3>2 DEF New, Request, Touched
    <3> QED
      BY <3>3, <3>4
  <2>3. CASE g # h /\ g \notin Others(h)
    <3>1. request'[g] = request[g] /\ request[g].op # s.op
      BY <1>2, <2>3 DEF Others
    <3>2. \A o \in {"tags", "teams"} : o # s.op => linked'[o] = linked[o]
      BY <1>1, <1>2
    <3> QED
      BY <1>1, <3>1, <3>2 DEF Local, New, Transaction
  <2> QED
    BY <2>1, <2>2, <2>3
<1>5. LinksHaveOneWriter'
  <2>1. \A g \in Handlers : /\ request'[g].op = request[g].op
                            /\ Touched(request'[g]) \subseteq Touched(request[g])
    <3> TAKE g \in Handlers
    <3>1. CASE g = h
      BY <1>1, <1>2, <3>1, AfterCommit
    <3>2. CASE g \in Others(h)
      <4>1. request[g] \in Request /\ request'[g] = [request[g] EXCEPT !.todo = @ \ s.deleted]
        BY <1>1, <1>2, <3>2
      <4> HIDE DEF s
      <4> QED
        BY <4>1, AfterCommit, Zenon
    <3>3. CASE g # h /\ g \notin Others(h)
      BY <1>1, <1>2, <3>3
    <3> QED
      BY <3>1, <3>2, <3>3
  <2> QED
    BY <2>1 DEF IInv, LinksHaveOneWriter, Others, Touched
<1> QED
  BY <1>3, <1>4, <1>5 DEF IInv

\* The only step that answers a request with an open transaction commits it.
LEMMA CommitsCommit ==
    ASSUME IInv, Next, NEW h \in Handlers, Commits(h)
    PROVE  Commit(h)
<1>1. /\ request \in [Handlers -> Request] /\ request[h].pc = "insert"
      /\ request'[h].pc = "answer" /\ Idle.pc = "idle"
  BY DEF IInv, TypeOK, Commits, Idle
<1>2. ASSUME NEW g \in Handlers, NEW r, request' = [request EXCEPT ![g] = r],
             r.pc # "answer" \/ request[g].pc # "insert"
      PROVE  FALSE
  BY <1>1, <1>2
<1>3. PICK g \in Handlers : Begin(g) \/ Step(g) \/ RollBackDeadlocked(g) \/ RollBack(g)
  BY DEF Next
<1>4. ~Finish(g)
  BY <1>1 DEF Finish
<1>5. ~Begin(g)
  BY <1>1 DEF Begin, BeginTags, BeginTeams, BeginField
<1>6. ~(ReadTags(g) \/ ReadField(g) \/ WriteField(g))
  BY <1>1, <1>4 DEF ReadTags, ReadField, WriteField
<1>7. ~(StartDelete(g) \/ StartInsert(g) \/ \E l \in Links : DeleteRow(g, l))
  BY <1>1 DEF StartDelete, StartInsert, DeleteRow
<1>8. ASSUME NEW l \in Links, InsertRow(g, l)
      PROVE  FALSE
  <2>1. request' = [request EXCEPT ![g].inserted = @ \cup {l}]
    BY <1>4, <1>8 DEF InsertRow
  <2> QED
    BY <1>1, <2>1
<1>9. Commit(g)
  BY <1>3, <1>4, <1>5, <1>6, <1>7, <1>8 DEF Step, Answer, RollBackDeadlocked, RollBack
<1>10. g = h
  BY <1>1, <1>9 DEF Commit, Others
<1> QED
  BY <1>9, <1>10

LEMMA StutterIInv == IInv /\ UNCHANGED vars => IInv'
BY DEF IInv, TypeOK, LinksHaveOneWriter, Others, Local, New, vars

LEMMA NextIInv == IInv /\ [Next]_vars => IInv'
<1> SUFFICES ASSUME IInv, NEW h \in Handlers,
                    Begin(h) \/ Step(h) \/ RollBackDeadlocked(h) \/ RollBack(h)
             PROVE  IInv'
  BY StutterIInv DEF Next
<1>1. field \in Values /\ told \in [from : Values, to : Values]
  BY DEF IInv, TypeOK
<1>2. CASE Begin(h)
  BY <1>2, BeginIInv
<1>3. CASE Answer(h) \/ RollBackDeadlocked(h) \/ RollBack(h)
  BY <1>1, <1>3, FinishIInv DEF Answer, RollBackDeadlocked, RollBack
<1>4. CASE Step(h)
  BY <1>3, <1>4, ReadIInv, DeleteIInv, InsertIInv, CommitIInv DEF Step
<1> QED
  BY <1>2, <1>3, <1>4

LEMMA Invariance == Spec => []IInv
BY InitIInv, NextIInv, PTL DEF Spec

--------------------------------------------------------------------------------
(* Theorems *)

(* Every reachable state is typed, for any number of links, values and     *)
(* requests (Labels).                                                      *)
THEOREM TypeCorrect == Spec => []TypeOK
<1>1. IInv => TypeOK
  BY DEF IInv
<1> QED
  BY <1>1, Invariance, PTL

(* A commit takes away only tags its request had seen, whatever else was   *)
(* replaced meanwhile (updateTicketTags).                                  *)
THEOREM KeepsTheorem == Spec => KeepsUnseenTags
<1> DEFINE Keeps == \A h \in Handlers : Commits(h) /\ request[h].op = "tags"
                       => linked["tags"] \ linked'["tags"] \subseteq request[h].seen
<1>1. IInv /\ [Next]_vars => [Keeps]_vars
  <2> SUFFICES ASSUME IInv, Next, NEW h \in Handlers, Commits(h), request[h].op = "tags"
               PROVE  linked["tags"] \ linked'["tags"] \subseteq request[h].seen
    BY DEF vars
  <2>1. Local(request[h]) /\ linked \in [{"tags", "teams"} -> SUBSET Links]
    BY DEF IInv, TypeOK
  <2>2. Commit(h)
    BY CommitsCommit
  <2> QED
    BY <2>1, <2>2 DEF Commit, Local, Transaction
<1> QED
  BY <1>1, Invariance, PTL DEF KeepsUnseenTags, Spec

(* A commit adds what it says it adds: tags that were not there and are    *)
(* now, whatever else was replaced meanwhile (updateTicketTags).           *)
THEOREM AddedTheorem == Spec => AddedIsNew
<1> DEFINE Adds == \A h \in Handlers : Commits(h) /\ request[h].op = "tags"
                      => /\ request[h].added \cap linked["tags"] = {}
                         /\ request[h].added \subseteq linked'["tags"]
<1>1. IInv /\ [Next]_vars => [Adds]_vars
  <2> SUFFICES ASSUME IInv, Next, NEW h \in Handlers, Commits(h), request[h].op = "tags"
               PROVE  /\ request[h].added \cap linked["tags"] = {}
                      /\ request[h].added \subseteq linked'["tags"]
    BY DEF vars
  <2>1. /\ Local(request[h]) /\ New(request[h])
        /\ linked \in [{"tags", "teams"} -> SUBSET Links]
    BY DEF IInv, TypeOK
  <2>2. Commit(h)
    BY CommitsCommit
  <2> QED
    BY <2>1, <2>2 DEF Commit, Local, New, Transaction
<1> QED
  BY <1>1, Invariance, PTL DEF AddedIsNew, Spec

(* No row is deleted or inserted by two open transactions: the locks the   *)
(* replacements take keep them apart (updateTicketTags, updateTeams).      *)
THEOREM WriterTheorem == Spec => []LinksHaveOneWriter
<1>1. IInv => LinksHaveOneWriter
  BY DEF IInv
<1> QED
  BY <1>1, Invariance, PTL

================================================================================
