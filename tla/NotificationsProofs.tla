-------------------------- MODULE NotificationsProofs --------------------------
(***************************************************************************)
(* Proofs about Notifications: who is told what, and how often, for any    *)
(* number of users and events, any retries and any faults.                 *)
(*                                                                         *)
(* The invariant follows the recipients from the producer through the job  *)
(* to the rows, and counts the rows of a job against its runs.             *)
(***************************************************************************)
EXTENDS Notifications, FiniteSetTheorems, TLAPS

\* Who may be told of event e, by what is known when the job is queued.
Addressed(e, u) ==
    u # event[e].actor /\ (event[e].kind = "NOTE_ADDED" => u \in insiders[e])

Produced(e) ==
    /\ event[e] # NotYet => Staff \subseteq insiders[e]
    /\ event[e] = NotYet => producer[e].pc = "idle"
    /\ producer[e].pc # "done" => job[e].state = "none" /\ job[e].recipients = {}
    /\ \A u \in producer[e].recipients :
          u # event[e].actor /\ (producer[e].pc = "enqueuing" => Addressed(e, u))
    /\ \A u \in job[e].recipients : Addressed(e, u)

\* A run that has not ended counts, and has told everybody.
Told(e, u) ==
    LET j == job[e]
    IN  IF u \in j.recipients
        THEN /\ Copies(u, e) <= j.attempts + j.stalls
                                  + (IF j.state \in {"inserted", "completed"} THEN 1 ELSE 0)
             /\ j.state \in {"inserted", "completed"} => Copies(u, e) > 0
        ELSE Copies(u, e) = 0

\* Rows tell of events that are committed.
RowsOfEvents ==
    \A u \in Users : \A i \in 1..Size(u) :
        event[inbox[u][i].event] # NotYet /\ Addressed(inbox[u][i].event, u)

IInv ==
    /\ TypeOK
    /\ \A e \in Events : Produced(e)
    /\ \A e \in Events, u \in Users : Told(e, u)
    /\ RowsOfEvents

--------------------------------------------------------------------------------
(* Counting *)

\* The rows of event e in the inbox of u.
Of(u, e) == {i \in 1..Size(u) : inbox[u][i].event = e}

LEMMA OfFinite ==
    ASSUME TypeOK, NEW u \in Users, NEW e
    PROVE  IsFiniteSet(Of(u, e)) /\ Cardinality(Of(u, e)) \in Nat /\ Copies(u, e) \in Nat
<1>1. Size(u) \in Nat
  BY DEF TypeOK, Size
<1>2. IsFiniteSet(1..Size(u))
  BY <1>1, FS_Interval
<1>3. Of(u, e) \in SUBSET (1..Size(u))
  BY DEF Of
<1>4. IsFiniteSet(Of(u, e))
  BY <1>2, <1>3, FS_Subset
<1>5. Cardinality(Of(u, e)) \in Nat
  BY <1>4, FS_CardinalityType
<1> QED
  BY <1>4, <1>5 DEF Copies, Of

\* One more row of an event is one more copy of it, and of no other.
LEMMA CopiesAppend ==
    ASSUME TypeOK, NEW u \in Users, NEW e, NEW d \in Events,
           inbox'[u] = Append(inbox[u], [event |-> d, read |-> FALSE])
    PROVE  Copies(u, e)' = Copies(u, e) + (IF d = e THEN 1 ELSE 0)
<1> DEFINE n == Size(u)
<1>1. inbox[u] \in Seq(Row) /\ n \in Nat
  BY DEF TypeOK, Size
<1>2. /\ Size(u)' = n + 1
      /\ inbox'[u][n + 1].event = d
      /\ \A i \in 1..n : inbox'[u][i] = inbox[u][i]
  BY <1>1 DEF Size
<1>3. /\ Of(u, e) = {i \in 1..n : inbox[u][i].event = e}
      /\ Of(u, e)' = {i \in 1..(n + 1) : inbox'[u][i].event = e}
  BY <1>2 DEF Of
<1> HIDE DEF n
<1>4. \A i : i \in Of(u, e)' <=> i \in Of(u, e) \/ (i = n + 1 /\ d = e)
  <2> TAKE i
  <2>1. CASE i \in 1..n
    <3>1. i \in 1..(n + 1) /\ i # n + 1
      BY <1>1, <2>1
    <3>2. inbox'[u][i] = inbox[u][i]
      BY <1>2, <2>1
    <3> QED
      BY <1>3, <2>1, <3>1, <3>2
  <2>2. CASE i = n + 1
    <3>1. i \in 1..(n + 1) /\ i \notin 1..n
      BY <1>1, <2>2
    <3>2. inbox'[u][i].event = d
      BY <1>2, <2>2
    <3> QED
      BY <1>3, <2>2, <3>1, <3>2
  <2>3. CASE i \notin 1..n /\ i # n + 1
    <3>1. i \notin 1..(n + 1)
      BY <1>1, <2>3
    <3> QED
      BY <1>3, <2>3, <3>1
  <2> QED
    BY <2>1, <2>2, <2>3
<1>5. n + 1 \notin Of(u, e)
  BY <1>1, <1>3
<1>6. CASE d = e
  <2>1. Of(u, e)' = Of(u, e) \cup {n + 1}
    BY <1>4, <1>6
  <2>2. Cardinality(Of(u, e) \cup {n + 1}) = Cardinality(Of(u, e)) + 1
    BY <1>5, OfFinite, FS_AddElement
  <2> QED
    BY <1>6, <2>1, <2>2 DEF Copies, Of
<1>7. CASE d # e
  <2>1. Of(u, e)' = Of(u, e)
    BY <1>4, <1>7
  <2>2. Copies(u, e)' = Copies(u, e)
    BY <2>1 DEF Copies, Of
  <2> QED
    BY <1>7, <2>2, OfFinite
<1> QED
  BY <1>6, <1>7

\* Marking rows read changes neither their number nor their events.
LEMMA CopiesMarked ==
    ASSUME NEW u \in Users, NEW e, Size(u)' = Size(u),
           \A i \in 1..Size(u) : inbox'[u][i].event = inbox[u][i].event
    PROVE  Copies(u, e)' = Copies(u, e)
<1>1. {i \in 1..Size(u)' : inbox'[u][i].event = e} = {i \in 1..Size(u) : inbox[u][i].event = e}
  OBVIOUS
<1> QED
  BY <1>1 DEF Copies

LEMMA NoneIsNotYet == \A h \in Happenings : h # NotYet /\ h.kind \in EventKind
BY NotificationsAssumption DEF NotYet, EventKind

LEMMA InitIInv == Init => IInv
<1> SUFFICES ASSUME Init PROVE IInv
  OBVIOUS
<1>1. TypeOK
  <2>1. producer \in [Events -> Producer] /\ job \in [Events -> Job]
    BY DEF Init, Producer, Job
  <2>2. fetch \in Fetch /\ marking \in Marking /\ badge \in Nat /\ items \subseteq Item
    BY DEF Init, Fetch, NoFetch, Marking, NotMarking
  <2>3. inbox \in [Users -> Seq(Row)]
    BY DEF Init
  <2>4. faults \in 0..MaxFaults /\ changes \in 0..MaxChanges
    BY NotificationsAssumption DEF Init
  <2>5. /\ role \in [Users -> {"CUSTOMER", "STAFF"}] /\ assignee \in Users \cup {Nobody}
        /\ event \in [Events -> Happenings \cup {NotYet}] /\ poked \in BOOLEAN
        /\ insiders \in [Events -> SUBSET Users]
    BY NotificationsAssumption DEF Init
  <2> QED
    BY <2>1, <2>2, <2>3, <2>4, <2>5 DEF TypeOK
<1>2. \A e \in Events : Produced(e)
  BY DEF Init, Produced
<1>3. \A u \in Users : Size(u) = 0 /\ 1..Size(u) = {}
  BY DEF Init, Size
<1>4. ASSUME NEW e \in Events, NEW u \in Users
      PROVE  Told(e, u)
  <2>1. {i \in 1..Size(u) : inbox[u][i].event = e} = {}
    BY <1>3
  <2>2. Copies(u, e) = 0
    BY <2>1, FS_EmptySet DEF Copies
  <2> QED
    BY <2>2 DEF Told, Init
<1>5. RowsOfEvents
  BY <1>3 DEF RowsOfEvents
<1> QED
  BY <1>1, <1>2, <1>4, <1>5 DEF IInv

LEMMA FaultType ==
    ASSUME TypeOK, NEW f, Fault(f)
    PROVE  faults' \in 0..MaxFaults
BY NotificationsAssumption DEF TypeOK, Fault

--------------------------------------------------------------------------------
(* Steps that write no row *)

\* What a step that writes no row and takes up no job has to keep.
LEMMA NoRowWritten ==
    ASSUME IInv, TypeOK', UNCHANGED <<inbox, job>>,
           \A e \in Events : Produced(e)',
           \A e \in Events :
              event[e] # NotYet => event'[e] = event[e] /\ insiders[e] \subseteq insiders'[e]
    PROVE  IInv'
<1>1. ASSUME NEW e \in Events, NEW u \in Users
      PROVE  Told(e, u)'
  <2>1. Copies(u, e)' = Copies(u, e) /\ Told(e, u)
    BY DEF IInv, Copies, Size
  <2> QED
    BY <2>1 DEF Told
<1>2. RowsOfEvents'
  <2> SUFFICES ASSUME NEW u \in Users, NEW i \in 1..Size(u)
               PROVE  event'[inbox[u][i].event] # NotYet /\ Addressed(inbox[u][i].event, u)'
    BY DEF RowsOfEvents, Size
  <2>1. inbox[u][i].event \in Events
    <3>1. inbox[u] \in Seq(Row)
      BY DEF IInv, TypeOK
    <3>2. inbox[u][i] \in Row
      BY <3>1 DEF Size
    <3> QED
      BY <3>2 DEF Row
  <2>2. event[inbox[u][i].event] # NotYet /\ Addressed(inbox[u][i].event, u)
    BY DEF IInv, RowsOfEvents
  <2> QED
    BY <2>1, <2>2 DEF Addressed
<1> QED
  BY <1>1, <1>2 DEF IInv

\* Candidates without the actor are users.
LEMMA UniqueIsUsers ==
    ASSUME NEW candidates \in SUBSET (Users \cup {Nobody}), NEW actor
    PROVE  /\ UniqueExcludingActor(candidates, actor) \subseteq Users
           /\ \A u \in UniqueExcludingActor(candidates, actor) : u # actor
BY DEF UniqueExcludingActor

LEMMA GotoType ==
    ASSUME TypeOK, NEW e \in Events, NEW pc \in {"reading", "filtering", "enqueuing", "done"},
           NEW recipients \in SUBSET Users, Goto(e, pc, recipients)
    PROVE  /\ producer' \in [Events -> Producer]
           /\ producer'[e].pc = pc /\ producer'[e].recipients = recipients
           /\ \A d \in Events \ {e} : producer'[d] = producer[d]
<1>1. [pc |-> pc, recipients |-> recipients] \in Producer
  BY DEF Producer
<1> QED
  BY <1>1 DEF TypeOK, Goto

LEMMA CommitIInv ==
    ASSUME IInv, NEW e \in Events, NEW h \in Happenings, Commit(e, h)
    PROVE  IInv'
<1> DEFINE told == UniqueExcludingActor({h.to}, h.actor)
<1>1. /\ h.to \in Users \cup {Nobody} /\ h # NotYet
      /\ h.kind = "ASSIGNED" => h.to \in Users
  BY NotificationsAssumption, NoneIsNotYet
<1>2. told \subseteq Users /\ \A u \in told : u # h.actor
  BY <1>1, UniqueIsUsers
<1> HIDE DEF told
<1>3. /\ producer' \in [Events -> Producer] /\ assignee' \in Users \cup {Nobody}
      /\ \A d \in Events \ {e} : producer'[d] = producer[d]
      /\ producer'[e].pc # "idle"
      /\ \A u \in producer'[e].recipients : u # h.actor
      /\ producer'[e].pc = "enqueuing" => h.kind = "ASSIGNED"
  <2>1. TypeOK
    BY DEF IInv
  <2>2. CASE h.kind = "ASSIGNED"
    <3>1. Goto(e, IF told = {} THEN "done" ELSE "enqueuing", told) /\ assignee' = h.to
      BY <2>2 DEF Commit, told
    <3> QED
      BY <1>1, <1>2, <2>1, <2>2, <3>1, GotoType
  <2>3. CASE h.kind # "ASSIGNED"
    <3>1. Goto(e, "reading", {}) /\ assignee' = assignee
      BY <2>3 DEF Commit
    <3> QED
      BY <2>1, <3>1, GotoType DEF TypeOK
  <2> QED
    BY <2>2, <2>3
<1>4. /\ event[e] = NotYet /\ event' = [event EXCEPT ![e] = h]
      /\ insiders' = [insiders EXCEPT ![e] = Staff]
      /\ UNCHANGED <<role, changes, job, inbox, bell, poked, faults>>
      /\ event \in [Events -> Happenings \cup {NotYet}]
      /\ insiders \in [Events -> SUBSET Users]
  BY DEF Commit, IInv, TypeOK
<1>5. TypeOK'
  BY <1>3, <1>4 DEF IInv, TypeOK, bell, Staff
<1>6. ASSUME NEW d \in Events
      PROVE  Produced(d)'
  <2>1. CASE d = e
    <3>1. Produced(e) /\ job'[e] = job[e]
      BY <1>4 DEF IInv
    <3> QED
      BY <1>1, <1>3, <1>4, <2>1, <3>1 DEF Produced, Staff, Addressed
  <2>2. CASE d # e
    BY <1>3, <1>4, <2>2 DEF IInv, Produced, Staff, Addressed
  <2> QED
    BY <2>1, <2>2
<1>7. \A d \in Events : event[d] # NotYet => event'[d] = event[d] /\ insiders'[d] = insiders[d]
  BY <1>4
<1> QED
  BY <1>4, <1>5, <1>6, <1>7, NoRowWritten

LEMMA CandidatesIInv ==
    ASSUME IInv, NEW e \in Events, ReadTicket(e) \/ FilterRoles(e)
    PROVE  IInv'
<1>1. /\ UNCHANGED <<ticket, job, inbox, bell, poked, faults>>
      /\ event[e] # NotYet /\ producer[e].pc # "done"
      /\ Produced(e) /\ TypeOK
  BY DEF ReadTicket, FilterRoles, IInv, Produced
<1>2. PICK pc \in {"filtering", "enqueuing", "done"}, recipients \in SUBSET Users :
        /\ Goto(e, pc, recipients)
        /\ \A u \in recipients : u # event[e].actor
        /\ pc = "enqueuing" => event[e].kind # "NOTE_ADDED" \/ recipients \subseteq Staff
  <2>1. CASE ReadTicket(e)
    <3> DEFINE note == event[e].kind = "NOTE_ADDED"
               told == UniqueExcludingActor({assignee} \cup (IF note THEN Team ELSE {Requester}),
                                            event[e].actor)
    <3>1. {assignee} \cup (IF note THEN Team ELSE {Requester}) \subseteq Users \cup {Nobody}
      BY <1>1, NotificationsAssumption DEF TypeOK
    <3>2. told \subseteq Users /\ \A u \in told : u # event[e].actor
      BY <3>1, UniqueIsUsers
    <3>3. Goto(e, IF told = {} THEN "done" ELSE IF note THEN "filtering" ELSE "enqueuing", told)
      BY <2>1 DEF ReadTicket
    <3> HIDE DEF told
    <3> QED
      BY <3>2, <3>3
  <2>2. CASE FilterRoles(e)
    <3> DEFINE told == producer[e].recipients \cap Staff
    <3>1. told \subseteq Users /\ told \subseteq Staff /\ \A u \in told : u # event[e].actor
      BY <1>1 DEF Produced, Staff
    <3>2. Goto(e, IF told = {} THEN "done" ELSE "enqueuing", told)
      BY <2>2 DEF FilterRoles
    <3> HIDE DEF told
    <3> QED
      BY <3>1, <3>2
  <2> QED
    BY <2>1, <2>2
<1>3. /\ producer' \in [Events -> Producer]
      /\ producer'[e].pc = pc /\ producer'[e].recipients = recipients
      /\ \A d \in Events \ {e} : producer'[d] = producer[d]
  BY <1>1, <1>2, GotoType
<1>4. TypeOK'
  BY <1>1, <1>3 DEF TypeOK, ticket, bell
<1>5. ASSUME NEW d \in Events
      PROVE  Produced(d)'
  <2>1. CASE d = e
    BY <1>1, <1>2, <1>3, <2>1 DEF Produced, Addressed, Staff, ticket
  <2>2. CASE d # e
    BY <1>1, <1>3, <2>2 DEF IInv, Produced, Addressed, Staff, ticket
  <2> QED
    BY <2>1, <2>2
<1> QED
  BY <1>1, <1>4, <1>5, NoRowWritten DEF ticket

LEMMA WorldIInv ==
    ASSUME IInv, (\E u \in Users : ChangeRole(u)) \/ \E u \in Users \cup {Nobody} : Reassign(u)
    PROVE  IInv'
<1>1. /\ UNCHANGED <<event, producer, job, inbox, bell, poked, faults>> /\ TypeOK
      /\ changes' \in 0..MaxChanges
  BY NotificationsAssumption DEF ChangeRole, Reassign, IInv, TypeOK
<1>2. /\ role' \in [Users -> {"CUSTOMER", "STAFF"}] /\ assignee' \in Users \cup {Nobody}
      /\ insiders' \in [Events -> SUBSET Users]
      /\ \A e \in Events : insiders[e] \subseteq insiders'[e]
      /\ \A e \in Events : event[e] # NotYet => (Staff' \ Staff) \subseteq insiders'[e]
  BY <1>1 DEF ChangeRole, Reassign, TypeOK, Staff
<1>3. TypeOK'
  BY <1>1, <1>2 DEF TypeOK, bell
<1>4. ASSUME NEW e \in Events
      PROVE  Produced(e)'
  BY <1>1, <1>2 DEF IInv, Produced, Addressed
<1> QED
  BY <1>1, <1>2, <1>3, <1>4, NoRowWritten

--------------------------------------------------------------------------------
(* The bell *)

LEMMA BellTypes ==
    ASSUME TypeOK
    PROVE  /\ Unread(Viewer) \in Nat /\ Newest(Viewer) \subseteq Item
           /\ NoFetch \in Fetch /\ NewFetch \in Fetch /\ NotMarking \in Marking
<1>1. inbox[Viewer] \in Seq(Row) /\ Size(Viewer) \in Nat
  BY NotificationsAssumption DEF TypeOK, Size
<1>2. Unread(Viewer) \in Nat
  <2>1. IsFiniteSet(1..Size(Viewer))
    BY <1>1, FS_Interval
  <2>2. {i \in 1..Size(Viewer) : ~inbox[Viewer][i].read} \in SUBSET (1..Size(Viewer))
    OBVIOUS
  <2>3. IsFiniteSet({i \in 1..Size(Viewer) : ~inbox[Viewer][i].read})
    BY <2>1, <2>2, FS_Subset
  <2> QED
    BY <2>3, FS_CardinalityType DEF Unread
<1>3. Newest(Viewer) \subseteq Item
  <2> SUFFICES ASSUME NEW j \in 1..Size(Viewer)
               PROVE  [at |-> j, read |-> inbox[Viewer][j].read] \in Item
    BY DEF Newest
  <2>1. inbox[Viewer][j] \in Row
    BY <1>1 DEF Size
  <2> QED
    BY <2>1 DEF Row, Item
<1> QED
  BY <1>2, <1>3 DEF NoFetch, NewFetch, Fetch, NotMarking, Marking

LEMMA BellIInv ==
    ASSUME IInv,
           \/ Poll \/ Poke \/ FindItems \/ CountUnread \/ Show \/ Answered \/ MarkFails
           \/ \E at \in 0..Size(Viewer) : Click(at)
    PROVE  IInv'
<1>1. TypeOK /\ UNCHANGED <<ticket, producer, job, inbox>>
  BY DEF IInv, Poll, Poke, FindItems, CountUnread, Show, Answered, MarkFails, Click
<1>2. faults' \in 0..MaxFaults /\ poked' \in BOOLEAN
  <2>1. UNCHANGED faults \/ Fault("patch")
    BY DEF Poll, Poke, FindItems, CountUnread, Show, Answered, MarkFails, Click
  <2>2. UNCHANGED poked \/ poked' = FALSE
    BY DEF Poll, Poke, FindItems, CountUnread, Show, Answered, MarkFails, Click
  <2> QED
    BY <1>1, <2>1, <2>2, FaultType DEF TypeOK
<1>3. items' \subseteq Item /\ badge' \in Nat
  BY <1>1 DEF TypeOK, Poll, Poke, FindItems, CountUnread, Show, Answered, MarkFails, Click, Fetch
<1>4. fetch' \in Fetch
  <2>1. CASE FindItems
    BY <1>1, <2>1, BellTypes DEF TypeOK, FindItems, Fetch
  <2>2. CASE CountUnread
    BY <1>1, <2>2, BellTypes DEF TypeOK, CountUnread, Fetch
  <2> QED
    BY <1>1, <2>1, <2>2, BellTypes
       DEF TypeOK, Poll, Poke, Show, Answered, MarkFails, Click
<1>5. marking' \in Marking
  <2>1. CASE Answered
    BY <1>1, <2>1 DEF TypeOK, Answered, Marking
  <2>2. CASE \E at \in 0..Size(Viewer) : Click(at)
    <3>1. Size(Viewer) \in Nat
      BY <1>1, NotificationsAssumption DEF TypeOK, Size
    <3> QED
      BY <2>2, <3>1 DEF Click, Marking
  <2> QED
    BY <1>1, <2>1, <2>2, BellTypes
       DEF TypeOK, Poll, Poke, FindItems, CountUnread, Show, MarkFails
<1>6. TypeOK'
  BY <1>1, <1>2, <1>3, <1>4, <1>5 DEF TypeOK, ticket
<1>7. ASSUME NEW e \in Events
      PROVE  Produced(e)'
  BY <1>1 DEF IInv, Produced, Addressed, Staff, ticket
<1> QED
  BY <1>1, <1>6, <1>7, NoRowWritten DEF ticket

LEMMA FunctionIsSeq ==
    ASSUME NEW S, NEW n \in Nat, NEW f \in [1..n -> S]
    PROVE  f \in Seq(S) /\ Len(f) = n
<1>1. [i \in 1..n |-> f[i]] \in Seq(S) /\ Len([i \in 1..n |-> f[i]]) = n
  OBVIOUS
<1>2. f = [i \in 1..n |-> f[i]]
  OBVIOUS
<1> QED
  BY <1>1, <1>2, Zenon

\* A row that is read is a row all the same.
LEMMA MarkIInv == ASSUME IInv, Mark PROVE IInv'
<1>1. /\ TypeOK /\ UNCHANGED <<ticket, producer, job, items, badge, fetch, poked, faults>>
      /\ marking' = [marking EXCEPT !.pc = "written"]
      /\ inbox' = [inbox EXCEPT ![Viewer] = [i \in 1..Size(Viewer) |->
                      IF marking.at \in {0, i} THEN [@[i] EXCEPT !.read = TRUE] ELSE @[i]]]
  BY DEF IInv, Mark
<1>2. /\ inbox \in [Users -> Seq(Row)] /\ Viewer \in Users
      /\ inbox[Viewer] \in Seq(Row) /\ Size(Viewer) \in Nat
  BY <1>1, NotificationsAssumption DEF TypeOK, Size
<1> DEFINE s == [i \in 1..Size(Viewer) |->
                   IF marking.at \in {0, i} THEN [inbox[Viewer][i] EXCEPT !.read = TRUE]
                                            ELSE inbox[Viewer][i]]
<1>3. inbox' = [inbox EXCEPT ![Viewer] = s]
  BY <1>1, <1>2
<1>4. \A i \in 1..Size(Viewer) : s[i] \in Row /\ s[i].event = inbox[Viewer][i].event
  <2> TAKE i \in 1..Size(Viewer)
  <2>1. inbox[Viewer][i] \in Row
    BY <1>2 DEF Size
  <2> QED
    BY <2>1 DEF Row
<1>5. s \in Seq(Row) /\ Len(s) = Size(Viewer)
  <2>1. s \in [1..Size(Viewer) -> Row]
    BY <1>4
  <2> QED
    BY <1>2, <2>1, FunctionIsSeq
<1> HIDE DEF s
<1>6. \A u \in Users : /\ Size(u)' = Size(u)
                       /\ \A i \in 1..Size(u) : inbox'[u][i].event = inbox[u][i].event
  BY <1>2, <1>3, <1>4, <1>5 DEF Size
<1>7. TypeOK'
  <2>1. marking' \in Marking
    BY <1>1 DEF TypeOK, Marking
  <2>2. inbox' \in [Users -> Seq(Row)]
    BY <1>2, <1>3, <1>5
  <2> QED
    BY <1>1, <2>1, <2>2 DEF TypeOK, ticket
<1>8. ASSUME NEW e \in Events
      PROVE  Produced(e)'
  BY <1>1 DEF IInv, Produced, Addressed, Staff, ticket
<1>9. ASSUME NEW e \in Events, NEW u \in Users
      PROVE  Told(e, u)'
  <2>1. Copies(u, e)' = Copies(u, e)
    BY <1>6, CopiesMarked
  <2> QED
    BY <1>1, <2>1 DEF IInv, Told
<1>10. RowsOfEvents'
  <2>1. UNCHANGED <<event, insiders>>
    BY <1>1 DEF ticket
  <2>2. \A u \in Users : \A i \in 1..Size(u) :
           event[inbox[u][i].event] # NotYet /\ Addressed(inbox[u][i].event, u)
    BY DEF IInv, RowsOfEvents
  <2>3. ASSUME NEW u \in Users, NEW i \in 1..Size(u)'
        PROVE  event[inbox'[u][i].event] # NotYet /\ Addressed(inbox'[u][i].event, u)
    <3>1. i \in 1..Size(u) /\ inbox'[u][i].event = inbox[u][i].event
      BY <1>6
    <3> QED
      BY <2>2, <3>1
  <2> QED
    BY <2>1, <2>3 DEF RowsOfEvents, Addressed
<1> QED
  BY <1>7, <1>8, <1>9, <1>10 DEF IInv

--------------------------------------------------------------------------------
(* The queue and its worker *)

\* A job's record after a step that writes no row.
LEMMA JobsOnly ==
    ASSUME IInv, TypeOK', UNCHANGED <<ticket, inbox>>,
           \A e \in Events : Produced(e)',
           \A e \in Events, u \in Users : Told(e, u) => Told(e, u)'
    PROVE  IInv'
<1>1. RowsOfEvents'
  BY DEF IInv, RowsOfEvents, Addressed, ticket, Size
<1> QED
  BY <1>1 DEF IInv

LEMMA SameCopies == UNCHANGED inbox => \A u, e : Copies(u, e)' = Copies(u, e)
BY DEF Copies, Size

\* The job gets the recipients, of whom none has a row yet.
LEMMA EnqueueIInv ==
    ASSUME IInv, NEW e \in Events, Enqueue(e)
    PROVE  IInv'
<1>1. /\ UNCHANGED <<ticket, inbox, bell, poked>> /\ TypeOK
      /\ producer[e].pc = "enqueuing" /\ Goto(e, "done", {})
      /\ Produced(e) /\ event[e] # NotYet
      /\ job \in [Events -> Job] /\ job[e] \in Job /\ producer[e] \in Producer
  BY DEF Enqueue, IInv, Produced, TypeOK
<1>2. faults' \in 0..MaxFaults
  BY <1>1, FaultType DEF Enqueue, TypeOK
<1>3. /\ producer' \in [Events -> Producer]
      /\ producer'[e].pc = "done" /\ producer'[e].recipients = {}
      /\ \A d \in Events \ {e} : producer'[d] = producer[d]
  BY <1>1, GotoType
<1>4. CASE UNCHANGED job
  <2>1. TypeOK'
    BY <1>1, <1>2, <1>3, <1>4 DEF TypeOK, ticket, bell
  <2>2. ASSUME NEW d \in Events
        PROVE  Produced(d)'
    BY <1>1, <1>3, <1>4 DEF IInv, Produced, Addressed, Staff, ticket
  <2> QED
    BY <1>1, <1>4, <2>1, <2>2, NoRowWritten DEF ticket
<1>5. CASE Queued(e)
  <2> DEFINE new == [job[e] EXCEPT !.state = "waiting", !.recipients = producer[e].recipients]
  <2>1. job' = [job EXCEPT ![e] = new]
    BY <1>1, <1>5 DEF Queued
  <2>2. /\ new \in Job /\ new.state = "waiting" /\ new.recipients = producer[e].recipients
        /\ new.attempts \in Nat /\ new.stalls \in Nat
    BY <1>1 DEF Job, Producer
  <2> HIDE DEF new
  <2>3. TypeOK'
    BY <1>1, <1>2, <1>3, <2>1, <2>2 DEF TypeOK, ticket, bell
  <2>4. ASSUME NEW d \in Events
        PROVE  Produced(d)'
    <3>1. CASE d = e
      BY <1>1, <1>3, <2>1, <2>2, <3>1 DEF Produced, Addressed, Staff, ticket
    <3>2. CASE d # e
      BY <1>1, <1>3, <2>1, <3>2 DEF IInv, Produced, Addressed, Staff, ticket
    <3> QED
      BY <3>1, <3>2
  <2>5. ASSUME NEW d \in Events, NEW u \in Users, Told(d, u)
        PROVE  Told(d, u)'
    <3>1. Copies(u, d)' = Copies(u, d)
      BY <1>1, SameCopies
    <3>2. CASE d = e
      <4>1. Copies(u, e) = 0
        BY <1>1, <2>5, <3>2 DEF Told, Produced
      <4> QED
        BY <1>1, <2>1, <2>2, <3>1, <3>2, <4>1 DEF Told
    <3>3. CASE d # e
      BY <1>1, <2>1, <2>5, <3>1, <3>3 DEF Told
    <3> QED
      BY <3>2, <3>3
  <2> QED
    BY <1>1, <2>3, <2>4, <2>5, JobsOnly
<1> QED
  BY <1>4, <1>5 DEF Enqueue

\* How a run of a job may end, and what that makes of the count.
Moves(old, new, wrote) ==
    /\ new \in Job /\ new.recipients = old.recipients /\ new.state # "none"
    /\ LET before == old.attempts + old.stalls
                       + (IF old.state \in {"inserted", "completed"} THEN 1 ELSE 0)
           after  == new.attempts + new.stalls
                       + (IF new.state \in {"inserted", "completed"} THEN 1 ELSE 0)
       IN  before + wrote <= after
    /\ new.state \in {"inserted", "completed"} =>
         wrote = 1 \/ old.state \in {"inserted", "completed"}

LEMMA MovesTold ==
    ASSUME TypeOK, NEW e \in Events, NEW u \in Users, Told(e, u),
           NEW wrote \in {0, 1}, Moves(job[e], job'[e], wrote),
           Copies(u, e)' = Copies(u, e) + (IF u \in job[e].recipients THEN wrote ELSE 0)
    PROVE  Told(e, u)'
<1>1. job[e] \in Job
  BY DEF TypeOK
<1>2. job[e].attempts \in Nat /\ job[e].stalls \in Nat
  BY <1>1 DEF Job
<1>3. job'[e].attempts \in Nat /\ job'[e].stalls \in Nat /\ job'[e].recipients = job[e].recipients
  BY DEF Moves, Job
<1>4. Copies(u, e) \in Nat
  BY OfFinite
<1>5. CASE u \in job[e].recipients
  <2>1. Copies(u, e)' <= job'[e].attempts + job'[e].stalls
                           + (IF job'[e].state \in {"inserted", "completed"} THEN 1 ELSE 0)
    BY <1>2, <1>3, <1>4, <1>5 DEF Told, Moves
  <2>2. job'[e].state \in {"inserted", "completed"} => Copies(u, e)' > 0
    BY <1>4, <1>5 DEF Told, Moves
  <2> QED
    BY <1>3, <1>5, <2>1, <2>2 DEF Told
<1>6. CASE u \notin job[e].recipients
  BY <1>3, <1>4, <1>6 DEF Told
<1> QED
  BY <1>5, <1>6

\* A step of the worker on job e that writes no row.
LEMMA WorkIInv ==
    ASSUME IInv, NEW e \in Events, job[e].state # "none",
           NEW new, job' = [job EXCEPT ![e] = new], Moves(job[e], new, 0),
           UNCHANGED <<ticket, producer, inbox, bell>>,
           poked' \in BOOLEAN, faults' \in 0..MaxFaults
    PROVE  IInv'
<1>1. /\ TypeOK /\ job \in [Events -> Job] /\ job'[e] = new
      /\ \A d \in Events \ {e} : job'[d] = job[d]
  BY DEF IInv, TypeOK
<1>2. TypeOK'
  BY <1>1 DEF TypeOK, ticket, bell, Moves
<1>3. ASSUME NEW d \in Events
      PROVE  Produced(d)'
  <2>1. CASE d = e
    BY <1>1, <2>1 DEF IInv, Produced, Addressed, Staff, ticket, Moves
  <2>2. CASE d # e
    BY <1>1, <2>2 DEF IInv, Produced, Addressed, Staff, ticket
  <2> QED
    BY <2>1, <2>2
<1>4. ASSUME NEW d \in Events, NEW u \in Users, Told(d, u)
      PROVE  Told(d, u)'
  <2>1. Copies(u, d)' = Copies(u, d) /\ Copies(u, d) \in Nat
    BY <1>1, SameCopies, OfFinite
  <2>2. CASE d = e
    BY <1>1, <1>4, <2>1, <2>2, MovesTold
  <2>3. CASE d # e
    BY <1>1, <1>4, <2>1, <2>3 DEF Told
  <2> QED
    BY <2>2, <2>3
<1> QED
  BY <1>2, <1>3, <1>4, JobsOnly

\* A run writes a row for every recipient.
LEMMA RowsIInv ==
    ASSUME IInv, NEW e \in Events, job[e].state # "none", inbox' = NewRows(e),
           NEW new, job' = [job EXCEPT ![e] = new], Moves(job[e], new, 1),
           UNCHANGED <<ticket, producer, bell, poked>>, faults' \in 0..MaxFaults
    PROVE  IInv'
<1>1. /\ TypeOK /\ job \in [Events -> Job] /\ job'[e] = new
      /\ \A d \in Events \ {e} : job'[d] = job[d]
      /\ inbox \in [Users -> Seq(Row)]
  BY DEF IInv, TypeOK
<1> DEFINE row == [event |-> e, read |-> FALSE]
<1>2. /\ inbox' \in [Users -> Seq(Row)]
      /\ \A u \in Users : inbox'[u] = IF u \in job[e].recipients THEN Append(inbox[u], row)
                                                                ELSE inbox[u]
  <2>1. \A u \in Users : inbox'[u] = IF u \in job[e].recipients THEN Append(inbox[u], row)
                                                                 ELSE inbox[u]
    BY DEF NewRows
  <2>2. row \in Row
    BY DEF Row
  <2>3. \A u \in Users : inbox[u] \in Seq(Row) /\ Append(inbox[u], row) \in Seq(Row)
    BY <1>1, <2>2
  <2>4. \A u \in Users : inbox'[u] \in Seq(Row)
    BY <2>1, <2>3
  <2> QED
    BY <2>1, <2>4 DEF NewRows
<1>3. TypeOK'
  BY <1>1, <1>2 DEF TypeOK, ticket, bell, Moves
<1>4. ASSUME NEW d \in Events
      PROVE  Produced(d)'
  <2>1. CASE d = e
    BY <1>1, <2>1 DEF IInv, Produced, Addressed, Staff, ticket, Moves
  <2>2. CASE d # e
    BY <1>1, <2>2 DEF IInv, Produced, Addressed, Staff, ticket
  <2> QED
    BY <2>1, <2>2
<1>5. ASSUME NEW d \in Events, NEW u \in Users
      PROVE  Told(d, u)'
  <2>1. Told(d, u) /\ Copies(u, d) \in Nat
    BY <1>1, OfFinite DEF IInv
  <2>2. Copies(u, d)' = Copies(u, d) + (IF u \in job[e].recipients /\ d = e THEN 1 ELSE 0)
    <3>1. CASE u \in job[e].recipients
      BY <1>1, <1>2, <3>1, CopiesAppend
    <3>2. CASE u \notin job[e].recipients
      <4>1. inbox'[u] = inbox[u]
        BY <1>2, <3>2
      <4>2. Copies(u, d)' = Copies(u, d)
        BY <4>1 DEF Copies, Size
      <4> QED
        BY <2>1, <3>2, <4>2
    <3> QED
      BY <3>1, <3>2
  <2>3. CASE d = e
    BY <1>1, <2>1, <2>2, <2>3, MovesTold
  <2>4. CASE d # e
    BY <1>1, <2>1, <2>2, <2>4 DEF Told
  <2> QED
    BY <2>3, <2>4
<1>6. RowsOfEvents'
  <2> SUFFICES ASSUME NEW u \in Users, NEW i \in 1..Size(u)'
               PROVE  event[inbox'[u][i].event] # NotYet /\ Addressed(inbox'[u][i].event, u)
    BY DEF RowsOfEvents, Addressed, ticket
  <2>1. Produced(e) /\ event[e] # NotYet
    BY DEF IInv, Produced
  <2>2. inbox[u] \in Seq(Row)
    BY <1>1
  <2>3. \A j \in 1..Size(u) : event[inbox[u][j].event] # NotYet /\ Addressed(inbox[u][j].event, u)
    BY DEF IInv, RowsOfEvents
  <2>4. CASE u \in job[e].recipients
    <3>1. inbox'[u] = Append(inbox[u], row) /\ Addressed(e, u)
      BY <1>2, <2>1, <2>4 DEF Produced
    <3>2. Size(u)' = Size(u) + 1 /\ Size(u) \in Nat
      BY <2>2, <3>1 DEF Size
    <3>3. CASE i = Size(u) + 1
      <4>1. inbox'[u][i] = row
        BY <2>2, <3>1, <3>3 DEF Size
      <4>2. inbox'[u][i].event = e
        BY <4>1
      <4> QED
        BY <2>1, <3>1, <4>2
    <3>4. CASE i # Size(u) + 1
      <4>1. i \in 1..Size(u)
        BY <3>2, <3>4
      <4>2. inbox'[u][i] = inbox[u][i]
        BY <2>2, <3>1, <4>1 DEF Size
      <4> QED
        BY <2>3, <4>1, <4>2
    <3> QED
      BY <3>3, <3>4
  <2>5. CASE u \notin job[e].recipients
    <3>1. inbox'[u] = inbox[u]
      BY <1>2, <2>5
    <3> QED
      BY <2>3, <3>1 DEF Size
  <2> QED
    BY <2>4, <2>5
<1> QED
  BY <1>3, <1>4, <1>5, <1>6 DEF IInv

LEMMA FailedMoves ==
    ASSUME NEW j \in Job, NEW wrote \in {0, 1}, j.state = "active"
    PROVE  Moves(j, Failed(j), wrote)
<1> DEFINE new == Failed(j)
<1>1. /\ new.attempts = j.attempts + 1 /\ new.stalls = j.stalls
      /\ new.recipients = j.recipients /\ new.state \in {"waiting", "failed"}
      /\ j.attempts \in Nat /\ j.stalls \in Nat
  BY DEF Failed, Job
<1>2. new \in Job
  <2>1. j.attempts + 1 \in Nat
    BY <1>1
  <2>2. new = [j EXCEPT !.attempts = @ + 1, !.state = new.state]
    BY <1>1 DEF Failed, Job
  <2> HIDE DEF new
  <2> QED
    BY <1>1, <2>1, <2>2 DEF Job
<1>0. Failed(j) = new
  OBVIOUS
<1> HIDE DEF new
<1>3. /\ j.state \notin {"inserted", "completed"}
      /\ new.state \notin {"inserted", "completed"} /\ new.state # "none"
  BY <1>1
<1>4. j.attempts + j.stalls + 0 + wrote <= new.attempts + new.stalls + 0
  BY <1>1
<1> QED
  BY <1>0, <1>1, <1>2, <1>3, <1>4 DEF Moves

LEMMA WorkerIInv ==
    ASSUME IInv, NEW e \in Events, Take(e) \/ InsertRows(e) \/ Emit(e)
    PROVE  IInv'
<1> DEFINE j == job[e]
<1>1. /\ job \in [Events -> Job] /\ j \in Job /\ TypeOK
      /\ faults \in 0..MaxFaults /\ poked \in BOOLEAN
      /\ UNCHANGED <<ticket, producer, bell>> /\ j.state # "none"
  BY DEF IInv, TypeOK, Take, InsertRows, Emit
<1>2. CASE Take(e)
  <2> DEFINE new == [j EXCEPT !.state = "active"]
  <2>1. /\ new \in Job /\ new.recipients = j.recipients /\ new.state = "active"
        /\ new.attempts = j.attempts /\ new.stalls = j.stalls
        /\ j.attempts \in Nat /\ j.stalls \in Nat
    BY <1>1 DEF Job
  <2>2. job' = [job EXCEPT ![e] = new] /\ UNCHANGED <<inbox, poked, faults>> /\ j.state = "waiting"
    BY <1>2 DEF Take
  <2> HIDE DEF new
  <2>3. Moves(j, new, 0)
    BY <2>1, <2>2 DEF Moves
  <2> QED
    BY <1>1, <2>2, <2>3, WorkIInv
<1>3. CASE Emit(e)
  <2> DEFINE new == [j EXCEPT !.state = "completed"]
  <2>1. /\ new \in Job /\ new.recipients = j.recipients /\ new.state = "completed"
        /\ new.attempts = j.attempts /\ new.stalls = j.stalls
        /\ j.attempts \in Nat /\ j.stalls \in Nat
    BY <1>1 DEF Job
  <2>2. /\ job' = [job EXCEPT ![e] = new] /\ UNCHANGED <<inbox, faults>> /\ j.state = "inserted"
        /\ poked' \in BOOLEAN
    BY <1>1, <1>3 DEF Emit
  <2> HIDE DEF new
  <2>3. Moves(j, new, 0)
    BY <2>1, <2>2 DEF Moves
  <2> QED
    BY <1>1, <2>2, <2>3, WorkIInv
<1>4. CASE /\ j.state = "active" /\ inbox' = NewRows(e)
           /\ job' = [job EXCEPT ![e].state = "inserted"]
           /\ UNCHANGED <<poked, faults>>
  <2> DEFINE new == [j EXCEPT !.state = "inserted"]
  <2>1. /\ new \in Job /\ new.recipients = j.recipients /\ new.state = "inserted"
        /\ new.attempts = j.attempts /\ new.stalls = j.stalls
        /\ j.attempts \in Nat /\ j.stalls \in Nat
    BY <1>1 DEF Job
  <2>2. job' = [job EXCEPT ![e] = new]
    BY <1>4
  <2> HIDE DEF new
  <2>3. Moves(j, new, 1)
    BY <1>4, <2>1 DEF Moves
  <2> QED
    BY <1>1, <1>4, <2>2, <2>3, RowsIInv
<1>5. CASE /\ j.state = "active" /\ Fault("answer") /\ inbox' = NewRows(e)
           /\ job' = [job EXCEPT ![e] = Failed(@)] /\ UNCHANGED poked
  <2>1. job' = [job EXCEPT ![e] = Failed(j)] /\ faults' \in 0..MaxFaults
    BY <1>1, <1>5, FaultType
  <2>2. Moves(j, Failed(j), 1)
    BY <1>1, <1>5, FailedMoves
  <2> QED
    BY <1>1, <1>5, <2>1, <2>2, RowsIInv
<1>6. CASE /\ j.state = "active" /\ Fault("insert") /\ UNCHANGED inbox
           /\ job' = [job EXCEPT ![e] = Failed(@)] /\ UNCHANGED poked
  <2>1. job' = [job EXCEPT ![e] = Failed(j)] /\ faults' \in 0..MaxFaults
    BY <1>1, <1>6, FaultType
  <2>2. Moves(j, Failed(j), 0)
    BY <1>1, <1>6, FailedMoves
  <2> QED
    BY <1>1, <1>6, <2>1, <2>2, WorkIInv
<1> QED
  BY <1>2, <1>3, <1>4, <1>5, <1>6 DEF InsertRows

\* A run that is cut off has stalled; it may have written its rows.
LEMMA CrashIInv == ASSUME IInv, Crash PROVE IInv'
<1>1. /\ TypeOK /\ UNCHANGED <<ticket, inbox, bell, poked>> /\ faults' \in 0..MaxFaults
      /\ job \in [Events -> Job] /\ producer \in [Events -> Producer]
      /\ job' = [e \in Events |-> Stalled(job[e])]
      /\ \A e \in Events : producer'[e] = IF producer[e].pc = "idle" THEN producer[e]
                                          ELSE [pc |-> "done", recipients |-> {}]
  BY FaultType DEF IInv, TypeOK, Crash
<1>2. ASSUME NEW e \in Events, job[e].state # "none"
      PROVE  Moves(job[e], job'[e], 0)
  <2> DEFINE j == job[e]
             new == Stalled(j)
  <2>1. j \in Job
    BY <1>1
  <2>2. /\ new.attempts = j.attempts /\ new.recipients = j.recipients
        /\ j.attempts \in Nat /\ j.stalls \in Nat
        /\ \/ new = j
           \/ new.stalls = j.stalls + 1 /\ new.state \in {"waiting", "failed"}
    BY <2>1 DEF Stalled, Job
  <2>3. new \in Job
    <3>1. CASE j.state \notin {"active", "inserted"}
      BY <2>1, <3>1 DEF Stalled
    <3>2. CASE j.state \in {"active", "inserted"}
      <4>1. new.stalls \in Nat /\ new.state \in {"waiting", "failed"}
        BY <2>1, <2>2, <3>2 DEF Stalled, Job
      <4>2. new = [j EXCEPT !.stalls = new.stalls, !.state = new.state]
        BY <2>1, <3>2 DEF Stalled, Job
      <4> HIDE DEF new
      <4> QED
        BY <2>1, <4>1, <4>2 DEF Job
    <3> QED
      BY <3>1, <3>2
  <2>4. job'[e] = new
    BY <1>1
  <2> HIDE DEF new
  <2> QED
    BY <1>2, <2>2, <2>3, <2>4 DEF Moves
<1>3. ASSUME NEW e \in Events, job[e].state = "none"
      PROVE  job'[e] = job[e]
  BY <1>1, <1>3 DEF Stalled
<1>4. TypeOK'
  <2>1. \A e \in Events : job'[e] \in Job
    BY <1>1, <1>2, <1>3 DEF Moves
  <2>2. \A e \in Events : producer'[e] \in Producer
    BY <1>1 DEF Producer
  <2> QED
    BY <1>1, <2>1, <2>2 DEF TypeOK, ticket, bell, Crash
<1>5. ASSUME NEW e \in Events
      PROVE  Produced(e)'
  <2>1. Produced(e) /\ job'[e].recipients = job[e].recipients
    BY <1>2, <1>3 DEF IInv, Moves
  <2> QED
    BY <1>1, <1>3, <2>1 DEF Produced, Addressed, Staff, ticket
<1>6. ASSUME NEW e \in Events, NEW u \in Users, Told(e, u)
      PROVE  Told(e, u)'
  <2>1. Copies(u, e)' = Copies(u, e) /\ Copies(u, e) \in Nat
    BY <1>1, SameCopies, OfFinite
  <2>2. CASE job[e].state # "none"
    BY <1>1, <1>2, <1>6, <2>1, <2>2, MovesTold
  <2>3. CASE job[e].state = "none"
    BY <1>3, <1>6, <2>1, <2>3 DEF Told
  <2> QED
    BY <2>2, <2>3
<1> QED
  BY <1>1, <1>4, <1>5, <1>6, JobsOnly

--------------------------------------------------------------------------------
(* Every step *)

LEMMA StutterIInv == IInv /\ UNCHANGED vars => IInv'
<1> SUFFICES ASSUME IInv, UNCHANGED vars PROVE IInv'
  OBVIOUS
<1>1. TypeOK'
  BY DEF IInv, TypeOK, vars
<1>2. \A e \in Events : Produced(e)'
  BY DEF IInv, Produced, Addressed, Staff, vars
<1> QED
  BY <1>1, <1>2, NoRowWritten DEF vars

LEMMA NextIInv == IInv /\ [Next]_vars => IInv'
<1> SUFFICES ASSUME IInv, Next PROVE IInv'
  BY StutterIInv
<1>1. ASSUME NEW e \in Events, Produce(e) \/ Work(e)
      PROVE  IInv'
  BY <1>1, CandidatesIInv, EnqueueIInv, WorkerIInv DEF Produce, Work
<1> QED
  BY <1>1, CommitIInv, WorldIInv, CrashIInv, BellIInv, MarkIInv DEF Next, Serve

LEMMA Invariance == Spec => []IInv
BY InitIInv, NextIInv, PTL DEF Spec

--------------------------------------------------------------------------------
(* Theorems *)

(* Every reachable state is typed, for any number of users and events      *)
(* (Notifications).                                                        *)
THEOREM TypeCorrect == Spec => []TypeOK
<1>1. IInv => TypeOK
  BY DEF IInv
<1> QED
  BY <1>1, Invariance, PTL

(* Whoever is told did not do it themselves, and was staff at some time    *)
(* since the note was written, if it is one (the notify methods of the     *)
(* tickets service, and their recipients).                                 *)
THEOREM AddressedTheorem == Spec => []NoticesAddressed
<1>1. IInv => NoticesAddressed
  BY DEF IInv, RowsOfEvents, Addressed, NoticesAddressed
<1> QED
  BY <1>1, Invariance, PTL

(* A recipient has no more rows of an event than its job had runs, and at  *)
(* least one once it is completed; nobody else has any (the processor of   *)
(* the queue, createForRecipients).                                        *)
THEOREM RowsTheorem == Spec => []OneRowPerRun
<1>1. IInv => OneRowPerRun
  BY DEF IInv, Told, OneRowPerRun
<1> QED
  BY <1>1, Invariance, PTL

================================================================================
