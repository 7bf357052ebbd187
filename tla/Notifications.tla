------------------------------ MODULE Notifications ------------------------------
(***************************************************************************)
(* In-app notifications, from the committed event to the badge: the        *)
(* producers at the end of a request, the queue, the worker that writes a  *)
(* row for every recipient, and the bell that polls.                       *)
(*                                                                         *)
(* One ticket.  An event is committed in one transaction with its message  *)
(* or change; what follows is done after the commit, one await at a time,  *)
(* by a process that may restart, and its worker with it.  An inbox is a   *)
(* user's rows in the order of their creation.                             *)
(***************************************************************************)
EXTENDS Integers, Sequences, FiniteSets

CONSTANTS
    Users, Nobody,
    Requester, FirstAssignee, Team,     \* of the ticket; who is in its team
    FirstRole,
    Viewer,                             \* whose bell is open
    Events, Happenings,                 \* what an event may be
    PageLimit,                          \* items the bell shows
    MaxAttempts,                        \* of a job
    Faults,
    MaxFaults, MaxChanges           \* bounds

EventKind == {"REPLIED", "NOTE_ADDED", "ASSIGNED", "STATUS_CHANGED"}

(* redis: the queue is not reached; insert: the insert fails; answer: it   *)
(* is committed, and its answer lost; patch: a request of the bell fails;  *)
(* crash: the process restarts.                                            *)
FaultName == {"redis", "insert", "answer", "patch", "crash"}

ASSUME NotificationsAssumption ==
    /\ Nobody \notin Users
    /\ Requester \in Users /\ Viewer \in Users
    /\ FirstAssignee \in Users \cup {Nobody} /\ Team \subseteq Users
    /\ FirstRole \in [Users -> {"CUSTOMER", "STAFF"}]
    /\ Happenings \subseteq [kind : EventKind, actor : Users, to : Users \cup {Nobody}]
    /\ \A h \in Happenings : h.to \in Users <=> h.kind = "ASSIGNED"
    /\ PageLimit \in Nat \ {0} /\ MaxAttempts \in Nat \ {0}
    /\ Faults \subseteq FaultName
    /\ MaxFaults \in Nat /\ MaxChanges \in Nat

VARIABLES
    role, assignee, changes,
    event,          \* [Events -> what it is, once it is committed]
    producer,       \* [Events -> the request that produces]
    job,            \* [Events -> the queue's job]: its id is the event's
    inbox,          \* [Users -> Seq(Row)]
    items, badge,   \* what the viewer's bell shows
    fetch,          \* the list request under way
    marking,        \* the mark-read request under way
    poked,          \* a notification.created is on its way to the viewer
    faults,
    insiders        \* history: who was staff at some time since the event

ticket == <<role, assignee, changes, event, insiders>>
bell == <<items, badge, fetch, marking>>
vars == <<role, assignee, changes, event, producer, job, inbox, items, badge, fetch,
          marking, poked, faults, insiders>>

NotYet == [kind |-> "none", actor |-> Nobody, to |-> Nobody]

--------------------------------------------------------------------------------
(* Types *)

Row == [event : Events, read : BOOLEAN]
Item == [at : Nat, read : BOOLEAN]

Producer ==
    [pc : {"idle", "reading", "filtering", "enqueuing", "done"}, recipients : SUBSET Users]

Job ==
    [state : {"none", "waiting", "active", "inserted", "completed", "failed"},
     recipients : SUBSET Users, attempts : Nat, stalls : Nat]

\* `got': which of the parallel queries have answered.
Fetch == [on : BOOLEAN, got : SUBSET {"items", "unread"}, items : SUBSET Item, unread : Nat]

\* `at' is the item's position, 0 for all of them.
Marking == [pc : {"no", "sent", "written", "refetching"}, at : Nat]

TypeOK ==
    /\ role \in [Users -> {"CUSTOMER", "STAFF"}] /\ assignee \in Users \cup {Nobody}
    /\ event \in [Events -> Happenings \cup {NotYet}]
    /\ producer \in [Events -> Producer]
    /\ job \in [Events -> Job]
    /\ inbox \in [Users -> Seq(Row)]
    /\ items \subseteq Item /\ badge \in Nat
    /\ fetch \in Fetch /\ marking \in Marking /\ poked \in BOOLEAN
    /\ insiders \in [Events -> SUBSET Users]
    /\ faults \in 0..MaxFaults /\ changes \in 0..MaxChanges

NoFetch == [on |-> FALSE, got |-> {}, items |-> {}, unread |-> 0]
NewFetch == [NoFetch EXCEPT !.on = TRUE]
NotMarking == [pc |-> "no", at |-> 0]

Init ==
    /\ role = FirstRole /\ assignee = FirstAssignee /\ changes = 0
    /\ event = [e \in Events |-> NotYet]
    /\ producer = [e \in Events |-> [pc |-> "idle", recipients |-> {}]]
    /\ job = [e \in Events |->
                [state |-> "none", recipients |-> {}, attempts |-> 0, stalls |-> 0]]
    /\ inbox = [u \in Users |-> <<>>]
    /\ items = {} /\ badge = 0
    /\ fetch = NoFetch /\ marking = NotMarking /\ poked = FALSE
    /\ faults = 0
    /\ insiders = [e \in Events |-> {}]

Staff == {u \in Users : role[u] = "STAFF"}

Fault(f) == f \in Faults /\ faults < MaxFaults /\ faults' = faults + 1

--------------------------------------------------------------------------------
(* The producers *)

Goto(e, pc, recipients) ==
    producer' = [producer EXCEPT ![e] = [pc |-> pc, recipients |-> recipients]]

\* Mutant: the actor is told as well.
Everybody(candidates, actor) == candidates \ {Nobody}

\* uniqueExcludingActor
UniqueExcludingActor(candidates, actor) == candidates \ {Nobody, actor}

\* The handler's transaction.  Who is assigned is told, unless they did it.
Commit(e, h) ==
    /\ event[e] = NotYet
    /\ event' = [event EXCEPT ![e] = h]
    /\ insiders' = [insiders EXCEPT ![e] = Staff]
    /\ IF h.kind = "ASSIGNED"
       THEN /\ assignee' = h.to
            /\ LET told == UniqueExcludingActor({h.to}, h.actor)
               IN  Goto(e, IF told = {} THEN "done" ELSE "enqueuing", told)
       ELSE Goto(e, "reading", {}) /\ UNCHANGED assignee
    /\ UNCHANGED <<role, changes, job, inbox, bell, poked, faults>>

\* Candidates are read after the commit, from what the ticket is by then.
ReadTicket(e) ==
    LET note == event[e].kind = "NOTE_ADDED"
        told == UniqueExcludingActor({assignee} \cup (IF note THEN Team ELSE {Requester}),
                                     event[e].actor)
    IN  /\ producer[e].pc = "reading"
        /\ Goto(e, IF told = {} THEN "done" ELSE IF note THEN "filtering" ELSE "enqueuing",
                told)
        /\ UNCHANGED <<ticket, job, inbox, bell, poked, faults>>

\* A note is for staff only: a customer may still be a member of the team.
FilterRoles(e) ==
    LET told == producer[e].recipients \cap Staff
    IN  /\ producer[e].pc = "filtering"
        /\ Goto(e, IF told = {} THEN "done" ELSE "enqueuing", told)
        /\ UNCHANGED <<ticket, job, inbox, bell, poked, faults>>

Queued(e) ==
    job' = [job EXCEPT ![e].state = "waiting", ![e].recipients = producer[e].recipients]

\* enqueueNotification swallows a queue that cannot be reached.
Enqueue(e) ==
    /\ producer[e].pc = "enqueuing"
    /\ Goto(e, "done", {})
    /\ \/ Queued(e) /\ UNCHANGED faults
       \/ Fault("redis") /\ UNCHANGED job
    /\ UNCHANGED <<ticket, inbox, bell, poked>>

\* By an administrator; only a producer under way would notice.
ChangeRole(u) ==
    /\ changes < MaxChanges
    /\ \E e \in Events : event[e].kind = "NOTE_ADDED" /\ producer[e].pc # "done"
    /\ changes' = changes + 1
    /\ role' = [role EXCEPT ![u] = IF @ = "STAFF" THEN "CUSTOMER" ELSE "STAFF"]
    /\ insiders' = [e \in Events |-> insiders[e] \cup
                       (IF event[e] # NotYet /\ role[u] # "STAFF" THEN {u} ELSE {})]
    /\ UNCHANGED <<assignee, event, producer, job, inbox, bell, poked, faults>>

\* By a request whose own events are not followed.
Reassign(u) ==
    /\ u # assignee /\ changes < MaxChanges
    /\ \E e \in Events : producer[e].pc = "reading"
    /\ assignee' = u
    /\ changes' = changes + 1
    /\ UNCHANGED <<role, event, insiders, producer, job, inbox, bell, poked,
                   faults>>

--------------------------------------------------------------------------------
(* The worker: one job at a time *)

MaxStalls == 1

Take(e) ==
    /\ job[e].state = "waiting"
    /\ \A other \in Events : job[other].state \notin {"active", "inserted"}
    /\ job' = [job EXCEPT ![e].state = "active"]
    /\ UNCHANGED <<ticket, producer, inbox, bell, poked, faults>>

NewRows(e) ==
    [u \in Users |-> IF u \in job[e].recipients
                     THEN Append(inbox[u], [event |-> e, read |-> FALSE]) ELSE inbox[u]]

\* Mutant: an attempt too few.
FailedEarly(j) == [j EXCEPT !.attempts = @ + 1, !.state = "completed"]

Failed(j) ==
    [j EXCEPT !.attempts = @ + 1,
              !.state = IF j.attempts + 1 < MaxAttempts THEN "waiting" ELSE "failed"]

\* createForRecipients: all the rows in one statement.  An error is thrown on,
\* and the queue tries the job again; rows carry nothing of the job.
InsertRows(e) ==
    /\ job[e].state = "active"
    /\ \/ /\ inbox' = NewRows(e)
          /\ job' = [job EXCEPT ![e].state = "inserted"]
          /\ UNCHANGED faults
       \/ /\ Fault("answer")
          /\ inbox' = NewRows(e)
          /\ job' = [job EXCEPT ![e] = Failed(@)]
       \/ /\ Fault("insert")
          /\ job' = [job EXCEPT ![e] = Failed(@)]
          /\ UNCHANGED inbox
    /\ UNCHANGED <<ticket, producer, bell, poked>>

\* Each recipient's sockets are told; there may be none.
Emit(e) ==
    /\ job[e].state = "inserted"
    /\ job' = [job EXCEPT ![e].state = "completed"]
    /\ poked' \in {poked, poked \/ Viewer \in job[e].recipients}
    /\ UNCHANGED <<ticket, producer, inbox, bell, faults>>

Stalled(j) ==
    IF j.state \notin {"active", "inserted"} THEN j
    ELSE [j EXCEPT !.stalls = @ + 1, !.state = IF j.stalls < MaxStalls THEN "waiting" ELSE "failed"]

\* What the process had in hand is gone; the queue finds its job stalled.
Crash ==
    /\ Fault("crash")
    /\ producer' = [e \in Events |-> IF producer[e].pc = "idle" THEN producer[e]
                                     ELSE [pc |-> "done", recipients |-> {}]]
    /\ job' = [e \in Events |-> Stalled(job[e])]
    /\ UNCHANGED <<ticket, inbox, bell, poked>>

--------------------------------------------------------------------------------
(* The bell *)

Size(u) == Len(inbox[u])
Unread(u) == Cardinality({i \in 1..Size(u) : ~inbox[u][i].read})
Newest(u) ==
    {[at |-> i, read |-> inbox[u][i].read] : i \in {j \in 1..Size(u) : j > Size(u) - PageLimit}}

\* Mutant: only a bell with something unread looks again.
PollWhenUnread ==
    /\ badge > 0
    /\ ~fetch.on /\ fetch' = NewFetch
    /\ UNCHANGED <<ticket, producer, job, inbox, items, badge, marking, poked, faults>>

\* refetchInterval; a fetch under way is not doubled.
Poll ==
    /\ ~fetch.on /\ fetch' = NewFetch
    /\ UNCHANGED <<ticket, producer, job, inbox, items, badge, marking, poked, faults>>

\* A notification.created invalidates: what was being fetched is discarded,
\* and with it the wait of a mark-read request for it.
Poke ==
    /\ poked
    /\ poked' = FALSE
    /\ fetch' = NewFetch
    /\ marking' = IF marking.pc = "refetching" THEN NotMarking ELSE marking
    /\ UNCHANGED <<ticket, producer, job, inbox, items, badge, faults>>

\* listForUser: the queries run in parallel, not in one transaction.
FindItems ==
    /\ fetch.on /\ "items" \notin fetch.got
    /\ fetch' = [fetch EXCEPT !.got = @ \cup {"items"}, !.items = Newest(Viewer)]
    /\ UNCHANGED <<ticket, producer, job, inbox, items, badge, marking, poked, faults>>

CountUnread ==
    /\ fetch.on /\ "unread" \notin fetch.got
    /\ fetch' = [fetch EXCEPT !.got = @ \cup {"unread"}, !.unread = Unread(Viewer)]
    /\ UNCHANGED <<ticket, producer, job, inbox, items, badge, marking, poked, faults>>

Show ==
    /\ fetch.got = {"items", "unread"}
    /\ items' = fetch.items /\ badge' = fetch.unread
    /\ fetch' = NoFetch
    /\ marking' = IF marking.pc = "refetching" THEN NotMarking ELSE marking
    /\ UNCHANGED <<ticket, producer, job, inbox, poked, faults>>

\* Everything is disabled while a mark-read request is pending.
Click(at) ==
    /\ marking.pc = "no"
    /\ \/ at = 0 /\ badge > 0
       \/ [at |-> at, read |-> FALSE] \in items
    /\ marking' = [pc |-> "sent", at |-> at]
    /\ UNCHANGED <<ticket, producer, job, inbox, items, badge, fetch, poked, faults>>

\* markRead, markAllRead: the latter marks also what was not shown.
Mark ==
    /\ marking.pc = "sent"
    /\ inbox' = [inbox EXCEPT ![Viewer] = [i \in 1..Size(Viewer) |->
                    IF marking.at \in {0, i} THEN [@[i] EXCEPT !.read = TRUE] ELSE @[i]]]
    /\ marking' = [marking EXCEPT !.pc = "written"]
    /\ UNCHANGED <<ticket, producer, job, items, badge, fetch, poked, faults>>

\* onSuccess waits for the invalidated list.
Answered ==
    /\ marking.pc = "written"
    /\ marking' = [marking EXCEPT !.pc = "refetching"]
    /\ fetch' = NewFetch
    /\ UNCHANGED <<ticket, producer, job, inbox, items, badge, poked, faults>>

MarkFails ==
    /\ marking.pc \in {"sent", "written"} /\ Fault("patch")
    /\ marking' = NotMarking
    /\ UNCHANGED <<ticket, producer, job, inbox, items, badge, fetch, poked>>

--------------------------------------------------------------------------------
Produce(e) == ReadTicket(e) \/ FilterRoles(e) \/ Enqueue(e)
Work(e) == Take(e) \/ InsertRows(e) \/ Emit(e)
Serve == FindItems \/ CountUnread \/ Show \/ Mark \/ Answered \/ MarkFails

Next ==
    \/ \E e \in Events : Produce(e) \/ Work(e)
    \/ \E e \in Events, h \in Happenings : Commit(e, h)
    \/ \E u \in Users : ChangeRole(u)
    \/ \E u \in Users \cup {Nobody} : Reassign(u)
    \/ Crash
    \/ Poll \/ Poke \/ Serve
    \/ \E at \in 0..Size(Viewer) : Click(at)

\* The worker and the browser go on; users and handlers need not.
Fairness ==
    /\ \A e \in Events : WF_vars(Work(e))
    /\ WF_vars(Poll) /\ WF_vars(Poke)
    /\ WF_vars(FindItems) /\ WF_vars(CountUnread) /\ WF_vars(Show)
    /\ WF_vars(Mark \/ MarkFails) /\ WF_vars(Answered)
Spec == Init /\ [][Next]_vars /\ Fairness

--------------------------------------------------------------------------------
(* Properties *)

(* Nobody is told of what they did themselves, and of an internal note     *)
(* only who was staff at some time since it was written: an agent who was  *)
(* made a customer before the note never hears of it, although changeRole  *)
(* leaves them in the team.                                                *)
NoticesAddressed ==
    \A u \in Users : \A i \in 1..Size(u) :
        LET e == inbox[u][i].event
        IN  u # event[e].actor /\ (event[e].kind = "NOTE_ADDED" => u \in insiders[e])

Copies(u, e) == Cardinality({i \in 1..Size(u) : inbox[u][i].event = e})

(* A run of a job writes one row for each recipient, and none for others:  *)
(* a second row needs a retry or a stall, and a completed job has told     *)
(* every recipient.                                                        *)
OneRowPerRun ==
    \A e \in Events, u \in Users :
        LET j == job[e]
            runs == j.attempts + j.stalls + (IF j.state \in {"inserted", "completed"} THEN 1 ELSE 0)
        IN  IF u \in j.recipients
            THEN Copies(u, e) <= runs /\ (j.state = "completed" => Copies(u, e) > 0)
            ELSE Copies(u, e) = 0

(* What the queue has taken is delivered, or its attempts are used up.     *)
QueuedIsDelivered ==
    \A e \in Events :
        job[e].state = "waiting" ~>
            job[e].state = "failed" \/ \A u \in job[e].recipients : Copies(u, e) > 0

(* The bell comes to show what the database has, whatever events it missed *)
(* and whatever the parallel queries of one answer saw.                    *)
BellCatchesUp == <>[](badge = Unread(Viewer) /\ items = Newest(Viewer))

================================================================================
