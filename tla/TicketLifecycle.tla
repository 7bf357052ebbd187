---------------------------- MODULE TicketLifecycle ----------------------------
(***************************************************************************)
(* One ticket row, the requests that change its status, trash marker,      *)
(* conversation and SLA clocks, and the background SLA scanner.            *)
(*                                                                         *)
(* Every handler is an async function: it reads the row, checks what it    *)
(* read, awaits, and writes in a later statement (PostgreSQL at READ       *)
(* COMMITTED, no row locks).  A handler is therefore a record that keeps   *)
(* what the read returned, and each await is a point where the other       *)
(* handlers, the scanner and the clock may step.                           *)
(*                                                                         *)
(* Requests a guard rejects (400, 403, 409) and requests that return early *)
(* change nothing and have no action.  Subject, body, audit rows and the   *)
(* realtime emission are best effort and read by no property here.         *)
(***************************************************************************)
EXTENDS TicketRules, Sequences

CONSTANTS
    Handlers,     \* HTTP requests in flight at the same time
    Scanners,     \* SLA scans in flight: one per worker, overlapping ones included
    Operations,   \* the requests that are issued
    MaxChanges,   \* bound: no status request is issued once the log is this long
    MaxMessages   \* bound: no message request is issued once there are this many

StatusOps  == {"status", "patch"}
MessageOps == {"staffReply", "customerReply", "note"}
TrashOps   == {"trash", "restore"}

ASSUME LifecycleAssumption ==
    /\ Operations \subseteq StatusOps \cup MessageOps \cup TrashOps
    /\ MaxChanges \in Nat
    /\ MaxMessages \in Nat

VARIABLES
    status,      \* ticket.status
    clock,       \* the SLA columns, one clock per target
    deleted,     \* ticket.deletedAt is not null
    now,         \* wall clock
    statusLog,   \* status events of the timeline, in commit order
    slaLog,      \* SLA events of the timeline, in commit order
    messages,    \* ticket messages: the kind of request that wrote each
    jobs,        \* notification jobs of status changes and messages
    slaJobs,     \* notification jobs of SLA transitions
    handler,     \* the requests in flight
    scanner      \* the scans in flight

vars == <<status, clock, deleted, now, statusLog, slaLog, messages, jobs,
          slaJobs, handler, scanner>>

ticket   == <<status, clock, deleted>>
timeline == <<statusLog, slaLog, messages>>
queue    == <<jobs, slaJobs>>

--------------------------------------------------------------------------------
(* Types *)

Actor       == {"staff", "customer"}
StatusEvent == [by : Actor, from : Status, to : Status]

\* SLA events keep their place among the status events of the same timeline.
SlaEvent == [target : Target, from : SlaState, to : SlaState, due : Time,
             after : Nat]

Job    == [type : {"STATUS_CHANGED", "MESSAGE"}, id : Nat]
SlaJob == [target : Target, level : SlaState, event : Nat]

(* A request in flight: what it is, where it awaits, the status it read    *)
(* and the one it asks for, when it read, and the event it wrote.          *)
Handler == [op : StatusOps \cup MessageOps \cup TrashOps \cup {"none"},
            pc : {"idle", "write", "mark", "announce"},
            from : Status, to : Status, at : Nat, event : Nat]

Idle == [op |-> "none", pc |-> "idle", from |-> "OPEN", to |-> "OPEN",
         at |-> 0, event |-> 0]

(* A scan in flight: its `now', the row as findMany returned it, the       *)
(* target evaluated next, and the transition it still has to announce.     *)
Seen    == [Target -> [state : SlaState, due : Time]]
Scanner == [pc : {"idle", "read", "evaluate", "notify"}, at : Nat, seen : Seen,
            target : Target, level : SlaState, event : Nat]

Unseen   == [t \in Target |-> [state |-> "ON_TRACK", due |-> NoTime]]
Sleeping == [pc |-> "idle", at |-> 0, seen |-> Unseen,
             target |-> "FIRST_RESPONSE", level |-> "ON_TRACK", event |-> 0]

TypeOK ==
    /\ status \in Status
    /\ clock \in [Target -> Clock]
    /\ deleted \in BOOLEAN
    /\ now \in Instants
    /\ statusLog \in Seq(StatusEvent)
    /\ slaLog \in Seq(SlaEvent)
    /\ messages \in Seq(MessageOps)
    /\ jobs \subseteq Job
    /\ slaJobs \subseteq SlaJob
    /\ handler \in [Handlers -> Handler]
    /\ scanner \in [Scanners -> Scanner]

--------------------------------------------------------------------------------
\* The row as createTicket leaves it, at time 0.
Init ==
    /\ status = "OPEN"
    /\ clock = [t \in Target |-> StartedClock(t, 0)]
    /\ deleted = FALSE
    /\ now = 0
    /\ statusLog = <<>>
    /\ slaLog = <<>>
    /\ messages = <<>>
    /\ jobs = {}
    /\ slaJobs = {}
    /\ handler = [h \in Handlers |-> Idle]
    /\ scanner = [s \in Scanners |-> Sleeping]

\* The instants a `new Date()' taken since t may have read.
Since(t) == {u \in Instants : t <= u /\ u <= now}

Start(h, op, from, to) ==
    /\ op \in Operations
    /\ handler[h].pc = "idle"
    /\ handler' = [handler EXCEPT ![h] =
                     [op |-> op, pc |-> "write", from |-> from, to |-> to,
                      at |-> now, event |-> 0]]

Goto(h, pc, event) ==
    handler' = [handler EXCEPT ![h].pc = pc, ![h].event = event]

Finish(h) == handler' = [handler EXCEPT ![h] = Idle]

Writing(h, op) == handler[h].pc = "write" /\ handler[h].op = op

--------------------------------------------------------------------------------
(* updateTicketStatus (staff) *)

StatusRead(h, to) ==
    /\ ~deleted
    /\ to \in AllowedFrom(status)
    /\ Len(statusLog) < MaxChanges
    /\ Start(h, "status", status, to)
    /\ UNCHANGED <<ticket, now, timeline, queue, scanner>>

\* Mutant: the update names the row by id alone.
StillInStatusUnchecked(h) == TRUE

\* updateMany matches only while the row is still in the status that was read.
StillInStatus(h) == status = handler[h].from

\* Status, resolution clock and event are written by one transaction.
StatusCommit(h) ==
    /\ Writing(h, "status")
    /\ StillInStatus(h)
    /\ LET from == handler[h].from
           to   == handler[h].to
       IN  /\ status' = to
           /\ \E t \in Since(handler[h].at) :
                clock' = [clock EXCEPT !["RESOLUTION"] =
                            ResolutionAfter(@, from, to, t)]
           /\ statusLog' = Append(statusLog,
                                  [by |-> "staff", from |-> from, to |-> to])
    /\ Goto(h, "announce", Len(statusLog) + 1)
    /\ UNCHANGED <<deleted, now, slaLog, messages, queue, scanner>>

\* No row matched: 409, nothing written.
StatusConflict(h) ==
    /\ Writing(h, "status")
    /\ ~StillInStatus(h)
    /\ Finish(h)
    /\ UNCHANGED <<ticket, now, timeline, queue, scanner>>

--------------------------------------------------------------------------------
(* updateTicket (the customer's PATCH): closes or reopens *)

PatchRead(h, to) ==
    /\ \/ to = "CLOSED" /\ status # "CLOSED"
       \/ to = "OPEN" /\ status = "CLOSED"
    /\ Len(statusLog) < MaxChanges
    /\ Start(h, "patch", status, to)
    /\ UNCHANGED <<ticket, now, timeline, queue, scanner>>

\* The update names the row by id alone; the event carries the status read.
PatchCommit(h) ==
    /\ Writing(h, "patch")
    /\ status' = handler[h].to
    /\ statusLog' = Append(statusLog, [by   |-> "customer",
                                       from |-> handler[h].from,
                                       to   |-> handler[h].to])
    /\ Finish(h)
    /\ UNCHANGED <<clock, deleted, now, slaLog, messages, queue, scanner>>

--------------------------------------------------------------------------------
(* createPublicReply and createInternalNote *)

MessageRead(h, op) ==
    /\ op \in MessageOps
    /\ ~deleted
    /\ op # "note" => status # "CLOSED"
    /\ Len(messages) < MaxMessages
    /\ Start(h, op, status, status)
    /\ UNCHANGED <<ticket, now, timeline, queue, scanner>>

\* Mutant: an internal note answers the first response too.
AfterMessageOfStaff(op) ==
    IF op \in {"staffReply", "note"} THEN "mark" ELSE "announce"

\* Only a public reply by staff goes on to stop the first-response clock.
AfterMessage(op) == IF op = "staffReply" THEN "mark" ELSE "announce"

MessageCommit(h) ==
    /\ handler[h].pc = "write"
    /\ handler[h].op \in MessageOps
    /\ messages' = Append(messages, handler[h].op)
    /\ handler' = [handler EXCEPT ![h].pc    = AfterMessage(handler[h].op),
                                  ![h].event = Len(messages) + 1,
                                  ![h].at    = now]
    /\ UNCHANGED <<ticket, now, statusLog, slaLog, queue, scanner>>

\* Mutant: every staff reply stamps the row.
FirstResponseUnsetUnchecked == TRUE

\* The where clause of markFirstResponse.
FirstResponseUnset == clock["FIRST_RESPONSE"].stopped = NoTime

MarkFirstResponse(h) ==
    /\ handler[h].pc = "mark"
    /\ IF FirstResponseUnset
       THEN \E t \in Since(handler[h].at) :
              clock' = [clock EXCEPT !["FIRST_RESPONSE"].state = "MET",
                                     !["FIRST_RESPONSE"].stopped = t]
       ELSE UNCHANGED clock
    /\ Goto(h, "announce", handler[h].event)
    /\ UNCHANGED <<status, deleted, now, timeline, queue, scanner>>

\* markFirstResponseSafely logs and swallows a failed update.
MarkFails(h) ==
    /\ handler[h].pc = "mark"
    /\ Goto(h, "announce", handler[h].event)
    /\ UNCHANGED <<ticket, now, timeline, queue, scanner>>

--------------------------------------------------------------------------------
(* moveTicketToTrash and restoreTicket (admin) *)

TrashRead(h) ==
    /\ ~deleted
    /\ Start(h, "trash", status, status)
    /\ UNCHANGED <<ticket, now, timeline, queue, scanner>>

TrashCommit(h) ==
    /\ Writing(h, "trash")
    /\ deleted' = TRUE
    /\ Finish(h)
    /\ UNCHANGED <<status, clock, now, timeline, queue, scanner>>

RestoreRead(h) ==
    /\ deleted
    /\ Start(h, "restore", status, status)
    /\ UNCHANGED <<ticket, now, timeline, queue, scanner>>

RestoreCommit(h) ==
    /\ Writing(h, "restore")
    /\ deleted' = FALSE
    /\ Finish(h)
    /\ UNCHANGED <<status, clock, now, timeline, queue, scanner>>

--------------------------------------------------------------------------------
(* After the commit: enqueue the notification (the event or message id is  *)
(* the job id).  A failed enqueue is swallowed.                            *)

JobOf(h) ==
    [type |-> IF handler[h].op = "status" THEN "STATUS_CHANGED" ELSE "MESSAGE",
     id   |-> handler[h].event]

Announce(h) ==
    /\ handler[h].pc = "announce"
    /\ jobs' = jobs \cup {JobOf(h)}
    /\ Finish(h)
    /\ UNCHANGED <<ticket, now, timeline, slaJobs, scanner>>

(* A statement fails, the enqueue fails or the process dies: the request   *)
(* ends where it awaits and what it had committed stays.                   *)
Abort(h) ==
    /\ handler[h].pc # "idle"
    /\ Finish(h)
    /\ UNCHANGED <<ticket, now, timeline, queue, scanner>>

--------------------------------------------------------------------------------
(* SlaService.runScan.  The `now' argument is read before the query. *)

ScanStart(s) ==
    /\ scanner[s].pc = "idle"
    /\ scanner' = [scanner EXCEPT ![s].pc = "read", ![s].at = now]
    /\ UNCHANGED <<ticket, now, timeline, queue, handler>>

\* The where clause of the candidate query.
Candidate ==
    /\ ~deleted
    /\ \E t \in Target : clock[t].state \in RunningState /\ clock[t].due # NoTime

ScanRead(s) ==
    /\ scanner[s].pc = "read"
    /\ scanner' = [scanner EXCEPT ![s] =
         IF Candidate
         THEN [@ EXCEPT !.pc = "evaluate",
                        !.seen = [t \in Target |-> [state |-> clock[t].state,
                                                    due   |-> clock[t].due]]]
         ELSE Sleeping]
    /\ UNCHANGED <<ticket, now, timeline, queue, handler>>

\* evaluateTarget on the row as it was read.
Wanted(s) ==
    LET target == scanner[s].target
        seen   == scanner[s].seen[target]
    IN  Escalated(target, seen.state, seen.due, scanner[s].at)

Evaluating(s) == scanner[s].pc = "evaluate"
SeenState(s)  == scanner[s].seen[scanner[s].target].state

\* FIRST_RESPONSE is evaluated before RESOLUTION, then the scan is over.
NextTarget(s) ==
    scanner' = [scanner EXCEPT ![s] =
      IF @.target = "FIRST_RESPONSE"
      THEN [@ EXCEPT !.pc = "evaluate", !.target = "RESOLUTION",
                     !.level = "ON_TRACK", !.event = 0]
      ELSE Sleeping]

ScanSkip(s) ==
    /\ Evaluating(s)
    /\ Wanted(s) = SeenState(s)
    /\ NextTarget(s)
    /\ UNCHANGED <<ticket, now, timeline, queue, handler>>

\* Mutant: the update names the row by id alone.
StillInStateUnchecked(s) == TRUE

\* Mutant: the update only spares a clock that was met meanwhile.
StillInStateUnlessMet(s) == clock[scanner[s].target].state # "MET"

\* commitTransition matches only while the target is in the state that was read.
StillInState(s) == clock[scanner[s].target].state = SeenState(s)

\* Mutant: previousState and newState are swapped.
EscalationEventSwapped(s) ==
    [target |-> scanner[s].target, from |-> Wanted(s), to |-> SeenState(s),
     due |-> scanner[s].seen[scanner[s].target].due, after |-> Len(statusLog)]

\* The SLA_AT_RISK or SLA_BREACHED event, with the due date as it was read.
EscalationEvent(s) ==
    [target |-> scanner[s].target, from |-> SeenState(s), to |-> Wanted(s),
     due |-> scanner[s].seen[scanner[s].target].due, after |-> Len(statusLog)]

ScanCommit(s) ==
    /\ Evaluating(s)
    /\ Wanted(s) # SeenState(s)
    /\ StillInState(s)
    /\ clock' = [clock EXCEPT ![scanner[s].target].state = Wanted(s)]
    /\ slaLog' = Append(slaLog, EscalationEvent(s))
    /\ scanner' = [scanner EXCEPT ![s].pc = "notify", ![s].level = Wanted(s),
                                  ![s].event = Len(slaLog) + 1]
    /\ UNCHANGED <<status, deleted, now, statusLog, messages, queue, handler>>

\* No row matched: commitTransition returns false.
ScanLost(s) ==
    /\ Evaluating(s)
    /\ Wanted(s) # SeenState(s)
    /\ ~StillInState(s)
    /\ NextTarget(s)
    /\ UNCHANGED <<ticket, now, timeline, queue, handler>>

\* The transaction failed: logged, and commitTransition returns false as well.
ScanCommitFails(s) ==
    /\ Evaluating(s)
    /\ Wanted(s) # SeenState(s)
    /\ NextTarget(s)
    /\ UNCHANGED <<ticket, now, timeline, queue, handler>>

\* Mutant: every enqueue gets an id of its own.
SlaJobKnownNever(s) == FALSE

(* The job id is sla:{ticket}:{target}:{level}.  A job of that id still    *)
(* held by the queue absorbs the new one; the last 1000 completed jobs are *)
(* held, and fewer than that are modelled.                                 *)
SlaJobKnown(s) ==
    \E j \in slaJobs : j.target = scanner[s].target /\ j.level = scanner[s].level

ScanNotify(s) ==
    /\ scanner[s].pc = "notify"
    /\ slaJobs' = IF SlaJobKnown(s) THEN slaJobs
                  ELSE slaJobs \cup {[target |-> scanner[s].target,
                                      level  |-> scanner[s].level,
                                      event  |-> scanner[s].event]}
    /\ NextTarget(s)
    /\ UNCHANGED <<ticket, now, timeline, jobs, handler>>

\* Nobody to notify, or the enqueue failed and was swallowed.
ScanNotifyFails(s) ==
    /\ scanner[s].pc = "notify"
    /\ NextTarget(s)
    /\ UNCHANGED <<ticket, now, timeline, queue, handler>>

\* A query fails or the worker dies; the job is retried or the next tick comes.
ScanAbort(s) ==
    /\ scanner[s].pc # "idle"
    /\ scanner' = [scanner EXCEPT ![s] = Sleeping]
    /\ UNCHANGED <<ticket, now, timeline, queue, handler>>

--------------------------------------------------------------------------------
Tick ==
    /\ \E t \in Instants : t > now /\ now' = t
    /\ UNCHANGED <<ticket, timeline, queue, handler, scanner>>

HandlerStep(h) ==
    \/ \E to \in Status : StatusRead(h, to)
    \/ StatusCommit(h)
    \/ StatusConflict(h)
    \/ \E to \in Status : PatchRead(h, to)
    \/ PatchCommit(h)
    \/ \E op \in MessageOps : MessageRead(h, op)
    \/ MessageCommit(h)
    \/ MarkFirstResponse(h)
    \/ MarkFails(h)
    \/ TrashRead(h)
    \/ TrashCommit(h)
    \/ RestoreRead(h)
    \/ RestoreCommit(h)
    \/ Announce(h)
    \/ Abort(h)

ScannerStep(s) ==
    \/ ScanStart(s)
    \/ ScanRead(s)
    \/ ScanSkip(s)
    \/ ScanCommit(s)
    \/ ScanLost(s)
    \/ ScanCommitFails(s)
    \/ ScanNotify(s)
    \/ ScanNotifyFails(s)
    \/ ScanAbort(s)

Next ==
    \/ \E h \in Handlers : HandlerStep(h)
    \/ \E s \in Scanners : ScannerStep(s)
    \/ Tick

Spec == Init /\ [][Next]_vars

(* The repeatable job ticks every 60 seconds and a failing scan is retried: *)
(* failures are transient, so a step of the scan that keeps being possible  *)
(* is taken at last.  Requests are never obliged to come or to finish.      *)
FairSpec ==
    /\ Spec
    /\ WF_vars(Tick)
    /\ \A s \in Scanners :
         /\ WF_vars(ScanStart(s))
         /\ SF_vars(ScanRead(s))
         /\ SF_vars(ScanSkip(s))
         /\ SF_vars(ScanCommit(s))
         /\ SF_vars(ScanLost(s))
         /\ SF_vars(ScanNotify(s))
--------------------------------------------------------------------------------
(* Safety *)

StatusAt(i) == IF i = 0 THEN "OPEN" ELSE statusLog[i].to

(* The timeline is the history of the row.  The row's status is where the  *)
(* last status event leads, and every staff event starts where the event   *)
(* before it led and follows the matrix: no two concurrent staff requests, *)
(* and no customer request between a staff read and its write, produce a   *)
(* forbidden move or a misleading event (updateTicketStatus).              *)
TimelineIsHistory ==
    /\ status = StatusAt(Len(statusLog))
    /\ \A i \in 1..Len(statusLog) :
         statusLog[i].by = "staff" =>
             /\ statusLog[i].from = StatusAt(i - 1)
             /\ statusLog[i].to \in AllowedFrom(statusLog[i].from)

(* A clock is stopped exactly when it is met.  The scanner never turns a   *)
(* clock that a reply or a resolution met meanwhile back into AT_RISK or   *)
(* BREACHED, and reopening forgets the stamp with the state.               *)
StampAgreesWithState ==
    \A t \in Target : clock[t].stopped # NoTime <=> clock[t].state = "MET"

(* As long as only staff have moved the ticket, its resolution clock is    *)
(* met exactly while it is resolved or closed.                             *)
StaffDrivesResolution ==
    (\A i \in 1..Len(statusLog) : statusLog[i].by = "staff")
        => (clock["RESOLUTION"].state = "MET" <=> status \in ResolvedStatuses)

(* The first response is answered once: neither a second staff reply, nor  *)
(* a scan that read the row before, nor a reopening moves it again         *)
(* (markFirstResponse, commitTransition).                                  *)
FirstResponseIsFinal ==
    [][clock["FIRST_RESPONSE"].stopped # NoTime
         => clock'["FIRST_RESPONSE"] = clock["FIRST_RESPONSE"]]_vars

(* Only a public reply by staff answers the first response: never a reply  *)
(* of the customer or an internal note (createPublicReply).                *)
FirstResponseNeedsStaffReply ==
    clock["FIRST_RESPONSE"].stopped # NoTime
        => \E i \in 1..Len(messages) : messages[i] = "staffReply"

IsReopening(i) ==
    /\ statusLog[i].by = "staff"
    /\ statusLog[i].from \in ResolvedStatuses
    /\ statusLog[i].to \in ReopenStatuses

Level(state) == IF state = "BREACHED" THEN 2 ELSE IF state = "AT_RISK" THEN 1
                                                             ELSE 0

(* A target climbs ON_TRACK, AT_RISK, BREACHED and the timeline records    *)
(* each level once, however scans overlap or are retried; only a reopening *)
(* by staff lets the resolution target climb again (commitTransition:      *)
(* "Concurrency-safe, idempotent transition").                             *)
EscalatesOnce ==
    \A i, j \in 1..Len(slaLog) :
        (i < j /\ slaLog[i].target = slaLog[j].target
               /\ Level(slaLog[i].to) >= Level(slaLog[j].to))
        => /\ slaLog[i].target = "RESOLUTION"
           /\ \E k \in (slaLog[i].after + 1)..slaLog[j].after : IsReopening(k)

(* An escalated clock has the event that says so in the timeline, and no   *)
(* reopening came after that event.                                        *)
EscalationIsOnRecord ==
    \A t \in Target :
        clock[t].state \in {"AT_RISK", "BREACHED"} =>
            \E i \in 1..Len(slaLog) :
                /\ slaLog[i].target = t
                /\ slaLog[i].to = clock[t].state
                /\ t = "RESOLUTION" => \A k \in (slaLog[i].after + 1)..Len(statusLog) :
                                          ~IsReopening(k)

(* A notification job tells of something that was committed: a status job  *)
(* names a staff event, an SLA job the event of its target and level, and  *)
(* no target and level has two jobs.  A request that lost the race with    *)
(* another announces nothing.                                              *)
JobsHaveEvents ==
    /\ \A j \in jobs :
         j.type = "STATUS_CHANGED" => /\ j.id \in 1..Len(statusLog)
                                      /\ statusLog[j.id].by = "staff"
    /\ \A j \in slaJobs : /\ j.event \in 1..Len(slaLog)
                          /\ slaLog[j.event].target = j.target
                          /\ slaLog[j.event].to = j.level
    /\ \A j, k \in slaJobs : j.target = k.target /\ j.level = k.level => j = k

(* Refinement *)

Contract == INSTANCE TicketContract WITH status <- status, clock <- clock

(* Seen through its status and clocks alone, the ticket behaves as if      *)
(* every staff move, first response and escalation were one atomic step.   *)
ImplementsContract == Contract!Spec

(* Liveness *)

Overdue(t) ==
    /\ ~deleted
    /\ clock[t].due # NoTime
    /\ clock[t].due <= now
    /\ clock[t].state \in RunningState

(* A live ticket that passes a due date does not stay unnoticed: it is     *)
(* answered, resolved, trashed or found breached by a later scan, whatever *)
(* scans fail or lose their race.                                          *)
OverdueIsNoticed == \A t \in Target : Overdue(t) ~> ~Overdue(t)

--------------------------------------------------------------------------------
(* What docs and comments say and the code does not do *)

(* "trashed tickets are hidden from every role's list/detail/mutations and *)
(* from the SLA scanner": nothing is written to a ticket in the trash.     *)
TrashedIsLeftAlone ==
    [][deleted => UNCHANGED <<status, clock, timeline>>]_vars

(* "Only closed tickets can be reopened by customers.": when a customer's  *)
(* reopening is written, the ticket is closed.                             *)
OnlyClosedIsReopened ==
    [][(statusLog' # statusLog /\ statusLog'[Len(statusLog')].by = "customer"
          /\ statusLog'[Len(statusLog')].to = "OPEN")
         => status = "CLOSED"]_vars

(* "Concurrency-safe" transition: a clock becomes breached only when its   *)
(* due date has passed.                                                    *)
BreachedOnlyWhenDue ==
    [][\A t \in Target :
         (clock[t].state # "BREACHED" /\ clock'[t].state = "BREACHED")
             => clock'[t].due <= now]_vars

(* "resolve/reopen drive the resolution clock": it is met exactly while    *)
(* the ticket is resolved or closed, whoever moved it.                     *)
StatusDrivesResolution ==
    clock["RESOLUTION"].state = "MET" <=> status \in ResolvedStatuses

================================================================================
