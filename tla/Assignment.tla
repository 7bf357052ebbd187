------------------------------- MODULE Assignment -------------------------------
(***************************************************************************)
(* Who owns one ticket: direct assignment and claims, team transfers, and  *)
(* the reassignment requests of agents with their review.                  *)
(*                                                                         *)
(* As in TicketLifecycle every handler reads, checks what it read, and     *)
(* writes in a later statement at READ COMMITTED; none of the writes names *)
(* more than the row's id, so each lands on whatever the row has become.   *)
(* The handler record keeps what was read.  Queries about accounts and     *)
(* memberships that follow each other with no write between are one step.  *)
(* Requests a check refuses end in Abort.  Audit rows and the realtime     *)
(* emission are left out.  Roles do not change here.                       *)
(***************************************************************************)
EXTENDS Integers, Sequences, FiniteSets

CONSTANTS
    Agents, Managers, Admins,   \* the staff, by role
    Teams,
    Roster,                     \* the teams of every user at the start
    Unsettled,                  \* the users whose account changes meanwhile
    Rosters,                    \* the teams they are put in
    RoutedTeams,                \* where createTicket may put the ticket
    Nobody, NoTeam,             \* SQL NULL in assigneeId and teamId
    Handlers,                   \* HTTP requests in flight at the same time
    Operations,                 \* the requests that are issued
    MaxAssignments,             \* bound: no assignTicket starts beyond it
    MaxTransfers,               \* bound: no transfer starts beyond it
    MaxRequests                 \* bound: no reassignment request starts beyond it

Staff     == Agents \cup Managers \cup Admins
Reviewers == Managers \cup Admins

Decisions == {"approve", "reject"}
RowOps    == {"assign", "transfer"}
AskOps    == {"request", "cancel"}
AdminOps  == {"teams", "active", "trash"}

ASSUME AssignmentAssumption ==
    /\ Agents \cap Reviewers = {}
    /\ Managers \cap Admins = {}
    /\ Nobody \notin Staff
    /\ NoTeam \notin Teams
    /\ Unsettled \subseteq Staff /\ Rosters \subseteq SUBSET Teams
    /\ RoutedTeams \subseteq Teams \cup {NoTeam}
    /\ Roster \in [Staff -> SUBSET Teams]
    /\ Operations \subseteq RowOps \cup AskOps \cup Decisions \cup AdminOps
    /\ MaxAssignments \in Nat
    /\ MaxTransfers \in Nat
    /\ MaxRequests \in Nat

VARIABLES
    assignee,     \* ticket.assigneeId
    team,         \* ticket.teamId
    deleted,      \* ticket.deletedAt is not null
    member,       \* the team_members rows, per user
    active,       \* the users with isActive
    requests,     \* the assignment requests of the ticket, in creation order
    assignments,  \* ASSIGNED and REASSIGNED events of the timeline
    transfers,    \* TEAM_TRANSFERRED events of the timeline
    handler       \* the requests in flight

vars == <<assignee, team, deleted, member, active, requests, assignments,
          transfers, handler>>

ticket   == <<assignee, team, deleted>>
timeline == <<assignments, transfers>>
people   == <<member, active>>

--------------------------------------------------------------------------------
(* Types *)

Owner    == Staff \cup {Nobody}
TeamOrNo == Teams \cup {NoTeam}

\* `to' is Nobody in a RETURN_TO_QUEUE request, a user in a REASSIGN_USER one.
Request == [by : Agents, to : Owner,
            status : {"PENDING", "APPROVED", "REJECTED", "CANCELLED"}]

\* `via' is the request the event was made through, 0 for none.
Assigned == [by : Staff, from : Owner, to : Owner, via : Nat]
Moved    == [by : Staff, from : TeamOrNo, to : Teams]

(* A request in flight: where it awaits, who sent it, the owner and team   *)
(* it read, the owner or team it asks for, and the request row or event it *)
(* is about.                                                               *)
Handler == [op : RowOps \cup AskOps \cup Decisions \cup {"none"},
            pc : {"idle", "check", "pending", "write", "clear", "announce"},
            by : Owner, from : Owner, team : TeamOrNo, to : Owner,
            dest : TeamOrNo, ref : Nat]

Idle == [op |-> "none", pc |-> "idle", by |-> Nobody, from |-> Nobody,
         team |-> NoTeam, to |-> Nobody, dest |-> NoTeam, ref |-> 0]

TypeOK ==
    /\ assignee \in Owner
    /\ team \in TeamOrNo
    /\ deleted \in BOOLEAN
    /\ member \in [Staff -> SUBSET Teams]
    /\ active \in SUBSET Staff
    /\ requests \in Seq(Request)
    /\ assignments \in Seq(Assigned)
    /\ transfers \in Seq(Moved)
    /\ handler \in [Handlers -> Handler]

--------------------------------------------------------------------------------
\* The row as createTicket leaves it: unassigned, in the routed team or in none.
Init ==
    /\ assignee = Nobody
    /\ team \in RoutedTeams
    /\ deleted = FALSE
    /\ member = Roster
    /\ active = Staff
    /\ requests = <<>>
    /\ assignments = <<>>
    /\ transfers = <<>>
    /\ handler = [h \in Handlers |-> Idle]

\* buildVisibilityWhere, for a viewer who is staff.
Visible(u) ==
    /\ ~deleted
    /\ \/ u \in Admins
       \/ assignee = u
       \/ team \in member[u]
       \/ u \in Managers /\ assignee = Nobody /\ team = NoTeam

\* The handler of user u read the row and awaits at pc.
Start(h, op, pc, u, to, dest, ref) ==
    /\ op \in Operations
    /\ handler[h].pc = "idle"
    /\ handler' = [handler EXCEPT ![h] =
                     [op |-> op, pc |-> pc, by |-> u, from |-> assignee,
                      team |-> team, to |-> to, dest |-> dest, ref |-> ref]]

At(h, op, pc)    == handler[h].op = op /\ handler[h].pc = pc
Goto(h, pc)      == handler' = [handler EXCEPT ![h].pc = pc]
Tell(h, ref)     == handler' = [handler EXCEPT ![h].pc = "announce", ![h].ref = ref]
Finish(h)        == handler' = [handler EXCEPT ![h] = Idle]
OnReadTeam(h, u) == handler[h].team \in member[u]

AppendAssigned(h, to, via) ==
    assignments' = Append(assignments, [by   |-> handler[h].by,
                                        from |-> handler[h].from,
                                        to   |-> to,
                                        via  |-> via])

--------------------------------------------------------------------------------
(* assignTicket *)

\* Mutant: agents are not held to claiming.
MayAssignAnyone(u, to) == TRUE

\* Agents only claim for themselves a ticket they read as unassigned.
MayAssign(u, to) == u \in Agents => assignee = Nobody /\ to = u

AssignRead(h, u, to) ==
    /\ Visible(u)
    /\ to # assignee
    /\ MayAssign(u, to)
    /\ Len(assignments) < MaxAssignments
    /\ Start(h, "assign", IF to = Nobody THEN "write" ELSE "check", u, to, NoTeam, 0)
    /\ UNCHANGED <<ticket, people, requests, timeline>>

\* The new owner has to be in the team that was read, unless an admin asks.
AssignCheck(h) ==
    /\ At(h, "assign", "check")
    /\ handler[h].by \in Admins \/ OnReadTeam(h, handler[h].to)
    /\ Goto(h, "write")
    /\ UNCHANGED <<ticket, people, requests, timeline>>

\* An owner who did not assign the ticket itself is notified.
AssignCommit(h) ==
    /\ At(h, "assign", "write")
    /\ assignee' = handler[h].to
    /\ AppendAssigned(h, handler[h].to, 0)
    /\ IF handler[h].to \in {Nobody, handler[h].by}
       THEN Finish(h)
       ELSE Tell(h, Len(assignments) + 1)
    /\ UNCHANGED <<team, deleted, people, requests, transfers>>

--------------------------------------------------------------------------------
(* transferTicketTeam *)

TransferRead(h, u, dest) ==
    /\ u \in Reviewers
    /\ Visible(u)
    /\ dest # team
    /\ Len(transfers) < MaxTransfers
    /\ Start(h, "transfer", "check", u, Nobody, dest, 0)
    /\ UNCHANGED <<ticket, people, requests, timeline>>

(* Managers move tickets only to teams of their own; the owner that was    *)
(* read is cleared unless it belongs to the destination.                   *)
TransferCheck(h) ==
    LET r == handler[h]
    IN  /\ At(h, "transfer", "check")
        /\ r.by \in Managers => r.dest \in member[r.by]
        /\ Goto(h, IF r.from # Nobody /\ r.dest \notin member[r.from]
                   THEN "clear" ELSE "write")
        /\ UNCHANGED <<ticket, people, requests, timeline>>

\* Mutant: clearing the owner leaves no event of its own.
TransferCommitClearsSilently(h) ==
    /\ handler[h].op = "transfer"
    /\ handler[h].pc \in {"write", "clear"}
    /\ team' = handler[h].dest
    /\ assignee' = IF handler[h].pc = "clear" THEN Nobody ELSE assignee
    /\ transfers' = Append(transfers, [by   |-> handler[h].by,
                                       from |-> handler[h].team,
                                       to   |-> handler[h].dest])
    /\ Finish(h)
    /\ UNCHANGED <<deleted, people, requests, assignments>>

\* Team, owner and the one or two events are written by one transaction.
TransferCommit(h) ==
    /\ handler[h].op = "transfer"
    /\ team' = handler[h].dest
    /\ transfers' = Append(transfers, [by   |-> handler[h].by,
                                       from |-> handler[h].team,
                                       to   |-> handler[h].dest])
    /\ \/ /\ handler[h].pc = "write"
          /\ UNCHANGED <<assignee, assignments>>
       \/ /\ handler[h].pc = "clear"
          /\ assignee' = Nobody
          /\ AppendAssigned(h, Nobody, 0)
    /\ Finish(h)
    /\ UNCHANGED <<deleted, people, requests>>

--------------------------------------------------------------------------------
(* createForTicket and cancelForTicket *)

RequestRead(h, u, to) ==
    /\ u \in Agents
    /\ ~deleted
    /\ assignee = u
    /\ team # NoTeam
    /\ to # u /\ to \notin Admins
    /\ Len(requests) < MaxRequests
    /\ Start(h, "request", IF to = Nobody THEN "pending" ELSE "check", u, to, NoTeam, 0)
    /\ UNCHANGED <<ticket, people, requests, timeline>>

\* validateRequestShape: the requested user is active and in the team read.
RequestCheck(h) ==
    /\ At(h, "request", "check")
    /\ handler[h].to \in active
    /\ OnReadTeam(h, handler[h].to)
    /\ Goto(h, "pending")
    /\ UNCHANGED <<ticket, people, requests, timeline>>

\* The requests of u that findFirst looks for.
HasPending(u) ==
    \E i \in DOMAIN requests : requests[i].by = u /\ requests[i].status = "PENDING"

RequestFindsNone(h) ==
    /\ At(h, "request", "pending")
    /\ ~HasPending(handler[h].by)
    /\ Goto(h, "write")
    /\ UNCHANGED <<ticket, people, requests, timeline>>

RequestCommit(h) ==
    /\ At(h, "request", "write")
    /\ requests' = Append(requests, [by     |-> handler[h].by,
                                     to     |-> handler[h].to,
                                     status |-> "PENDING"])
    /\ Tell(h, Len(requests) + 1)
    /\ UNCHANGED <<ticket, people, timeline>>

IsPending(i) == requests[i].status = "PENDING"

CancelRead(h, i) ==
    /\ IsPending(i)
    /\ Start(h, "cancel", "write", requests[i].by, Nobody, NoTeam, i)
    /\ UNCHANGED <<ticket, people, requests, timeline>>

Decide(i, decision) ==
    requests' = [requests EXCEPT ![i].status = decision]

CancelCommit(h) ==
    /\ At(h, "cancel", "write")
    /\ Decide(handler[h].ref, "CANCELLED")
    /\ Finish(h)
    /\ UNCHANGED <<ticket, people, timeline>>

--------------------------------------------------------------------------------
(* approve and reject, by a manager or an admin *)

\* The request is read with its ticket; 409 unless it is pending.
ReviewRead(h, u, i, decision) ==
    /\ u \in Reviewers
    /\ IsPending(i)
    /\ ~deleted
    /\ Start(h, decision, "check", u, requests[i].to, NoTeam, i)
    /\ UNCHANGED <<ticket, people, requests, timeline>>

\* assertReviewerScope: managers review for the teams they are in.
InScope(h) == handler[h].by \in Admins \/ OnReadTeam(h, handler[h].by)

\* Mutant: the owner is not compared with the requester.
MayApproveAnyOwner(h) == TRUE

(* The requester still owned the ticket when it was read, and a requested   *)
(* user is active and in the team read.                                    *)
MayApprove(h) ==
    LET r == handler[h]
    IN  /\ r.from = requests[r.ref].by
        /\ r.to # Nobody => r.to \in active /\ OnReadTeam(h, r.to)

ReviewCheck(h) ==
    /\ handler[h].op \in Decisions
    /\ handler[h].pc = "check"
    /\ InScope(h)
    /\ handler[h].op = "approve" => MayApprove(h)
    /\ Goto(h, "write")
    /\ UNCHANGED <<ticket, people, requests, timeline>>

RejectCommit(h) ==
    /\ At(h, "reject", "write")
    /\ Decide(handler[h].ref, "REJECTED")
    /\ Tell(h, handler[h].ref)
    /\ UNCHANGED <<ticket, people, timeline>>

\* Owner, event and request are written by one transaction.
ApproveCommit(h) ==
    /\ At(h, "approve", "write")
    /\ assignee' = handler[h].to
    /\ AppendAssigned(h, handler[h].to, handler[h].ref)
    /\ Decide(handler[h].ref, "APPROVED")
    /\ Tell(h, handler[h].ref)
    /\ UNCHANGED <<team, deleted, people, transfers>>

--------------------------------------------------------------------------------
(* After the commit: the notification jobs of a request that awaits at      *)
(* "announce".  Nothing here reads the queue again, so that what is said in *)
(* it is stated of JobsOf and the queue itself is left out.  A job's `ref'  *)
(* is the event of an ASSIGNED job and the request of every other one.     *)

\* Mutant: the manager who reviews is told instead of the agent who asked.
JobsOfReviewer(h) ==
    LET r == handler[h]
    IN  IF r.op \in {"approve", "reject"}
        THEN {[type |-> "APPROVED", to |-> r.by, ref |-> r.ref]}
        ELSE {}

JobsOf(h) ==
    LET r         == handler[h]
        requester == requests[r.ref].by
    IN  CASE r.op = "assign" ->
               {[type |-> "ASSIGNED", to |-> r.to, ref |-> r.ref]}
          [] r.op = "request" ->
               {[type |-> "CREATED", to |-> m, ref |-> r.ref] :
                  m \in {m \in Managers \cap active : OnReadTeam(h, m)} \ {r.by}}
          [] r.op = "approve" ->
               {[type |-> "APPROVED", to |-> requester, ref |-> r.ref]}
                 \cup {[type |-> "HANDED_OVER", to |-> u, ref |-> r.ref] :
                         u \in {r.to} \ {Nobody, requester}}
          [] OTHER ->
               {[type |-> "REJECTED", to |-> requester, ref |-> r.ref]}

\* safeEnqueue swallows a failure: enqueued or not, the request is answered.
Announce(h) ==
    /\ handler[h].pc = "announce"
    /\ Finish(h)
    /\ UNCHANGED <<ticket, people, requests, timeline>>

(* A check refuses the request, a statement fails or the process dies: the *)
(* request ends where it awaits and what it had committed stays.           *)
Abort(h) ==
    /\ handler[h].pc # "idle"
    /\ Finish(h)
    /\ UNCHANGED <<ticket, people, requests, timeline>>

--------------------------------------------------------------------------------
(* What other parts of the system do to the same rows *)

\* AdminUsersService.updateTeams replaces the memberships in one transaction.
UpdateTeams(u, ts) ==
    /\ "teams" \in Operations
    /\ member' = [member EXCEPT ![u] = ts]
    /\ UNCHANGED <<ticket, active, requests, timeline, handler>>

\* AdminUsersService.setStatus
SetStatus(u) ==
    /\ "active" \in Operations
    /\ active' \in {active \cup {u}, active \ {u}}
    /\ UNCHANGED <<ticket, member, requests, timeline, handler>>

\* moveTicketToTrash and restoreTicket write whatever they had read.
TrashOrRestore ==
    /\ "trash" \in Operations
    /\ deleted' \in BOOLEAN
    /\ UNCHANGED <<assignee, team, people, requests, timeline, handler>>

--------------------------------------------------------------------------------
HandlerStep(h) ==
    \/ \E u \in Staff, to \in Owner : AssignRead(h, u, to)
    \/ AssignCheck(h)
    \/ AssignCommit(h)
    \/ \E u \in Staff, dest \in Teams : TransferRead(h, u, dest)
    \/ TransferCheck(h)
    \/ TransferCommit(h)
    \/ \E u \in Staff, to \in Owner : RequestRead(h, u, to)
    \/ RequestCheck(h)
    \/ RequestFindsNone(h)
    \/ RequestCommit(h)
    \/ \E i \in DOMAIN requests : CancelRead(h, i)
    \/ CancelCommit(h)
    \/ \E u \in Staff, i \in DOMAIN requests, d \in Decisions :
         ReviewRead(h, u, i, d)
    \/ ReviewCheck(h)
    \/ RejectCommit(h)
    \/ ApproveCommit(h)
    \/ Announce(h)
    \/ Abort(h)

AdminStep ==
    \/ \E u \in Unsettled, ts \in Rosters : UpdateTeams(u, ts)
    \/ \E u \in Unsettled : SetStatus(u)
    \/ TrashOrRestore

Next ==
    \/ \E h \in Handlers : HandlerStep(h)
    \/ AdminStep

Spec == Init /\ [][Next]_vars

--------------------------------------------------------------------------------
(* Safety *)

Last(log) == log[Len(log)]

(* The timeline tells who owns the ticket and in which team it is: every   *)
(* write that moves it appends its event in the same transaction, whatever *)
(* assignments, transfers and approvals overwrite each other.              *)
TimelineTellsOwner ==
    /\ assignee = IF assignments = <<>> THEN Nobody ELSE Last(assignments).to
    /\ transfers # <<>> => team = Last(transfers).to

(* A request and the ticket move together.  An approved request has its    *)
(* event, a pending one has none, and an event made through a request      *)
(* takes the ticket from the agent who asked and gives it to the user that *)
(* was asked for (review).                                                 *)
RequestsMatchTimeline ==
    /\ \A i \in 1..Len(requests) :
         /\ requests[i].status = "APPROVED" =>
              \E k \in 1..Len(assignments) : assignments[k].via = i
         /\ requests[i].status = "PENDING" =>
              \A k \in 1..Len(assignments) : assignments[k].via # i
    /\ \A k \in 1..Len(assignments) :
         LET e == assignments[k]
         IN  e.via # 0 => /\ e.via \in 1..Len(requests)
                          /\ e.from = requests[e.via].by
                          /\ e.to = requests[e.via].to
                          /\ e.by \in Reviewers

(* Agents never give tickets away.  An event by an agent takes a ticket it *)
(* had read as unassigned, for itself; all other moves are the doing of a  *)
(* manager or an admin (assignTicket).                                     *)
AgentsOnlyClaim ==
    \A k \in 1..Len(assignments) :
        assignments[k].by \in Agents =>
            /\ assignments[k].from = Nobody
            /\ assignments[k].to = assignments[k].by

(* Nobody is told of what did not happen: a job that says the ticket was   *)
(* assigned names the new owner of its event, who did not do it alone; one *)
(* about a decision goes to the agent who asked, and the one of an         *)
(* approval or of a hand-over has the event of that request.               *)
JobsTellTheTruth ==
    \A h \in Handlers : handler[h].pc = "announce" => \A j \in JobsOf(h) :
        IF j.type = "ASSIGNED"
        THEN /\ j.ref \in 1..Len(assignments)
             /\ assignments[j.ref].to = j.to
             /\ assignments[j.ref].by # j.to
        ELSE /\ j.ref \in 1..Len(requests)
             /\ j.type \in {"APPROVED", "REJECTED"} => requests[j.ref].by = j.to
             /\ j.type = "HANDED_OVER" => requests[j.ref].to = j.to
             /\ j.type \in {"APPROVED", "HANDED_OVER"} =>
                  \E k \in 1..Len(assignments) : assignments[k].via = j.ref

--------------------------------------------------------------------------------
(* What docs and comments say and the code does not do *)

(* Agents "cannot ... steal an already-assigned ticket": an assignment by   *)
(* an agent is never written over the ownership of another user.           *)
ClaimsStealNothing ==
    [][(assignments' # assignments /\ Last(assignments').by \in Agents)
         => assignee \in {Nobody, Last(assignments').by}]_vars

(* "transactional with state revalidation": a request that was reviewed or *)
(* cancelled is not decided again.                                         *)
DecidedOnce ==
    [][\A i \in DOMAIN requests :
         requests[i].status # "PENDING" => requests'[i] = requests[i]]_vars

(* "reject a second simultaneously-pending request from the same agent on  *)
(* the same ticket": an agent has one pending request at most.             *)
OnePendingRequest ==
    \A i, j \in 1..Len(requests) :
        (/\ requests[i].by = requests[j].by
         /\ requests[i].status = "PENDING"
         /\ requests[j].status = "PENDING") => i = j

================================================================================
