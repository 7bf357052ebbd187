---------------------------- MODULE AssignmentProofs ----------------------------
(***************************************************************************)
(* Proofs about Assignment: for every staff, set of teams and roster, any  *)
(* number of requests in flight and every mix of them.                     *)
(***************************************************************************)
EXTENDS Assignment, SequenceTheorems, TLAPS

--------------------------------------------------------------------------------
(* Type correctness *)

\* A handler that is done is typed.
LEMMA IdleType == Idle \in Handler
BY DEF Idle, Handler, Owner, TeamOrNo

\* The initial state is well typed.
LEMMA TypeInit == Init => TypeOK
<1> SUFFICES ASSUME Init PROVE TypeOK
  OBVIOUS
<1>1. /\ requests \in Seq(Request)
      /\ assignments \in Seq(Assigned)
      /\ transfers \in Seq(Moved)
  BY EmptySeq DEF Init
<1>2. handler \in [Handlers -> Handler]
  BY IdleType DEF Init
<1> QED
  BY <1>1, <1>2, AssignmentAssumption DEF Init, TypeOK, Owner, TeamOrNo

\* Starting a request keeps the handlers typed.
LEMMA StartType ==
    ASSUME TypeOK, NEW h \in Handlers, NEW op,
           NEW pc \in {"check", "pending", "write"}, NEW u \in Staff,
           NEW to \in Owner, NEW dest \in TeamOrNo, NEW ref \in Nat,
           op \in RowOps \cup AskOps \cup Decisions,
           Start(h, op, pc, u, to, dest, ref)
    PROVE  handler' \in [Handlers -> Handler]
<1>1. [op |-> op, pc |-> pc, by |-> u, from |-> assignee, team |-> team,
       to |-> to, dest |-> dest, ref |-> ref] \in Handler
  BY DEF TypeOK, Handler, Owner
<1> QED
  BY <1>1 DEF Start, TypeOK

\* Going on, announcing or finishing keeps the handlers typed.
LEMMA GotoType ==
    ASSUME TypeOK, NEW h \in Handlers
    PROVE  /\ \A pc \in {"pending", "write", "clear"} :
                Goto(h, pc) => handler' \in [Handlers -> Handler]
           /\ \A ref \in Nat : Tell(h, ref) => handler' \in [Handlers -> Handler]
           /\ Finish(h) => handler' \in [Handlers -> Handler]
<1>1. ASSUME NEW pc \in {"pending", "write", "clear"}, Goto(h, pc)
      PROVE  handler' \in [Handlers -> Handler]
  <2>1. [handler[h] EXCEPT !.pc = pc] \in Handler
    BY DEF TypeOK, Handler
  <2>2. handler' = [handler EXCEPT ![h] = [handler[h] EXCEPT !.pc = pc]]
    BY <1>1 DEF Goto, TypeOK, Handler
  <2> QED
    BY <2>1, <2>2 DEF TypeOK
<1>2. ASSUME NEW ref \in Nat, Tell(h, ref)
      PROVE  handler' \in [Handlers -> Handler]
  <2>1. [handler[h] EXCEPT !.pc = "announce", !.ref = ref] \in Handler
    BY DEF TypeOK, Handler
  <2>2. handler' = [handler EXCEPT ![h] =
                      [handler[h] EXCEPT !.pc = "announce", !.ref = ref]]
    BY <1>2 DEF Tell, TypeOK, Handler
  <2> QED
    BY <2>1, <2>2 DEF TypeOK
<1>3. Finish(h) => handler' \in [Handlers -> Handler]
  BY IdleType DEF TypeOK, Finish
<1> QED
  BY <1>1, <1>2, <1>3

--------------------------------------------------------------------------------
(* Who sends which request: what types the requests and the events *)

Sends(r) ==
    /\ r.op # "none" => r.by \in Staff
    /\ r.op \in AskOps => r.by \in Agents
    /\ r.op \in Decisions \cup {"transfer"} => r.by \in Reviewers
    /\ r.op = "transfer" => r.dest \in Teams

SendersKnown == \A h \in Handlers : Sends(handler[h])

TInv == TypeOK /\ SendersKnown

\* A request that goes on, announces or finishes keeps its sender.
LEMMA SendersGoto ==
    ASSUME TInv, NEW h \in Handlers,
           \/ \E pc \in {"pending", "write", "clear"} : Goto(h, pc)
           \/ \E ref \in Nat : Tell(h, ref)
           \/ Finish(h)
    PROVE  handler' \in [Handlers -> Handler] /\ SendersKnown'
<1>1. handler' \in [Handlers -> Handler]
  BY GotoType DEF TInv
<1>2. /\ \/ handler'[h].op = "none"
         \/ /\ handler'[h].op = handler[h].op
            /\ handler'[h].by = handler[h].by
            /\ handler'[h].dest = handler[h].dest
      /\ \A g \in Handlers : g # h => handler'[g] = handler[g]
  BY DEF TInv, TypeOK, Handler, Goto, Tell, Finish, Idle
<1>3. \A g \in Handlers : Sends(handler'[g])
  BY <1>2 DEF TInv, SendersKnown, Sends, AskOps, Decisions
<1> QED
  BY <1>1, <1>3 DEF SendersKnown

\* A request that starts is sent by somebody who may send it.
LEMMA SendersStart ==
    ASSUME TInv, NEW h \in Handlers, NEW op \in RowOps \cup AskOps \cup Decisions,
           NEW pc \in {"check", "pending", "write"}, NEW u \in Staff,
           NEW to \in Owner, NEW dest \in TeamOrNo, NEW ref \in Nat,
           op \in AskOps => u \in Agents,
           op \in Decisions \cup {"transfer"} => u \in Reviewers,
           op = "transfer" => dest \in Teams,
           Start(h, op, pc, u, to, dest, ref)
    PROVE  handler' \in [Handlers -> Handler] /\ SendersKnown'
<1>1. handler' \in [Handlers -> Handler]
  BY StartType DEF TInv
<1>2. /\ handler'[h].op = op /\ handler'[h].by = u /\ handler'[h].dest = dest
      /\ \A g \in Handlers : g # h => handler'[g] = handler[g]
  BY DEF TInv, TypeOK, Start
<1>3. \A g \in Handlers : Sends(handler'[g])
  BY <1>2 DEF TInv, SendersKnown, Sends
<1> QED
  BY <1>1, <1>3 DEF SendersKnown

\* A request row is typed, and its index a positive number.
LEMMA RowType ==
    ASSUME TypeOK, NEW i \in DOMAIN requests
    PROVE  /\ i \in 1..Len(requests)
           /\ requests[i] \in Request
           /\ requests[i].by \in Agents
           /\ requests[i].to \in Owner
<1>1. requests \in Seq(Request) /\ DOMAIN requests = 1..Len(requests)
  BY LenProperties DEF TypeOK
<1>2. requests[i] \in Request
  BY <1>1, ElementOfSeq
<1> QED
  BY <1>1, <1>2 DEF Request

\* The reading steps, which only start a request.
LEMMA ReadsKeep ==
    ASSUME TInv, NEW h \in Handlers,
           \/ \E u \in Staff, to \in Owner : AssignRead(h, u, to)
           \/ \E u \in Staff, dest \in Teams : TransferRead(h, u, dest)
           \/ \E u \in Staff, to \in Owner : RequestRead(h, u, to)
           \/ \E i \in DOMAIN requests : CancelRead(h, i)
           \/ \E u \in Staff, i \in DOMAIN requests, d \in Decisions :
                ReviewRead(h, u, i, d)
    PROVE  TInv'
<1> USE DEF RowOps, AskOps, Decisions, TeamOrNo
<1>1. ASSUME NEW u \in Staff, NEW to \in Owner, AssignRead(h, u, to)
      PROVE  handler' \in [Handlers -> Handler] /\ SendersKnown'
  BY <1>1, SendersStart DEF AssignRead
<1>2. ASSUME NEW u \in Staff, NEW dest \in Teams, TransferRead(h, u, dest)
      PROVE  handler' \in [Handlers -> Handler] /\ SendersKnown'
  BY <1>2, SendersStart DEF TransferRead, Owner
<1>3. ASSUME NEW u \in Staff, NEW to \in Owner, RequestRead(h, u, to)
      PROVE  handler' \in [Handlers -> Handler] /\ SendersKnown'
  BY <1>3, SendersStart DEF RequestRead
<1>4. ASSUME NEW i \in DOMAIN requests, CancelRead(h, i)
      PROVE  handler' \in [Handlers -> Handler] /\ SendersKnown'
  <2>1. PICK u \in Agents : u = requests[i].by
    BY RowType DEF TInv
  <2>2. Start(h, "cancel", "write", u, Nobody, NoTeam, i)
    BY <1>4, <2>1 DEF CancelRead
  <2>3. u \in Staff /\ Nobody \in Owner /\ i \in Nat
    BY <2>1, RowType, LenProperties DEF TInv, Staff, Owner
  <2> QED
    BY <2>2, <2>3, SendersStart
<1>5. ASSUME NEW u \in Staff, NEW i \in DOMAIN requests, NEW d \in Decisions,
             ReviewRead(h, u, i, d)
      PROVE  handler' \in [Handlers -> Handler] /\ SendersKnown'
  <2>1. PICK to \in Owner : to = requests[i].to
    BY RowType DEF TInv
  <2>2. Start(h, d, "check", u, to, NoTeam, i) /\ u \in Reviewers
    BY <1>5, <2>1 DEF ReviewRead
  <2>3. i \in Nat
    BY RowType, LenProperties DEF TInv
  <2> QED
    BY <2>2, <2>3, SendersStart
<1>6. handler' \in [Handlers -> Handler] /\ SendersKnown'
  BY <1>1, <1>2, <1>3, <1>4, <1>5
<1>7. UNCHANGED <<ticket, people, requests, timeline>>
  BY DEF AssignRead, TransferRead, RequestRead, CancelRead, ReviewRead
<1> QED
  BY <1>6, <1>7 DEF TInv, TypeOK, ticket, people, timeline

\* The event of an assignment is typed.
LEMMA AppendAssignedType ==
    ASSUME TInv, NEW h \in Handlers, NEW to \in Owner, NEW via \in Nat,
           handler[h].by \in Staff, AppendAssigned(h, to, via)
    PROVE  assignments' \in Seq(Assigned)
<1>1. [by |-> handler[h].by, from |-> handler[h].from, to |-> to, via |-> via]
        \in Assigned
  BY DEF TInv, TypeOK, Handler, Assigned
<1> QED
  BY <1>1, AppendProperties DEF AppendAssigned, TInv, TypeOK

\* Deciding a request keeps the requests typed, and changes one status only.
LEMMA DecideType ==
    ASSUME TypeOK, NEW i \in Nat,
           NEW decision \in {"APPROVED", "REJECTED", "CANCELLED"},
           Decide(i, decision)
    PROVE  /\ requests' \in Seq(Request)
           /\ Len(requests') = Len(requests)
           /\ \A j \in 1..Len(requests) :
                /\ requests'[j].by = requests[j].by
                /\ requests'[j].to = requests[j].to
                /\ requests'[j].status = IF i = j THEN decision
                                                  ELSE requests[j].status
<1>1. requests \in Seq(Request) /\ DOMAIN requests = 1..Len(requests)
  BY LenProperties DEF TypeOK
<1>2. CASE i \in 1..Len(requests)
  <2>1. requests[i] \in Request
    BY <1>1, <1>2, ElementOfSeq
  <2>2. [requests[i] EXCEPT !.status = decision] \in Request
    BY <2>1 DEF Request
  <2>3. requests' = [requests EXCEPT ![i] = [requests[i] EXCEPT !.status = decision]]
    BY <1>1, <1>2, <2>1 DEF Decide, Request
  <2>4. requests' \in Seq(Request) /\ Len(requests') = Len(requests)
    BY <1>1, <1>2, <2>2, <2>3, ExceptSeq
  <2>5. requests'[i] = [requests[i] EXCEPT !.status = decision]
    BY <1>1, <1>2, <2>3
  <2>6. \A j \in 1..Len(requests) : j # i => requests'[j] = requests[j]
    BY <1>1, <2>3
  <2>7. /\ requests'[i].by = requests[i].by
        /\ requests'[i].to = requests[i].to
        /\ requests'[i].status = decision
    BY <2>1, <2>5 DEF Request
  <2> QED
    BY <2>4, <2>6, <2>7
<1>3. CASE i \notin 1..Len(requests)
  <2>1. requests' = requests
    BY <1>1, <1>3 DEF Decide
  <2> QED
    BY <1>1, <1>3, <2>1
<1> QED
  BY <1>2, <1>3

\* Every step of a request keeps the rows, the timeline and the handlers typed.
LEMMA HandlerTInv ==
    ASSUME TInv, NEW h \in Handlers, HandlerStep(h)
    PROVE  TInv'
<1>0. /\ handler[h] \in Handler
      /\ Sends(handler[h])
      /\ Len(requests) + 1 \in Nat
      /\ Len(assignments) + 1 \in Nat
  BY LenProperties DEF TInv, TypeOK, SendersKnown
<1>1. CASE \/ \E u \in Staff, to \in Owner : AssignRead(h, u, to)
           \/ \E u \in Staff, dest \in Teams : TransferRead(h, u, dest)
           \/ \E u \in Staff, to \in Owner : RequestRead(h, u, to)
           \/ \E i \in DOMAIN requests : CancelRead(h, i)
           \/ \E u \in Staff, i \in DOMAIN requests, d \in Decisions :
                ReviewRead(h, u, i, d)
  BY <1>1, ReadsKeep
<1>2. CASE \/ AssignCheck(h) \/ TransferCheck(h) \/ RequestCheck(h)
           \/ RequestFindsNone(h) \/ ReviewCheck(h) \/ Announce(h) \/ Abort(h)
  <2>1. \/ \E pc \in {"pending", "write", "clear"} : Goto(h, pc)
        \/ Finish(h)
    BY <1>2 DEF AssignCheck, TransferCheck, RequestCheck, RequestFindsNone,
                ReviewCheck, Announce, Abort
  <2>2. UNCHANGED <<ticket, people, requests, timeline>>
    BY <1>2 DEF AssignCheck, TransferCheck, RequestCheck, RequestFindsNone,
                ReviewCheck, Announce, Abort
  <2>3. handler' \in [Handlers -> Handler] /\ SendersKnown'
    BY <2>1, SendersGoto
  <2> QED
    BY <2>2, <2>3 DEF TInv, TypeOK, ticket, people, timeline
<1>3. CASE AssignCommit(h)
  <2>1. handler[h].to \in Owner /\ handler[h].by \in Staff
    BY <1>0, <1>3 DEF AssignCommit, At, Handler, Sends
  <2>2. assignments' \in Seq(Assigned)
    BY <1>3, <2>1, AppendAssignedType DEF AssignCommit
  <2>3. Finish(h) \/ \E ref \in Nat : Tell(h, ref)
    BY <1>0, <1>3 DEF AssignCommit
  <2>4. handler' \in [Handlers -> Handler] /\ SendersKnown'
    BY <2>3, SendersGoto
  <2> QED
    BY <1>3, <2>1, <2>2, <2>4 DEF AssignCommit, TInv, TypeOK, people
<1>4. CASE TransferCommit(h)
  <2>1. /\ handler[h].dest \in Teams
        /\ handler[h].team \in TeamOrNo
        /\ handler[h].by \in Staff
    BY <1>0, <1>4 DEF TransferCommit, Handler, Sends
  <2>2. [by |-> handler[h].by, from |-> handler[h].team, to |-> handler[h].dest]
          \in Moved
    BY <2>1 DEF Moved
  <2>3. transfers' \in Seq(Moved)
    BY <1>4, <2>2, AppendProperties DEF TransferCommit, TInv, TypeOK
  <2>4. assignee' \in Owner /\ assignments' \in Seq(Assigned)
    BY <1>4, <2>1, AppendAssignedType DEF TransferCommit, TInv, TypeOK, Owner
  <2>5. handler' \in [Handlers -> Handler] /\ SendersKnown'
    BY <1>4, SendersGoto DEF TransferCommit
  <2> QED
    BY <1>4, <2>1, <2>3, <2>4, <2>5 DEF TransferCommit, TInv, TypeOK, people, TeamOrNo
<1>5. CASE RequestCommit(h)
  <2>1. handler[h].by \in Agents /\ handler[h].to \in Owner
    BY <1>0, <1>5 DEF RequestCommit, At, Handler, Sends, AskOps
  <2>2. [by |-> handler[h].by, to |-> handler[h].to, status |-> "PENDING"] \in Request
    BY <2>1 DEF Request
  <2>3. requests' \in Seq(Request)
    BY <1>5, <2>2, AppendProperties DEF RequestCommit, TInv, TypeOK
  <2>4. handler' \in [Handlers -> Handler] /\ SendersKnown'
    BY <1>0, <1>5, SendersGoto DEF RequestCommit
  <2> QED
    BY <1>5, <2>3, <2>4 DEF RequestCommit, TInv, TypeOK, ticket, people, timeline
<1>6. CASE CancelCommit(h) \/ RejectCommit(h)
  <2>1. handler[h].ref \in Nat
    BY <1>0 DEF Handler
  <2>2. requests' \in Seq(Request)
    BY <1>6, <2>1, DecideType DEF CancelCommit, RejectCommit, TInv
  <2>3. handler' \in [Handlers -> Handler] /\ SendersKnown'
    BY <1>6, <2>1, SendersGoto DEF CancelCommit, RejectCommit
  <2> QED
    BY <1>6, <2>2, <2>3 DEF CancelCommit, RejectCommit, TInv, TypeOK, ticket, people,
                            timeline
<1>7. CASE ApproveCommit(h)
  <2>1. /\ handler[h].ref \in Nat
        /\ handler[h].to \in Owner
        /\ handler[h].by \in Staff
    BY <1>0, <1>7 DEF ApproveCommit, At, Handler, Sends
  <2>2. requests' \in Seq(Request)
    BY <1>7, <2>1, DecideType DEF ApproveCommit, TInv
  <2>3. assignments' \in Seq(Assigned)
    BY <1>7, <2>1, AppendAssignedType DEF ApproveCommit
  <2>4. handler' \in [Handlers -> Handler] /\ SendersKnown'
    BY <1>7, <2>1, SendersGoto DEF ApproveCommit
  <2> QED
    BY <1>7, <2>1, <2>2, <2>3, <2>4 DEF ApproveCommit, TInv, TypeOK, people
<1> QED
  BY <1>1, <1>2, <1>3, <1>4, <1>5, <1>6, <1>7 DEF HandlerStep

\* So does what an admin does to accounts, memberships and the trash.
LEMMA AdminTInv ==
    ASSUME TInv, AdminStep
    PROVE  TInv'
<1>1. ASSUME NEW u \in Unsettled, NEW ts \in Rosters, UpdateTeams(u, ts)
      PROVE  TInv'
  BY <1>1, AssignmentAssumption
  DEF UpdateTeams, TInv, TypeOK, SendersKnown, ticket, timeline
<1>2. ASSUME NEW u \in Unsettled, SetStatus(u)
      PROVE  TInv'
  BY <1>2, AssignmentAssumption
     DEF SetStatus, TInv, TypeOK, SendersKnown, ticket, timeline
<1>3. CASE TrashOrRestore
  BY <1>3 DEF TrashOrRestore, TInv, TypeOK, SendersKnown, people, timeline
<1> QED
  BY <1>1, <1>2, <1>3 DEF AdminStep

\* A step that changes nothing changes no invariant.
LEMMA StutterTInv == TInv /\ UNCHANGED vars => TInv'
BY DEF TInv, TypeOK, SendersKnown, vars

(* Types, and with them the senders: a request row belongs to an agent and *)
(* every event to a member of the staff, however requests interleave with  *)
(* the changes an admin makes.                                             *)
THEOREM SendersTheorem == Spec => []TInv
<1>1. Init => TInv
  BY TypeInit DEF TInv, SendersKnown, Sends, Init, Idle, AskOps, Decisions
<1>2. TInv /\ [Next]_vars => TInv'
  BY HandlerTInv, AdminTInv, StutterTInv DEF Next
<1> QED
  BY <1>1, <1>2, PTL DEF Spec

\* Every reachable state is well typed.
THEOREM TypeCorrect == Spec => []TypeOK
<1>1. TInv => TypeOK
  BY DEF TInv
<1> QED
  BY <1>1, SendersTheorem, PTL

--------------------------------------------------------------------------------
(* What a request in flight knows of the rows and events it will touch     *)

Knows(r) ==
    /\ r.op = "assign" /\ r.by \in Agents => r.from = Nobody /\ r.to = r.by
    /\ r.op \in Decisions \cup {"cancel"} => r.ref \in 1..Len(requests)
    /\ r.op \in Decisions => r.to = requests[r.ref].to
    /\ r.op = "approve" /\ r.pc \in {"write", "announce"} =>
         r.from = requests[r.ref].by
    /\ r.pc = "announce" =>
         /\ r.op \in {"assign", "request"} \cup Decisions
         /\ r.op = "assign" => /\ r.ref \in 1..Len(assignments)
                               /\ assignments[r.ref].to = r.to
                               /\ assignments[r.ref].by = r.by
                               /\ r.to # r.by
         /\ r.op = "request" => r.ref \in 1..Len(requests)
         /\ r.op = "approve" =>
              \E k \in 1..Len(assignments) : assignments[k].via = r.ref

(* The inductive invariant: what is on record, and what each request in    *)
(* flight knows.  The record alone is not inductive: an approval may only  *)
(* be written as its request asks, which the handler learnt steps earlier. *)
EInv ==
    /\ TInv
    /\ \A h \in Handlers : Knows(handler[h])
    /\ RequestsMatchTimeline
    /\ AgentsOnlyClaim

\* Rows and events are only ever added, and keep whom they name.
Grows ==
    /\ Len(requests) <= Len(requests')
    /\ \A i \in 1..Len(requests) : /\ requests'[i].by = requests[i].by
                                   /\ requests'[i].to = requests[i].to
    /\ Len(assignments) <= Len(assignments')
    /\ \A k \in 1..Len(assignments) : assignments'[k] = assignments[k]

\* What a request knows stays true while others write.
LEMMA KnowsStays ==
    ASSUME TInv, TInv', Grows, NEW g \in Handlers, handler'[g] = handler[g],
           Knows(handler[g])
    PROVE  Knows(handler[g])'
<1>1. PICK r \in Handler : r = handler[g] /\ r = handler'[g]
  BY DEF TInv, TypeOK
<1>2. /\ Len(requests) \in Nat /\ Len(requests') \in Nat
      /\ Len(assignments) \in Nat /\ Len(assignments') \in Nat
      /\ r.ref \in Nat
  BY LenProperties DEF TInv, TypeOK, Handler
<1>3. /\ \A i \in 1..Len(requests) : i \in 1..Len(requests')
      /\ \A k \in 1..Len(assignments) : k \in 1..Len(assignments')
  BY <1>2 DEF Grows
<1>4. /\ r.op = "assign" /\ r.by \in Agents => r.from = Nobody /\ r.to = r.by
      /\ r.op \in Decisions \cup {"cancel"} => r.ref \in 1..Len(requests')
      /\ r.op \in Decisions => r.to = requests'[r.ref].to
      /\ r.op = "approve" /\ r.pc \in {"write", "announce"} =>
           r.from = requests'[r.ref].by
  BY <1>1, <1>3 DEF Knows, Grows, Decisions
<1>5. r.pc = "announce" =>
         /\ r.op \in {"assign", "request"} \cup Decisions
         /\ r.op = "assign" => /\ r.ref \in 1..Len(assignments')
                               /\ assignments'[r.ref].to = r.to
                               /\ assignments'[r.ref].by = r.by
                               /\ r.to # r.by
         /\ r.op = "request" => r.ref \in 1..Len(requests')
  BY <1>1, <1>3 DEF Knows, Grows
<1>6. r.pc = "announce" /\ r.op = "approve" =>
         \E k \in 1..Len(assignments') : assignments'[k].via = r.ref
  <2> SUFFICES ASSUME r.pc = "announce", r.op = "approve"
               PROVE  \E k \in 1..Len(assignments') : assignments'[k].via = r.ref
    OBVIOUS
  <2>1. PICK k \in 1..Len(assignments) : assignments[k].via = r.ref
    BY <1>1 DEF Knows
  <2>2. assignments'[k].via = r.ref /\ k \in 1..Len(assignments')
    BY <1>3, <2>1 DEF Grows
  <2> QED
    BY <2>2
<1> QED
  BY <1>1, <1>4, <1>5, <1>6 DEF Knows

\* The event appended is the last one, and the others stay in place.
LEMMA AppendedEvent ==
    ASSUME TInv, NEW h \in Handlers, NEW to, NEW via, AppendAssigned(h, to, via)
    PROVE  LET n == Len(assignments)
           IN  /\ n \in Nat
               /\ Len(assignments') = n + 1
               /\ \A k \in 1..n : assignments'[k] = assignments[k]
               /\ assignments'[n + 1].by = handler[h].by
               /\ assignments'[n + 1].from = handler[h].from
               /\ assignments'[n + 1].to = to
               /\ assignments'[n + 1].via = via
<1> DEFINE e == [by |-> handler[h].by, from |-> handler[h].from, to |-> to, via |-> via]
<1>1. assignments' = Append(assignments, e) /\ assignments \in Seq(Assigned)
  BY DEF AppendAssigned, TInv, TypeOK
<1>2. /\ Len(assignments) \in Nat
      /\ Len(assignments') = Len(assignments) + 1
      /\ \A k \in 1..Len(assignments) : assignments'[k] = assignments[k]
      /\ assignments'[Len(assignments) + 1] = e
  BY <1>1, AppendProperties, LenProperties
<1> QED
  BY <1>2

\* A step that touches no request and no event keeps the record.
LEMMA RecordUnchanged ==
    ASSUME EInv, UNCHANGED <<requests, assignments>>
    PROVE  RequestsMatchTimeline' /\ AgentsOnlyClaim' /\ Grows
<1>1. Len(requests) \in Nat /\ Len(assignments) \in Nat
  BY LenProperties DEF EInv, TInv, TypeOK
<1> QED
  BY <1>1 DEF EInv, RequestsMatchTimeline, AgentsOnlyClaim, Grows

\* A direct move appends an event that is through no request.
LEMMA RecordOfMove ==
    ASSUME EInv, NEW h \in Handlers, NEW to, AppendAssigned(h, to, 0),
           UNCHANGED requests,
           handler[h].by \in Agents => handler[h].from = Nobody /\ to = handler[h].by
    PROVE  RequestsMatchTimeline' /\ AgentsOnlyClaim' /\ Grows
<1> DEFINE n == Len(assignments)
<1>1. /\ n \in Nat /\ Len(requests) \in Nat
      /\ Len(assignments') = n + 1
      /\ \A k \in 1..n : assignments'[k] = assignments[k]
      /\ assignments'[n + 1].by = handler[h].by
      /\ assignments'[n + 1].from = handler[h].from
      /\ assignments'[n + 1].to = to
      /\ assignments'[n + 1].via = 0
  BY AppendedEvent, LenProperties DEF EInv, TInv, TypeOK
<1> HIDE DEF n
<1>2. /\ \A k \in 1..Len(assignments') : k \in 1..n \/ k = n + 1
      /\ \A k \in 1..n : k \in 1..Len(assignments')
  BY <1>1
<1>3. n = Len(assignments)
  BY DEF n
<1>4. Grows
  BY <1>1, <1>3 DEF Grows
<1>5. AgentsOnlyClaim'
  BY <1>1, <1>2, <1>3 DEF EInv, AgentsOnlyClaim
<1>6. ASSUME NEW i \in 1..Len(requests)
      PROVE  /\ requests[i].status = "APPROVED" =>
                  \E k \in 1..Len(assignments') : assignments'[k].via = i
             /\ requests[i].status = "PENDING" =>
                  \A k \in 1..Len(assignments') : assignments'[k].via # i
  BY <1>1, <1>2, <1>3 DEF EInv, RequestsMatchTimeline
<1>7. ASSUME NEW k \in 1..Len(assignments'), assignments'[k].via # 0
      PROVE  LET e == assignments'[k]
             IN  /\ e.via \in 1..Len(requests)
                 /\ e.from = requests[e.via].by
                 /\ e.to = requests[e.via].to
                 /\ e.by \in Reviewers
  BY <1>1, <1>2, <1>3, <1>7 DEF EInv, RequestsMatchTimeline
<1>8. RequestsMatchTimeline'
  BY <1>6, <1>7 DEF RequestsMatchTimeline
<1> QED
  BY <1>4, <1>5, <1>8

\* A new request is pending, and no event is through it.
LEMMA RecordOfRequest ==
    ASSUME EInv, NEW h \in Handlers, RequestCommit(h)
    PROVE  /\ RequestsMatchTimeline' /\ AgentsOnlyClaim' /\ Grows
           /\ Len(requests') = Len(requests) + 1
<1> DEFINE n == Len(requests)
           q == [by |-> handler[h].by, to |-> handler[h].to, status |-> "PENDING"]
<1>1. /\ n \in Nat /\ Len(assignments) \in Nat
      /\ Len(requests') = n + 1
      /\ \A i \in 1..n : requests'[i] = requests[i]
      /\ requests'[n + 1] = q
      /\ assignments' = assignments
  BY AppendProperties, LenProperties DEF RequestCommit, EInv, TInv, TypeOK, timeline
<1>2. q.status = "PENDING"
  OBVIOUS
<1> HIDE DEF n, q
<1>3. n = Len(requests)
  BY DEF n
<1>4. /\ \A i \in 1..Len(requests') : i \in 1..n \/ i = n + 1
      /\ \A i \in 1..n : i \in 1..Len(requests')
      /\ n + 1 # 0 /\ n + 1 \notin 1..n
  BY <1>1
<1>5. Grows
  BY <1>1, <1>3 DEF Grows
<1>6. AgentsOnlyClaim'
  BY <1>1 DEF EInv, AgentsOnlyClaim
<1>7. \A k \in 1..Len(assignments) : assignments[k].via # n + 1
  BY <1>3, <1>4 DEF EInv, RequestsMatchTimeline
<1>8. RequestsMatchTimeline'
  BY <1>1, <1>2, <1>3, <1>4, <1>7 DEF EInv, RequestsMatchTimeline
<1> QED
  BY <1>1, <1>3, <1>5, <1>6, <1>8

\* A request that is cancelled or rejected needs no event.
LEMMA RecordOfRefusal ==
    ASSUME EInv, NEW i \in Nat, NEW decision \in {"REJECTED", "CANCELLED"},
           Decide(i, decision), UNCHANGED assignments
    PROVE  RequestsMatchTimeline' /\ AgentsOnlyClaim' /\ Grows
<1>1. /\ Len(requests) \in Nat /\ Len(assignments) \in Nat
      /\ Len(requests') = Len(requests)
      /\ \A j \in 1..Len(requests) :
                /\ requests'[j].by = requests[j].by
                /\ requests'[j].to = requests[j].to
                /\ requests'[j].status = IF i = j THEN decision
                                                  ELSE requests[j].status
  BY DecideType, LenProperties DEF EInv, TInv, TypeOK
<1>2. Grows
  BY <1>1 DEF Grows
<1>3. AgentsOnlyClaim'
  BY DEF EInv, AgentsOnlyClaim
<1>4. \A j \in 1..Len(requests) :
           requests'[j].status \in {"APPROVED", "PENDING"} =>
             requests'[j].status = requests[j].status
  BY <1>1
<1>5. RequestsMatchTimeline'
  BY <1>1, <1>4, SMTT(30) DEF EInv, RequestsMatchTimeline
<1> QED
  BY <1>2, <1>3, <1>5

\* An approval writes the event of its request in the same transaction.
LEMMA RecordOfApproval ==
    ASSUME EInv, NEW h \in Handlers, ApproveCommit(h)
    PROVE  /\ RequestsMatchTimeline' /\ AgentsOnlyClaim' /\ Grows
           /\ \E k \in 1..Len(assignments') : assignments'[k].via = handler[h].ref
<1> DEFINE n == Len(assignments)
           r == handler[h]
<1>1. /\ r \in Handler /\ Knows(r) /\ Sends(r)
      /\ r.op = "approve" /\ r.pc = "write"
  BY DEF EInv, TInv, TypeOK, SendersKnown, ApproveCommit, At
<1>2. /\ r.ref \in 1..Len(requests)
      /\ r.to = requests[r.ref].to
      /\ r.from = requests[r.ref].by
      /\ r.by \in Reviewers /\ r.by \notin Agents
      /\ r.ref \in Nat
  BY <1>1, AssignmentAssumption DEF Knows, Sends, Decisions, Handler
<1>3. /\ n \in Nat
      /\ Len(assignments') = n + 1
      /\ \A k \in 1..n : assignments'[k] = assignments[k]
      /\ assignments'[n + 1].by = r.by
      /\ assignments'[n + 1].from = r.from
      /\ assignments'[n + 1].to = r.to
      /\ assignments'[n + 1].via = r.ref
  BY AppendedEvent DEF ApproveCommit, EInv
<1>4. /\ Len(requests) \in Nat
      /\ Len(requests') = Len(requests)
      /\ \A j \in 1..Len(requests) :
                /\ requests'[j].by = requests[j].by
                /\ requests'[j].to = requests[j].to
                /\ requests'[j].status = IF r.ref = j THEN "APPROVED"
                                                      ELSE requests[j].status
  BY <1>2, DecideType, LenProperties DEF ApproveCommit, EInv, TInv, TypeOK
<1>5. n = Len(assignments)
  OBVIOUS
<1> HIDE DEF n, r
<1>6. /\ \A k \in 1..Len(assignments') : k \in 1..n \/ k = n + 1
      /\ \A k \in 1..n : k \in 1..Len(assignments')
      /\ n + 1 \in 1..Len(assignments')
  BY <1>3
<1>7. Grows
  BY <1>3, <1>4, <1>5 DEF Grows
<1>8. AgentsOnlyClaim'
  BY <1>2, <1>3, <1>5, <1>6 DEF EInv, AgentsOnlyClaim
<1>9. ASSUME NEW i \in 1..Len(requests)
      PROVE  /\ requests'[i].status = "APPROVED" =>
                  \E k \in 1..Len(assignments') : assignments'[k].via = i
             /\ requests'[i].status = "PENDING" =>
                  \A k \in 1..Len(assignments') : assignments'[k].via # i
  <2>1. CASE i = r.ref
    BY <1>3, <1>4, <1>6, <2>1
  <2>2. CASE i # r.ref
    <3>1. requests'[i].status = requests[i].status
      BY <1>4, <2>2
    <3>2. /\ requests[i].status = "APPROVED" =>
                  \E k \in 1..n : assignments'[k].via = i
          /\ requests[i].status = "PENDING" =>
                  \A k \in 1..n : assignments'[k].via # i
      BY <1>3, <1>5 DEF EInv, RequestsMatchTimeline
    <3> QED
      BY <1>3, <1>6, <2>2, <3>1, <3>2
  <2> QED
    BY <2>1, <2>2
<1>10. ASSUME NEW k \in 1..Len(assignments'), assignments'[k].via # 0
       PROVE  LET e == assignments'[k]
              IN  /\ e.via \in 1..Len(requests)
                  /\ e.from = requests'[e.via].by
                  /\ e.to = requests'[e.via].to
                  /\ e.by \in Reviewers
  <2>1. CASE k = n + 1
    BY <1>2, <1>3, <1>4, <2>1
  <2>2. CASE k \in 1..n
    <3>1. /\ assignments'[k] = assignments[k]
          /\ assignments[k].via \in 1..Len(requests)
          /\ assignments[k].from = requests[assignments[k].via].by
          /\ assignments[k].to = requests[assignments[k].via].to
          /\ assignments[k].by \in Reviewers
      BY <1>3, <1>5, <1>10, <2>2 DEF EInv, RequestsMatchTimeline
    <3> QED
      BY <1>4, <3>1
  <2> QED
    BY <1>6, <2>1, <2>2
<1>11. RequestsMatchTimeline'
  BY <1>4, <1>9, <1>10 DEF RequestsMatchTimeline
<1>12. \E k \in 1..Len(assignments') : assignments'[k].via = r.ref
  BY <1>3, <1>6
<1> QED
  BY <1>7, <1>8, <1>11, <1>12 DEF r

\* Only the handler that steps has anything new to know.
LEMMA OthersKnow ==
    ASSUME EInv, TInv', Grows, NEW h \in Handlers, Knows(handler[h])',
           \A g \in Handlers : g # h => handler'[g] = handler[g]
    PROVE  (\A g \in Handlers : Knows(handler[g]))'
<1>1. ASSUME NEW g \in Handlers
      PROVE  Knows(handler[g])'
  <2>1. CASE g = h
    BY <2>1
  <2>2. CASE g # h
    BY <2>2, KnowsStays DEF EInv
  <2> QED
    BY <2>1, <2>2
<1> QED
  BY <1>1

\* A request that starts knows what it read.
LEMMA ReadsKnow ==
    ASSUME EInv, NEW h \in Handlers,
           \/ \E u \in Staff, to \in Owner : AssignRead(h, u, to)
           \/ \E u \in Staff, dest \in Teams : TransferRead(h, u, dest)
           \/ \E u \in Staff, to \in Owner : RequestRead(h, u, to)
           \/ \E i \in DOMAIN requests : CancelRead(h, i)
           \/ \E u \in Staff, i \in DOMAIN requests, d \in Decisions :
                ReviewRead(h, u, i, d)
    PROVE  Knows(handler[h])'
<1> USE DEF Decisions, Start, EInv, TInv, TypeOK
<1>1. ASSUME NEW u \in Staff, NEW to \in Owner, AssignRead(h, u, to)
      PROVE  Knows(handler[h])'
  <2>1. /\ handler'[h].op = "assign" /\ handler'[h].pc \in {"write", "check"}
        /\ handler'[h].by = u /\ handler'[h].to = to /\ handler'[h].from = assignee
    BY <1>1 DEF AssignRead
  <2> QED
    BY <1>1, <2>1 DEF AssignRead, MayAssign, Knows
<1>2. ASSUME NEW u \in Staff, NEW dest \in Teams, TransferRead(h, u, dest)
      PROVE  Knows(handler[h])'
  <2>1. handler'[h].op = "transfer" /\ handler'[h].pc = "check"
    BY <1>2 DEF TransferRead
  <2> QED
    BY <2>1 DEF Knows
<1>3. ASSUME NEW u \in Staff, NEW to \in Owner, RequestRead(h, u, to)
      PROVE  Knows(handler[h])'
  <2>1. handler'[h].op = "request" /\ handler'[h].pc \in {"pending", "check"}
    BY <1>3 DEF RequestRead
  <2> QED
    BY <2>1 DEF Knows
<1>4. ASSUME NEW i \in DOMAIN requests, CancelRead(h, i)
      PROVE  Knows(handler[h])'
  <2>1. handler'[h].op = "cancel" /\ handler'[h].pc = "write" /\ handler'[h].ref = i
    BY <1>4 DEF CancelRead
  <2>2. i \in 1..Len(requests) /\ requests' = requests
    BY <1>4, RowType DEF CancelRead
  <2> QED
    BY <2>1, <2>2 DEF Knows
<1>5. ASSUME NEW u \in Staff, NEW i \in DOMAIN requests, NEW d \in Decisions,
             ReviewRead(h, u, i, d)
      PROVE  Knows(handler[h])'
  <2>1. /\ handler'[h].op = d /\ handler'[h].pc = "check" /\ handler'[h].ref = i
        /\ handler'[h].to = requests[i].to
    BY <1>5 DEF ReviewRead
  <2>2. i \in 1..Len(requests) /\ requests' = requests
    BY <1>5, RowType DEF ReviewRead
  <2> QED
    BY <2>1, <2>2 DEF Knows
<1> QED
  BY <1>1, <1>2, <1>3, <1>4, <1>5

\* A check that succeeds adds to what the request knows.
LEMMA ChecksKnow ==
    ASSUME EInv, NEW h \in Handlers,
           \/ AssignCheck(h) \/ TransferCheck(h) \/ RequestCheck(h)
           \/ RequestFindsNone(h) \/ ReviewCheck(h)
    PROVE  Knows(handler[h])'
<1>1. /\ handler[h] \in Handler /\ Knows(handler[h])
      /\ requests' = requests /\ assignments' = assignments
  BY DEF EInv, TInv, TypeOK, AssignCheck, TransferCheck, RequestCheck,
         RequestFindsNone, ReviewCheck, timeline
<1>2. PICK pc \in {"pending", "write", "clear"} : Goto(h, pc)
  BY DEF AssignCheck, TransferCheck, RequestCheck, RequestFindsNone, ReviewCheck
<1>3. /\ handler'[h].pc = pc
      /\ handler'[h].op = handler[h].op
      /\ handler'[h].by = handler[h].by
      /\ handler'[h].from = handler[h].from
      /\ handler'[h].to = handler[h].to
      /\ handler'[h].ref = handler[h].ref
  BY <1>1, <1>2 DEF Goto, EInv, TInv, TypeOK, Handler
<1>4. handler[h].op = "approve" => handler[h].from = requests[handler[h].ref].by
  BY DEF AssignCheck, TransferCheck, RequestCheck, RequestFindsNone, ReviewCheck,
         MayApprove, At
<1> QED
  BY <1>1, <1>3, <1>4 DEF Knows

\* A request that is done, or that announces, knows what it wrote.
LEMMA FinishKnows ==
    ASSUME EInv, NEW h \in Handlers, Finish(h)
    PROVE  Knows(handler[h])'
<1>1. handler'[h].op = "none" /\ handler'[h].pc = "idle"
  BY DEF EInv, TInv, TypeOK, Finish, Idle
<1> QED
  BY <1>1 DEF Knows, Decisions

\* A request that announces changes its place and the row it is about.
LEMMA TellKeeps ==
    ASSUME EInv, NEW h \in Handlers, NEW ref \in Nat, Tell(h, ref)
    PROVE  /\ handler'[h].pc = "announce"
           /\ handler'[h].op = handler[h].op
           /\ handler'[h].by = handler[h].by
           /\ handler'[h].from = handler[h].from
           /\ handler'[h].to = handler[h].to
           /\ handler'[h].ref = ref
BY DEF EInv, TInv, TypeOK, Handler, Tell

\* Every step of a request keeps the invariant.
LEMMA HandlerEInv ==
    ASSUME EInv, NEW h \in Handlers, HandlerStep(h)
    PROVE  EInv'
<1> USE DEF timeline
<1>0. TInv'
  BY HandlerTInv DEF EInv
<1>1. /\ handler[h] \in Handler /\ Knows(handler[h]) /\ Sends(handler[h])
      /\ Len(requests) \in Nat /\ Len(assignments) \in Nat
  BY LenProperties DEF EInv, TInv, TypeOK, SendersKnown
<1>2. \A g \in Handlers : g # h => handler'[g] = handler[g]
  <2>1. \/ \E op, pc, u, to, dest, ref : Start(h, op, pc, u, to, dest, ref)
        \/ \E pc : Goto(h, pc)
        \/ \E ref : Tell(h, ref)
        \/ Finish(h)
    BY DEF HandlerStep, AssignRead, TransferRead, RequestRead, CancelRead, ReviewRead,
           AssignCheck, TransferCheck, RequestCheck, RequestFindsNone, ReviewCheck,
           AssignCommit, TransferCommit, RequestCommit, CancelCommit, RejectCommit,
           ApproveCommit, Announce, Abort
  <2> QED
    BY <2>1 DEF Start, Goto, Tell, Finish, EInv, TInv, TypeOK
<1>3. CASE \/ \E u \in Staff, to \in Owner : AssignRead(h, u, to)
           \/ \E u \in Staff, dest \in Teams : TransferRead(h, u, dest)
           \/ \E u \in Staff, to \in Owner : RequestRead(h, u, to)
           \/ \E i \in DOMAIN requests : CancelRead(h, i)
           \/ \E u \in Staff, i \in DOMAIN requests, d \in Decisions :
                ReviewRead(h, u, i, d)
  <2>1. UNCHANGED <<requests, assignments>>
    BY <1>3 DEF AssignRead, TransferRead, RequestRead, CancelRead, ReviewRead
  <2> QED
    BY <1>0, <1>2, <1>3, <2>1, ReadsKnow, RecordUnchanged, OthersKnow DEF EInv
<1>4. CASE \/ AssignCheck(h) \/ TransferCheck(h) \/ RequestCheck(h)
           \/ RequestFindsNone(h) \/ ReviewCheck(h)
  <2>1. UNCHANGED <<requests, assignments>>
    BY <1>4 DEF AssignCheck, TransferCheck, RequestCheck, RequestFindsNone, ReviewCheck
  <2> QED
    BY <1>0, <1>2, <1>4, <2>1, ChecksKnow, RecordUnchanged, OthersKnow DEF EInv
<1>5. CASE Announce(h) \/ Abort(h)
  <2>1. UNCHANGED <<requests, assignments>> /\ Finish(h)
    BY <1>5 DEF Announce, Abort
  <2> QED
    BY <1>0, <1>2, <2>1, FinishKnows, RecordUnchanged, OthersKnow DEF EInv
<1>6. CASE AssignCommit(h)
  <2>1. /\ handler[h].op = "assign"
        /\ AppendAssigned(h, handler[h].to, 0)
        /\ UNCHANGED requests
    BY <1>6 DEF AssignCommit, At
  <2>2. RequestsMatchTimeline' /\ AgentsOnlyClaim' /\ Grows
    BY <1>1, <2>1, RecordOfMove DEF Knows
  <2>3. Knows(handler[h])'
    <3>1. CASE Finish(h)
      BY <3>1, FinishKnows
    <3>2. CASE /\ handler[h].to \notin {Nobody, handler[h].by}
               /\ Tell(h, Len(assignments) + 1)
      <4>1. /\ Len(assignments') = Len(assignments) + 1
            /\ assignments'[Len(assignments) + 1].by = handler[h].by
            /\ assignments'[Len(assignments) + 1].to = handler[h].to
        BY <2>1, AppendedEvent DEF EInv
      <4>2. /\ handler'[h].pc = "announce"
            /\ handler'[h].op = "assign"
            /\ handler'[h].by = handler[h].by
            /\ handler'[h].from = handler[h].from
            /\ handler'[h].to = handler[h].to
            /\ handler'[h].ref = Len(assignments) + 1
        BY <1>1, <2>1, <3>2, TellKeeps
      <4>3. Len(assignments) + 1 \in 1..Len(assignments')
        BY <1>1, <4>1
      <4> QED
        BY <1>1, <2>1, <3>2, <4>1, <4>2, <4>3 DEF Knows, Decisions
    <3> QED
      BY <1>6, <3>1, <3>2 DEF AssignCommit
  <2> QED
    BY <1>0, <1>2, <2>2, <2>3, OthersKnow DEF EInv
<1>7. CASE TransferCommit(h)
  <2>1. Finish(h) /\ UNCHANGED requests /\ handler[h].by \notin Agents
    BY <1>1, <1>7, AssignmentAssumption DEF TransferCommit, Sends
  <2>2. UNCHANGED assignments \/ AppendAssigned(h, Nobody, 0)
    BY <1>7 DEF TransferCommit
  <2>3. RequestsMatchTimeline' /\ AgentsOnlyClaim' /\ Grows
    BY <2>1, <2>2, RecordUnchanged, RecordOfMove
  <2> QED
    BY <1>0, <1>2, <2>1, <2>3, FinishKnows, OthersKnow DEF EInv
<1>8. CASE RequestCommit(h)
  <2>1. /\ RequestsMatchTimeline' /\ AgentsOnlyClaim' /\ Grows
        /\ Len(requests') = Len(requests) + 1
    BY <1>8, RecordOfRequest
  <2>2. /\ handler'[h].pc = "announce"
        /\ handler'[h].op = "request"
        /\ handler'[h].ref = Len(requests) + 1
    BY <1>1, <1>8, TellKeeps DEF RequestCommit, At
  <2>3. Len(requests) + 1 \in 1..Len(requests')
    BY <1>1, <2>1
  <2>4. Knows(handler[h])'
    BY <2>2, <2>3 DEF Knows, Decisions
  <2> QED
    BY <1>0, <1>2, <2>1, <2>4, OthersKnow DEF EInv
<1>9. CASE CancelCommit(h)
  <2>1. RequestsMatchTimeline' /\ AgentsOnlyClaim' /\ Grows
    BY <1>1, <1>9, RecordOfRefusal DEF CancelCommit, Handler
  <2>2. Knows(handler[h])'
    BY <1>9, FinishKnows DEF CancelCommit
  <2> QED
    BY <1>0, <1>2, <2>1, <2>2, OthersKnow DEF EInv
<1>10. CASE RejectCommit(h)
  <2>0. handler[h].op = "reject" /\ handler[h].ref \in Nat
    BY <1>1, <1>10 DEF RejectCommit, At, Handler
  <2>1. RequestsMatchTimeline' /\ AgentsOnlyClaim' /\ Grows
    BY <1>1, <1>10, <2>0, RecordOfRefusal DEF RejectCommit
  <2>2. /\ handler'[h].pc = "announce"
        /\ handler'[h].op = "reject"
        /\ handler'[h].to = handler[h].to
        /\ handler'[h].ref = handler[h].ref
    BY <1>10, <2>0, TellKeeps DEF RejectCommit
  <2>3. /\ handler[h].ref \in 1..Len(requests)
        /\ handler[h].to = requests[handler[h].ref].to
    BY <1>1, <2>0 DEF Knows, Decisions
  <2>4. /\ handler[h].ref \in 1..Len(requests')
        /\ handler[h].to = requests'[handler[h].ref].to
    <3>1. Len(requests') \in Nat
      BY <1>0, LenProperties DEF TInv, TypeOK
    <3> QED
      BY <1>1, <2>1, <2>3, <3>1 DEF Grows
  <2>5. Knows(handler[h])'
    BY <2>2, <2>4 DEF Knows, Decisions
  <2> QED
    BY <1>0, <1>2, <2>1, <2>5, OthersKnow DEF EInv
<1>11. CASE ApproveCommit(h)
  <2>0. handler[h].op = "approve" /\ handler[h].pc = "write" /\ handler[h].ref \in Nat
    BY <1>1, <1>11 DEF ApproveCommit, At, Handler
  <2>1. /\ RequestsMatchTimeline' /\ AgentsOnlyClaim' /\ Grows
        /\ \E k \in 1..Len(assignments') : assignments'[k].via = handler[h].ref
    BY <1>11, RecordOfApproval
  <2>2. /\ handler'[h].pc = "announce"
        /\ handler'[h].op = "approve"
        /\ handler'[h].to = handler[h].to
        /\ handler'[h].from = handler[h].from
        /\ handler'[h].ref = handler[h].ref
    BY <1>11, <2>0, TellKeeps DEF ApproveCommit
  <2>3. /\ handler[h].ref \in 1..Len(requests)
        /\ handler[h].to = requests[handler[h].ref].to
        /\ handler[h].from = requests[handler[h].ref].by
    BY <1>1, <2>0 DEF Knows, Decisions
  <2>4. /\ handler[h].ref \in 1..Len(requests')
        /\ handler[h].to = requests'[handler[h].ref].to
        /\ handler[h].from = requests'[handler[h].ref].by
    <3>1. Len(requests') \in Nat
      BY <1>0, LenProperties DEF TInv, TypeOK
    <3> QED
      BY <1>1, <2>1, <2>3, <3>1 DEF Grows
  <2>5. Knows(handler[h])'
    BY <2>1, <2>2, <2>4 DEF Knows, Decisions
  <2> QED
    BY <1>0, <1>2, <2>1, <2>5, OthersKnow DEF EInv
<1> QED
  BY <1>3, <1>4, <1>5, <1>6, <1>7, <1>8, <1>9, <1>10, <1>11 DEF HandlerStep

\* Nothing an admin does touches requests, events or handlers.
LEMMA AdminEInv ==
    ASSUME EInv, AdminStep \/ UNCHANGED vars
    PROVE  EInv'
<1>1. UNCHANGED <<requests, assignments, handler>>
  BY DEF AdminStep, UpdateTeams, SetStatus, TrashOrRestore, vars, timeline
<1>2. TInv'
  BY AdminTInv, StutterTInv DEF EInv
<1>3. RequestsMatchTimeline' /\ AgentsOnlyClaim' /\ Grows
  BY <1>1, RecordUnchanged
<1>4. (\A g \in Handlers : Knows(handler[g]))'
  BY <1>1 DEF EInv, Knows
<1> QED
  BY <1>2, <1>3, <1>4 DEF EInv

(* Requests, events and what is in flight agree in every reachable state:  *)
(* the inductive invariant behind the three theorems that follow.          *)
THEOREM RecordTheorem == Spec => []EInv
<1>1. Init => EInv
  <2> SUFFICES ASSUME Init PROVE EInv
    OBVIOUS
  <2>1. TInv
    BY TypeInit DEF TInv, SendersKnown, Sends, Init, Idle, AskOps, Decisions
  <2>2. \A h \in Handlers : Knows(handler[h])
    BY DEF Init, Idle, Knows, Decisions
  <2>3. Len(requests) = 0 /\ Len(assignments) = 0
    BY EmptySeq DEF Init
  <2>4. RequestsMatchTimeline /\ AgentsOnlyClaim
    BY <2>3 DEF RequestsMatchTimeline, AgentsOnlyClaim
  <2> QED
    BY <2>1, <2>2, <2>4 DEF EInv
<1>2. EInv /\ [Next]_vars => EInv'
  BY HandlerEInv, AdminEInv DEF Next
<1> QED
  BY <1>1, <1>2, PTL DEF Spec

(* A request is approved together with its event and never without, and an *)
(* event made through a request is what that request asked for.            *)
THEOREM RequestsTheorem == Spec => []RequestsMatchTimeline
<1>1. EInv => RequestsMatchTimeline
  BY DEF EInv
<1> QED
  BY <1>1, RecordTheorem, PTL

\* Agents claim and never give away.
THEOREM ClaimsTheorem == Spec => []AgentsOnlyClaim
<1>1. EInv => AgentsOnlyClaim
  BY DEF EInv
<1> QED
  BY <1>1, RecordTheorem, PTL

(* No job tells of what did not happen: its event is in the timeline, and  *)
(* it goes to whom that event or request names.                            *)
THEOREM JobsTheorem == Spec => []JobsTellTheTruth
<1>1. EInv => JobsTellTheTruth
  <2> SUFFICES ASSUME EInv, NEW h \in Handlers, handler[h].pc = "announce",
                      NEW j \in JobsOf(h)
               PROVE  IF j.type = "ASSIGNED"
                      THEN /\ j.ref \in 1..Len(assignments)
                           /\ assignments[j.ref].to = j.to
                           /\ assignments[j.ref].by # j.to
                      ELSE /\ j.ref \in 1..Len(requests)
                           /\ j.type \in {"APPROVED", "REJECTED"} =>
                                requests[j.ref].by = j.to
                           /\ j.type = "HANDED_OVER" => requests[j.ref].to = j.to
                           /\ j.type \in {"APPROVED", "HANDED_OVER"} =>
                                \E k \in 1..Len(assignments) :
                                   assignments[k].via = j.ref
    BY DEF JobsTellTheTruth
  <2> DEFINE r == handler[h]
  <2>1. Knows(r) /\ r.op \in {"assign", "request"} \cup Decisions
    BY DEF EInv, Knows
  <2>2. CASE r.op = "assign"
    <3>1. j = [type |-> "ASSIGNED", to |-> r.to, ref |-> r.ref]
      BY <2>2 DEF JobsOf
    <3> QED
      BY <2>1, <2>2, <3>1 DEF Knows
  <2>3. CASE r.op = "request"
    <3>1. j.type = "CREATED" /\ j.ref = r.ref
      BY <2>3 DEF JobsOf
    <3> QED
      BY <2>1, <2>3, <3>1 DEF Knows
  <2>4. CASE r.op = "approve"
    <3>1. \/ j = [type |-> "APPROVED", to |-> requests[r.ref].by, ref |-> r.ref]
          \/ j = [type |-> "HANDED_OVER", to |-> r.to, ref |-> r.ref]
      BY <2>4 DEF JobsOf
    <3>2. /\ r.ref \in 1..Len(requests)
          /\ r.to = requests[r.ref].to
          /\ \E k \in 1..Len(assignments) : assignments[k].via = r.ref
      BY <2>1, <2>4 DEF Knows, Decisions
    <3> QED
      BY <3>1, <3>2
  <2>5. CASE r.op = "reject"
    <3>1. j = [type |-> "REJECTED", to |-> requests[r.ref].by, ref |-> r.ref]
      BY <2>5 DEF JobsOf
    <3> QED
      BY <2>1, <2>5, <3>1 DEF Knows, Decisions
  <2> QED
    BY <2>1, <2>2, <2>3, <2>4, <2>5 DEF Decisions
<1> QED
  BY <1>1, RecordTheorem, PTL

--------------------------------------------------------------------------------
(* The timeline and the row *)

\* An event appended is the last one, and the log is not empty.
LEMMA AppendedLast ==
    ASSUME NEW S, NEW log \in Seq(S), NEW e \in S
    PROVE  Append(log, e) # <<>> /\ Last(Append(log, e)) = e
<1>1. Len(Append(log, e)) = Len(log) + 1 /\ Append(log, e)[Len(log) + 1] = e
  BY AppendProperties
<1>2. Len(log) + 1 # 0 /\ Len(<<>>) = 0
  BY LenProperties, EmptySeq
<1> QED
  BY <1>1, <1>2 DEF Last

(* The timeline tells who owns the ticket and which team it is in, however *)
(* assignments, transfers and approvals overwrite each other.              *)
THEOREM OwnerTheorem == Spec => []TimelineTellsOwner
<1>1. Init => TimelineTellsOwner
  BY DEF Init, TimelineTellsOwner
<1>2. TInv /\ TimelineTellsOwner /\ [Next]_vars => TimelineTellsOwner'
  <2> SUFFICES ASSUME TInv, TimelineTellsOwner, [Next]_vars
               PROVE  TimelineTellsOwner'
    OBVIOUS
  <2>1. CASE UNCHANGED <<assignee, team, timeline>>
    BY <2>1 DEF TimelineTellsOwner, timeline
  <2>2. ASSUME NEW h \in Handlers, NEW to \in Owner, NEW via \in Nat,
               handler[h].op # "none", AppendAssigned(h, to, via)
        PROVE  assignments' # <<>> /\ Last(assignments').to = to
    <3> DEFINE e == [by |-> handler[h].by, from |-> handler[h].from,
                     to |-> to, via |-> via]
    <3>1. e \in Assigned /\ assignments \in Seq(Assigned)
      BY <2>2 DEF TInv, TypeOK, SendersKnown, Sends, Assigned, Handler
    <3>2. assignments' = Append(assignments, e) /\ e.to = to
      BY <2>2 DEF AppendAssigned
    <3> QED
      BY <3>1, <3>2, AppendedLast
  <2>3. ASSUME NEW h \in Handlers, AssignCommit(h) \/ ApproveCommit(h)
        PROVE  TimelineTellsOwner'
    <3>1. /\ assignee' = handler[h].to
          /\ UNCHANGED <<team, transfers>>
          /\ \E via \in Nat : AppendAssigned(h, handler[h].to, via)
          /\ handler[h].op # "none" /\ handler[h].to \in Owner
      BY <2>3 DEF AssignCommit, ApproveCommit, At, TInv, TypeOK, Handler
    <3> QED
      BY <2>2, <3>1 DEF TimelineTellsOwner
  <2>4. ASSUME NEW h \in Handlers, TransferCommit(h)
        PROVE  TimelineTellsOwner'
    <3> DEFINE e == [by |-> handler[h].by, from |-> handler[h].team,
                     to |-> handler[h].dest]
    <3>1. e \in Moved /\ transfers \in Seq(Moved)
      BY <2>4 DEF TransferCommit, TInv, TypeOK, SendersKnown, Sends, Moved, Handler
    <3>2. transfers' = Append(transfers, e) /\ team' = e.to
      BY <2>4 DEF TransferCommit
    <3>3. Last(transfers').to = team'
      BY <3>1, <3>2, AppendedLast
    <3>4. \/ UNCHANGED <<assignee, assignments>>
          \/ assignee' = Nobody /\ AppendAssigned(h, Nobody, 0)
      BY <2>4 DEF TransferCommit
    <3>5. assignee' = IF assignments' = <<>> THEN Nobody ELSE Last(assignments').to
      <4>1. handler[h].op # "none" /\ Nobody \in Owner
        BY <2>4 DEF TransferCommit, Owner
      <4> QED
        BY <2>2, <3>4, <4>1 DEF TimelineTellsOwner
    <3> QED
      BY <3>3, <3>5 DEF TimelineTellsOwner
  <2> QED
    BY <2>1, <2>3, <2>4 DEF Next, HandlerStep, AdminStep, vars, ticket, timeline,
       AssignRead, AssignCheck, TransferRead, TransferCheck, RequestRead, RequestCheck,
       RequestFindsNone, RequestCommit, CancelRead, CancelCommit, ReviewRead,
       ReviewCheck, RejectCommit, Announce, Abort, UpdateTeams, SetStatus,
       TrashOrRestore
<1> QED
  BY <1>1, <1>2, SendersTheorem, PTL DEF Spec

================================================================================
