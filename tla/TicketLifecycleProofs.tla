------------------------- MODULE TicketLifecycleProofs -------------------------
(***************************************************************************)
(* Proofs about TicketLifecycle: for every number of requests and scans in *)
(* flight, every set of instants, every window and every mix of requests.  *)
(***************************************************************************)
EXTENDS TicketLifecycle, SequenceTheorems, TLAPS

--------------------------------------------------------------------------------
(* The pure rules *)

\* A started clock is a clock.
LEMMA StartedClockType ==
    ASSUME NEW target \in Target, NEW t \in Nat
    PROVE  StartedClock(target, t) \in Clock
BY RulesAssumption
   DEF StartedClock, Clock, SlaState, Time, Window, Target

\* A staff transition keeps the resolution clock a clock.
LEMMA ResolutionAfterType ==
    ASSUME NEW clk \in Clock, NEW from \in Status, NEW to \in Status,
           NEW t \in Nat
    PROVE  ResolutionAfter(clk, from, to, t) \in Clock
<1>1. [clk EXCEPT !.state = "MET", !.stopped = t] \in Clock
  BY DEF Clock, SlaState, Time
<1>2. [state   |-> "ON_TRACK",
       due     |-> IF HasPlan THEN t + ResolutionWindow ELSE clk.due,
       stopped |-> NoTime] \in Clock
  BY RulesAssumption DEF Clock, SlaState, Time
<1> QED
  BY <1>1, <1>2 DEF ResolutionAfter

\* Staff moves stay within the statuses.
LEMMA AllowedFromType ==
    ASSUME NEW s \in Status
    PROVE  AllowedFrom(s) \subseteq Status
BY DEF AllowedFrom, Status

\* evaluateTarget asks for a state, and for a new one only of a running target.
LEMMA EscalatedType ==
    ASSUME NEW target \in Target, NEW state \in SlaState, NEW due \in Time,
           NEW t \in Nat
    PROVE  /\ Escalated(target, state, due, t) \in SlaState
           /\ Escalated(target, state, due, t) # state =>
                /\ state \in RunningState
                /\ due # NoTime
                /\ Escalated(target, state, due, t) \in {"AT_RISK", "BREACHED"}
                /\ Escalated(target, state, due, t) = "AT_RISK" => state = "ON_TRACK"
BY DEF Escalated, SlaState, RunningState

--------------------------------------------------------------------------------
(* Type correctness *)

\* A ticket that was just created is well typed.
LEMMA TypeInit == Init => TypeOK
<1> SUFFICES ASSUME Init PROVE TypeOK
  OBVIOUS
<1>1. clock \in [Target -> Clock]
  BY StartedClockType DEF Init
<1>2. Idle \in Handler
  BY DEF Idle, Handler, Status
<1>3. Sleeping \in Scanner
  BY DEF Sleeping, Scanner, Seen, Unseen, SlaState, Time, Target
<1>4. handler \in [Handlers -> Handler] /\ scanner \in [Scanners -> Scanner]
  BY <1>2, <1>3 DEF Init
<1>5. /\ statusLog \in Seq(StatusEvent)
      /\ slaLog \in Seq(SlaEvent)
      /\ messages \in Seq(MessageOps)
  BY EmptySeq DEF Init
<1> QED
  BY <1>1, <1>4, <1>5, RulesAssumption DEF Init, TypeOK, Status

\* A request that is done and a scan that sleeps are typed.
LEMMA IdleType == Idle \in Handler /\ Sleeping \in Scanner
BY DEF Idle, Handler, Status, Sleeping, Scanner, Seen, Unseen, SlaState, Time,
       Target

\* Starting a request keeps the handlers typed.
LEMMA StartType ==
    ASSUME TypeOK, NEW h \in Handlers, NEW op, NEW from \in Status,
           NEW to \in Status, Start(h, op, from, to)
    PROVE  handler' \in [Handlers -> Handler]
<1>1. [op |-> op, pc |-> "write", from |-> from, to |-> to, at |-> now,
       event |-> 0] \in Handler
  BY RulesAssumption, LifecycleAssumption DEF Start, TypeOK, Handler
<1> QED
  BY <1>1 DEF Start, TypeOK

\* Going on or finishing keeps the handlers typed.
LEMMA GotoType ==
    ASSUME TypeOK, NEW h \in Handlers
    PROVE  /\ \A pc \in {"idle", "write", "mark", "announce"}, e \in Nat :
                Goto(h, pc, e) => handler' \in [Handlers -> Handler]
           /\ Finish(h) => handler' \in [Handlers -> Handler]
<1>1. Finish(h) => handler' \in [Handlers -> Handler]
  BY IdleType DEF TypeOK, Finish
<1>2. ASSUME NEW pc \in {"idle", "write", "mark", "announce"}, NEW e \in Nat,
             Goto(h, pc, e)
      PROVE  handler' \in [Handlers -> Handler]
  <2>1. [handler[h] EXCEPT !.pc = pc, !.event = e] \in Handler
    BY DEF TypeOK, Handler
  <2>2. handler' = [handler EXCEPT ![h] = [handler[h] EXCEPT !.pc = pc, !.event = e]]
    BY <1>2 DEF Goto, TypeOK, Handler
  <2> QED
    BY <2>1, <2>2 DEF TypeOK
<1> QED
  BY <1>1, <1>2

\* A scan that goes on to its next target stays typed.
LEMMA NextTargetType ==
    ASSUME TypeOK, NEW s \in Scanners, NextTarget(s)
    PROVE  scanner' \in [Scanners -> Scanner]
<1> DEFINE on == [scanner[s] EXCEPT !.pc = "evaluate", !.target = "RESOLUTION",
                                 !.level = "ON_TRACK", !.event = 0]
<1>1. scanner[s] \in Scanner
  BY DEF TypeOK
<1>2. on \in Scanner
  BY <1>1 DEF Scanner, Target, SlaState
<1>3. scanner' = [scanner EXCEPT ![s] = on] \/ scanner' = [scanner EXCEPT ![s] = Sleeping]
  BY DEF NextTarget, TypeOK
<1> HIDE DEF on
<1> QED
  BY <1>2, <1>3, IdleType DEF TypeOK

\* The level a scan asks for is an SLA state, and a new one only for a running target.
LEMMA WantedType ==
    ASSUME TypeOK, NEW s \in Scanners
    PROVE  /\ scanner[s].target \in Target
           /\ SeenState(s) \in SlaState
           /\ Wanted(s) \in SlaState
           /\ scanner[s].seen[scanner[s].target].due \in Time
           /\ Wanted(s) # SeenState(s) =>
                /\ SeenState(s) \in RunningState
                /\ scanner[s].seen[scanner[s].target].due # NoTime
                /\ Wanted(s) \in {"AT_RISK", "BREACHED"}
                /\ Wanted(s) = "AT_RISK" => SeenState(s) = "ON_TRACK"
<1> DEFINE target == scanner[s].target
           seen   == scanner[s].seen[target]
<1>1. /\ target \in Target
      /\ seen.state \in SlaState
      /\ seen.due \in Time
      /\ scanner[s].at \in Nat
  BY DEF TypeOK, Scanner, Seen
<1> HIDE DEF target, seen
<1>2. /\ SeenState(s) = seen.state
      /\ Wanted(s) = Escalated(target, seen.state, seen.due, scanner[s].at)
  BY DEF SeenState, Wanted, target, seen
<1>3. /\ scanner[s].target = target
      /\ scanner[s].seen[scanner[s].target].due = seen.due
  BY DEF target, seen
<1> QED
  BY <1>1, <1>2, <1>3, EscalatedType

\* Every step of the scanner keeps the row, the timeline and the scans typed.
LEMMA ScannerTypeStep ==
    ASSUME TypeOK, NEW s \in Scanners, ScannerStep(s)
    PROVE  TypeOK'
<1> USE LifecycleAssumption, RulesAssumption
<1>1. CASE ScanStart(s)
  <2>1. [scanner[s] EXCEPT !.pc = "read", !.at = now] \in Scanner
    BY DEF TypeOK, Scanner
  <2>2. scanner' \in [Scanners -> Scanner]
    BY <1>1, <2>1 DEF ScanStart, TypeOK
  <2> QED
    BY <1>1, <2>2 DEF ScanStart, TypeOK, ticket, timeline, queue
<1>2. CASE ScanRead(s)
  <2>1. [t \in Target |-> [state |-> clock[t].state, due |-> clock[t].due]] \in Seen
    BY DEF TypeOK, Seen, Clock
  <2>2. [scanner[s] EXCEPT !.pc = "evaluate",
            !.seen = [t \in Target |-> [state |-> clock[t].state,
                                        due   |-> clock[t].due]]] \in Scanner
    BY <2>1 DEF TypeOK, Scanner
  <2>3. scanner' \in [Scanners -> Scanner]
    BY <1>2, <2>2, IdleType DEF ScanRead, TypeOK
  <2> QED
    BY <1>2, <2>3 DEF ScanRead, TypeOK, ticket, timeline, queue
<1>3. CASE ScanCommit(s)
  <2>1. clock' \in [Target -> Clock]
    BY <1>3, WantedType DEF ScanCommit, TypeOK, Clock
  <2>2. EscalationEvent(s) \in SlaEvent
    BY WantedType, LenProperties DEF EscalationEvent, SlaEvent, TypeOK
  <2>3. slaLog' \in Seq(SlaEvent) /\ Len(slaLog) \in Nat
    BY <1>3, <2>2, AppendProperties, LenProperties DEF ScanCommit, TypeOK
  <2>4. [scanner[s] EXCEPT !.pc = "notify", !.level = Wanted(s),
                           !.event = Len(slaLog) + 1] \in Scanner
    <3>1. scanner[s] \in Scanner
      BY DEF TypeOK
    <3>2. Wanted(s) \in SlaState /\ Len(slaLog) + 1 \in Nat
      BY <2>3, WantedType
    <3> QED
      BY <3>1, <3>2 DEF Scanner
  <2>5. scanner' = [scanner EXCEPT ![s] =
                      [scanner[s] EXCEPT !.pc = "notify", !.level = Wanted(s),
                                         !.event = Len(slaLog) + 1]]
    BY <1>3 DEF ScanCommit, TypeOK, Scanner
  <2>6. scanner' \in [Scanners -> Scanner]
    BY <2>4, <2>5 DEF TypeOK
  <2> QED
    BY <1>3, <2>1, <2>3, <2>6 DEF ScanCommit, TypeOK, queue
<1>4. CASE ScanSkip(s) \/ ScanLost(s) \/ ScanCommitFails(s) \/ ScanNotifyFails(s)
  <2>1. scanner' \in [Scanners -> Scanner]
    BY <1>4, NextTargetType DEF ScanSkip, ScanLost, ScanCommitFails, ScanNotifyFails
  <2> QED
    BY <1>4, <2>1 DEF ScanSkip, ScanLost, ScanCommitFails, ScanNotifyFails, TypeOK,
                      ticket, timeline, queue
<1>5. CASE ScanNotify(s)
  <2>1. [target |-> scanner[s].target, level |-> scanner[s].level,
         event |-> scanner[s].event] \in SlaJob
    BY DEF TypeOK, Scanner, SlaJob
  <2>2. slaJobs' \subseteq SlaJob
    BY <1>5, <2>1 DEF ScanNotify, TypeOK
  <2>3. scanner' \in [Scanners -> Scanner]
    BY <1>5, NextTargetType DEF ScanNotify
  <2> QED
    BY <1>5, <2>2, <2>3 DEF ScanNotify, TypeOK, ticket, timeline
<1>6. CASE ScanAbort(s)
  <2>1. scanner' \in [Scanners -> Scanner]
    BY <1>6, IdleType DEF ScanAbort, TypeOK
  <2> QED
    BY <1>6, <2>1 DEF ScanAbort, TypeOK, ticket, timeline, queue
<1> QED
  BY <1>1, <1>2, <1>3, <1>4, <1>5, <1>6 DEF ScannerStep

\* markFirstResponse stamps an unset clock, or changes no clock.
LEMMA MarkedClock ==
    ASSUME TypeOK, NEW h \in Handlers, MarkFirstResponse(h)
    PROVE  \/ UNCHANGED clock
           \/ /\ FirstResponseUnset
              /\ \E t \in Instants :
                   clock' = [clock EXCEPT !["FIRST_RESPONSE"] =
                     [clock["FIRST_RESPONSE"] EXCEPT !.state = "MET", !.stopped = t]]
<1>1. CASE FirstResponseUnset
  <2>1. PICK t \in Since(handler[h].at) :
          clock' = [clock EXCEPT !["FIRST_RESPONSE"].state = "MET",
                                 !["FIRST_RESPONSE"].stopped = t]
    BY <1>1 DEF MarkFirstResponse
  <2>2. clock' = [clock EXCEPT !["FIRST_RESPONSE"] =
           [clock["FIRST_RESPONSE"] EXCEPT !.state = "MET", !.stopped = t]]
    BY <2>1 DEF TypeOK, Target, Clock
  <2> QED
    BY <1>1, <2>2 DEF Since
<1>2. CASE ~FirstResponseUnset
  BY <1>2 DEF MarkFirstResponse
<1> QED
  BY <1>1, <1>2

\* Every step of a request keeps the row, the timeline and the requests typed.
LEMMA HandlerTypeStep ==
    ASSUME TypeOK, NEW h \in Handlers, HandlerStep(h)
    PROVE  TypeOK'
<1> USE LifecycleAssumption, RulesAssumption
<1>0. /\ handler[h] \in Handler
      /\ status \in Status
      /\ now \in Nat
      /\ Len(statusLog) \in Nat
      /\ Len(messages) \in Nat
  BY LenProperties DEF TypeOK
<1>1. CASE \/ \E to \in Status : StatusRead(h, to)
           \/ \E to \in Status : PatchRead(h, to)
           \/ \E op \in MessageOps : MessageRead(h, op)
           \/ TrashRead(h)
           \/ RestoreRead(h)
  <2>1. handler' \in [Handlers -> Handler]
    BY <1>0, <1>1, StartType
       DEF StatusRead, PatchRead, MessageRead, TrashRead, RestoreRead
  <2> QED
    BY <1>1, <2>1 DEF StatusRead, PatchRead, MessageRead, TrashRead, RestoreRead,
                      TypeOK, ticket, timeline, queue
<1>2. CASE StatusCommit(h)
  <2>1. handler[h].from \in Status /\ handler[h].to \in Status
    BY <1>0 DEF Handler
  <2>2. clock' \in [Target -> Clock]
    <3>1. PICK t \in Since(handler[h].at) :
             clock' = [clock EXCEPT !["RESOLUTION"] =
                         ResolutionAfter(@, handler[h].from, handler[h].to, t)]
      BY <1>2 DEF StatusCommit
    <3>2. ResolutionAfter(clock["RESOLUTION"], handler[h].from, handler[h].to, t) \in Clock
      BY <2>1, ResolutionAfterType DEF Since, TypeOK, Target
    <3> QED
      BY <3>1, <3>2 DEF TypeOK
  <2>3. [by |-> "staff", from |-> handler[h].from, to |-> handler[h].to] \in StatusEvent
    BY <2>1 DEF StatusEvent, Actor
  <2>4. statusLog' \in Seq(StatusEvent)
    BY <1>2, <2>3, AppendProperties DEF StatusCommit, TypeOK
  <2>5. handler' \in [Handlers -> Handler]
    BY <1>0, <1>2, GotoType DEF StatusCommit
  <2> QED
    BY <1>2, <2>1, <2>2, <2>4, <2>5 DEF StatusCommit, TypeOK, queue
<1>3. CASE PatchCommit(h)
  <2>1. [by |-> "customer", from |-> handler[h].from, to |-> handler[h].to]
           \in StatusEvent
    BY <1>0 DEF Handler, StatusEvent, Actor
  <2>2. statusLog' \in Seq(StatusEvent)
    BY <1>3, <2>1, AppendProperties DEF PatchCommit, TypeOK
  <2>3. handler' \in [Handlers -> Handler] /\ status' \in Status
    BY <1>0, <1>3, GotoType DEF PatchCommit, Handler
  <2> QED
    BY <1>3, <2>2, <2>3 DEF PatchCommit, TypeOK, queue
<1>4. CASE MessageCommit(h)
  <2>1. messages' \in Seq(MessageOps)
    BY <1>4, AppendProperties DEF MessageCommit, TypeOK
  <2>2. [handler[h] EXCEPT !.pc = AfterMessage(handler[h].op),
                           !.event = Len(messages) + 1, !.at = now] \in Handler
    <3>1. AfterMessage(handler[h].op) \in {"mark", "announce"}
      BY DEF AfterMessage
    <3>2. Len(messages) + 1 \in Nat
      BY <1>0
    <3> QED
      BY <1>0, <3>1, <3>2 DEF Handler
  <2>3. handler' = [handler EXCEPT ![h] =
           [handler[h] EXCEPT !.pc = AfterMessage(handler[h].op),
                              !.event = Len(messages) + 1, !.at = now]]
    BY <1>4 DEF MessageCommit, TypeOK, Handler
  <2>4. handler' \in [Handlers -> Handler]
    BY <2>2, <2>3 DEF TypeOK
  <2> QED
    BY <1>4, <2>1, <2>4 DEF MessageCommit, TypeOK, ticket, queue
<1>5. CASE MarkFirstResponse(h)
  <2>1. handler' \in [Handlers -> Handler]
    BY <1>0, <1>5, GotoType DEF MarkFirstResponse, Handler
  <2>2. clock' \in [Target -> Clock]
    <3>1. ASSUME NEW t \in Instants
          PROVE  [clock["FIRST_RESPONSE"] EXCEPT !.state = "MET", !.stopped = t] \in Clock
      <4>1. clock["FIRST_RESPONSE"] \in Clock /\ t \in Nat
        BY DEF TypeOK, Target
      <4> QED
        BY <4>1 DEF Clock, SlaState, Time
    <3> QED
      BY <1>5, <3>1, MarkedClock DEF TypeOK
  <2> QED
    BY <1>5, <2>1, <2>2 DEF MarkFirstResponse, TypeOK, timeline, queue
<1>6. CASE MarkFails(h)
  <2>1. handler' \in [Handlers -> Handler]
    BY <1>0, <1>6, GotoType DEF MarkFails, Handler
  <2> QED
    BY <1>6, <2>1 DEF MarkFails, TypeOK, ticket, timeline, queue
<1>7. CASE Announce(h)
  <2>1. JobOf(h) \in Job
    BY <1>0 DEF JobOf, Job, Handler
  <2>2. handler' \in [Handlers -> Handler]
    BY <1>7, GotoType DEF Announce
  <2> QED
    BY <1>7, <2>1, <2>2 DEF Announce, TypeOK, ticket, timeline
<1>8. CASE StatusConflict(h) \/ Abort(h)
  <2>1. handler' \in [Handlers -> Handler]
    BY <1>8, GotoType DEF StatusConflict, Abort
  <2> QED
    BY <1>8, <2>1 DEF StatusConflict, Abort, TypeOK, ticket, timeline, queue
<1>9. CASE TrashCommit(h) \/ RestoreCommit(h)
  <2>1. handler' \in [Handlers -> Handler]
    BY <1>9, GotoType DEF TrashCommit, RestoreCommit
  <2> QED
    BY <1>9, <2>1 DEF TrashCommit, RestoreCommit, TypeOK, timeline, queue
<1> QED
  BY <1>1, <1>2, <1>3, <1>4, <1>5, <1>6, <1>7, <1>8, <1>9 DEF HandlerStep

(* Every reachable state is typed, whatever requests and scans interleave:  *)
(* statuses and SLA states stay in their enums, due dates and stamps are    *)
(* times or null, events and jobs are well formed.                          *)
THEOREM TypeCorrect == Spec => []TypeOK
<1>1. TypeOK /\ [Next]_vars => TypeOK'
  <2> SUFFICES ASSUME TypeOK, [Next]_vars PROVE TypeOK'
    OBVIOUS
  <2>1. CASE Tick
    BY <2>1 DEF Tick, TypeOK, ticket, timeline, queue
  <2>2. CASE UNCHANGED vars
    BY <2>2 DEF vars, TypeOK
  <2> QED
    BY <2>1, <2>2, HandlerTypeStep, ScannerTypeStep DEF Next
<1> QED
  BY <1>1, TypeInit, PTL DEF Spec

--------------------------------------------------------------------------------
(* The inductive invariant.  A write trusts what its request read, so the  *)
(* invariant speaks of the requests and scans in flight: a status request   *)
(* that awaits its write asks for a move the matrix allows from the status  *)
(* it read, a customer's for a close or a reopening, and due dates, on the  *)
(* row and as scans saw them, exist only under a plan.                      *)

RequestsAllowed ==
    \A h \in Handlers :
        /\ Writing(h, "status") => handler[h].to \in AllowedFrom(handler[h].from)
        /\ Writing(h, "patch") => handler[h].to \in {"OPEN", "CLOSED"}

DuesFollowPlan ==
    /\ \A t \in Target : clock[t].due # NoTime <=> HasPlan
    /\ \A s \in Scanners, t \in Target :
         scanner[s].seen[t].due # NoTime => HasPlan

IInv == TypeOK /\ RequestsAllowed /\ DuesFollowPlan

\* The invariant holds of a ticket that was just created.
LEMMA InvInit == Init => IInv
<1> SUFFICES ASSUME Init PROVE IInv
  OBVIOUS
<1>1. RequestsAllowed
  BY DEF Init, RequestsAllowed, Writing, Idle
<1>2. \A t \in Target : clock[t].due # NoTime <=> HasPlan
  BY RulesAssumption DEF Init, StartedClock, Window
<1>3. \A s \in Scanners, t \in Target : scanner[s].seen[t].due = NoTime
  BY DEF Init, Sleeping, Unseen
<1> QED
  BY <1>1, <1>2, <1>3, TypeInit DEF IInv, DuesFollowPlan

(* Every step of a request keeps it: a status request holds a move of the  *)
(* matrix from the status it read, and due dates follow the plan.          *)
LEMMA HandlerInvStep ==
    ASSUME IInv, NEW h \in Handlers, HandlerStep(h)
    PROVE  RequestsAllowed' /\ DuesFollowPlan'
<1>1. RequestsAllowed'
  <2> SUFFICES ASSUME NEW g \in Handlers
               PROVE  /\ Writing(g, "status")' =>
                           handler'[g].to \in AllowedFrom(handler'[g].from)
                      /\ Writing(g, "patch")' => handler'[g].to \in {"OPEN", "CLOSED"}
    BY DEF RequestsAllowed
  <2>1. CASE \/ handler'[g] = handler[g]
             \/ handler'[g].pc # "write"
             \/ handler'[g].op \notin StatusOps
    BY <2>1 DEF IInv, RequestsAllowed, Writing, StatusOps
  <2>2. CASE g = h /\ \E to \in Status : StatusRead(h, to) \/ PatchRead(h, to)
    BY <2>2 DEF StatusRead, PatchRead, Start, Writing, IInv, TypeOK
  <2>3. g # h => handler'[g] = handler[g]
    BY DEF HandlerStep, StatusRead, StatusCommit, StatusConflict, PatchRead,
           PatchCommit, MessageRead, MessageCommit, MarkFirstResponse, MarkFails,
           TrashRead, TrashCommit, RestoreRead, RestoreCommit, Announce, Abort,
           Start, Goto, Finish, IInv, TypeOK
  <2>4. CASE g = h /\ \/ \E op \in MessageOps : MessageRead(h, op)
                      \/ TrashRead(h) \/ RestoreRead(h)
    BY <2>1, <2>4 DEF MessageRead, TrashRead, RestoreRead, Start, MessageOps,
                      StatusOps, IInv, TypeOK
  <2>5. CASE g = h /\ \/ StatusConflict(h) \/ PatchCommit(h) \/ TrashCommit(h)
                      \/ RestoreCommit(h) \/ Announce(h) \/ Abort(h)
    BY <2>1, <2>5 DEF StatusConflict, PatchCommit, TrashCommit, RestoreCommit,
                      Announce, Abort, Finish, Idle, IInv, TypeOK
  <2>6. CASE g = h /\ \/ StatusCommit(h) \/ MarkFirstResponse(h) \/ MarkFails(h)
    BY <2>1, <2>6 DEF StatusCommit, MarkFirstResponse, MarkFails, Goto, IInv, TypeOK,
                      Handler
  <2>7. CASE g = h /\ MessageCommit(h)
    BY <2>1, <2>7 DEF MessageCommit, AfterMessage, IInv, TypeOK, Handler
  <2> QED
    BY <2>1, <2>2, <2>3, <2>4, <2>5, <2>6, <2>7 DEF HandlerStep
<1>2. \A t \in Target : clock'[t].due # NoTime <=> HasPlan
  <2>1. CASE StatusCommit(h)
    <3>1. PICK t \in Since(handler[h].at) :
             clock' = [clock EXCEPT !["RESOLUTION"] =
                         ResolutionAfter(@, handler[h].from, handler[h].to, t)]
      BY <2>1 DEF StatusCommit
    <3>2. t \in Nat
      BY RulesAssumption DEF Since
    <3>3. clock["RESOLUTION"] \in Clock /\ (clock["RESOLUTION"].due # NoTime <=> HasPlan)
      BY DEF IInv, TypeOK, DuesFollowPlan, Target
    <3>4. ResolutionAfter(clock["RESOLUTION"], handler[h].from, handler[h].to, t).due # NoTime
             <=> HasPlan
      BY <3>2, <3>3, RulesAssumption DEF ResolutionAfter, Clock
    <3> QED
      BY <3>1, <3>4 DEF IInv, TypeOK, DuesFollowPlan
  <2>2. CASE MarkFirstResponse(h)
    <3>1. \A t \in Target : clock'[t].due = clock[t].due
      BY <2>2, MarkedClock DEF IInv, TypeOK, Clock
    <3> QED
      BY <3>1 DEF IInv, DuesFollowPlan
  <2>3. CASE UNCHANGED clock
    BY <2>3 DEF IInv, DuesFollowPlan
  <2> QED
    BY <2>1, <2>2, <2>3
       DEF HandlerStep, StatusRead, StatusConflict, PatchRead, PatchCommit,
           MessageRead, MessageCommit, MarkFails, TrashRead, TrashCommit,
           RestoreRead, RestoreCommit, Announce, Abort, ticket
<1>3. UNCHANGED scanner
  BY DEF HandlerStep, StatusRead, StatusCommit, StatusConflict, PatchRead,
         PatchCommit, MessageRead, MessageCommit, MarkFirstResponse, MarkFails,
         TrashRead, TrashCommit, RestoreRead, RestoreCommit, Announce, Abort
<1> QED
  BY <1>1, <1>2, <1>3 DEF IInv, DuesFollowPlan

\* So does every step of a scan, which writes neither dates nor requests.
LEMMA ScannerInvStep ==
    ASSUME IInv, NEW s \in Scanners, ScannerStep(s)
    PROVE  RequestsAllowed' /\ DuesFollowPlan'
<1>1. UNCHANGED handler
  BY DEF ScannerStep, ScanStart, ScanRead, ScanSkip, ScanCommit, ScanLost,
         ScanCommitFails, ScanNotify, ScanNotifyFails, ScanAbort
<1>2. \A t \in Target : clock'[t].due = clock[t].due
  <2>1. CASE ScanCommit(s)
    BY <2>1 DEF ScanCommit, IInv, TypeOK, Clock
  <2> QED
    BY <2>1 DEF ScannerStep, ScanStart, ScanRead, ScanSkip, ScanLost,
                ScanCommitFails, ScanNotify, ScanNotifyFails, ScanAbort, ticket
<1>3. \A r \in Scanners, t \in Target :
         scanner'[r].seen[t].due # NoTime => HasPlan
  <2> SUFFICES ASSUME NEW r \in Scanners, NEW t \in Target,
                      scanner'[r].seen[t].due # NoTime
               PROVE  HasPlan
    OBVIOUS
  <2>1. CASE scanner'[r].seen = scanner[r].seen \/ scanner'[r].seen = Unseen
    BY <2>1 DEF IInv, DuesFollowPlan, Unseen
  <2>2. CASE ScanRead(s)
    <3>1. \/ scanner'[r].seen = scanner[r].seen
          \/ scanner'[r].seen = Unseen
          \/ scanner'[r].seen = [u \in Target |-> [state |-> clock[u].state,
                                                   due   |-> clock[u].due]]
      BY <2>2 DEF ScanRead, IInv, TypeOK, Scanner, Sleeping
    <3> QED
      BY <2>1, <3>1 DEF IInv, DuesFollowPlan
  <2>3. CASE NextTarget(s) \/ ScanAbort(s)
    <3>1. scanner'[r].seen = scanner[r].seen \/ scanner'[r].seen = Unseen
      <4>1. scanner'[r] = scanner[r] \/ scanner'[r] = Sleeping \/
            scanner'[r] = [scanner[r] EXCEPT !.pc = "evaluate", !.target = "RESOLUTION",
                                             !.level = "ON_TRACK", !.event = 0]
        BY <2>3 DEF NextTarget, ScanAbort, IInv, TypeOK
      <4>2. scanner[r] \in Scanner
        BY DEF IInv, TypeOK
      <4>3. Sleeping.seen = Unseen
        BY DEF Sleeping
      <4>4. [scanner[r] EXCEPT !.pc = "evaluate", !.target = "RESOLUTION",
                               !.level = "ON_TRACK", !.event = 0].seen = scanner[r].seen
        BY <4>2 DEF Scanner
      <4> QED
        BY <4>1, <4>3, <4>4
    <3> QED
      BY <2>1, <3>1
  <2>4. CASE ScanStart(s) \/ ScanCommit(s)
    <3>1. \/ scanner'[r] = scanner[r]
          \/ scanner'[r] = [scanner[r] EXCEPT !.pc = "read", !.at = now]
          \/ scanner'[r] = [scanner[r] EXCEPT !.pc = "notify", !.level = Wanted(s),
                                              !.event = Len(slaLog) + 1]
      BY <2>4 DEF ScanStart, ScanCommit, IInv, TypeOK
    <3>2. scanner[r] \in Scanner
      BY DEF IInv, TypeOK
    <3>3. scanner'[r].seen = scanner[r].seen
      BY <3>1, <3>2 DEF Scanner
    <3> QED
      BY <2>1, <3>3
  <2> QED
    BY <2>2, <2>3, <2>4 DEF ScannerStep, ScanSkip, ScanLost, ScanCommitFails,
                            ScanNotify, ScanNotifyFails
<1> QED
  BY <1>1, <1>2, <1>3 DEF IInv, RequestsAllowed, DuesFollowPlan, Writing

\* The invariant is inductive.
LEMMA InvStep == IInv /\ [Next]_vars => IInv'
<1> SUFFICES ASSUME IInv, [Next]_vars PROVE IInv'
  OBVIOUS
<1>1. CASE UNCHANGED vars
  BY <1>1 DEF vars, IInv, TypeOK, RequestsAllowed, DuesFollowPlan, Writing
<1>2. CASE Tick
  BY <1>2 DEF Tick, IInv, TypeOK, RequestsAllowed, DuesFollowPlan, Writing, ticket,
              timeline, queue
<1>3. CASE \E h \in Handlers : HandlerStep(h)
  BY <1>3, HandlerTypeStep, HandlerInvStep DEF IInv
<1>4. CASE \E s \in Scanners : ScannerStep(s)
  BY <1>4, ScannerTypeStep, ScannerInvStep DEF IInv
<1> QED
  BY <1>1, <1>2, <1>3, <1>4 DEF Next

(* Types, the moves that requests in flight hold, and the due dates: the    *)
(* inductive invariant that the theorems below rest on.                    *)
THEOREM Invariance == Spec => []IInv
BY InvInit, InvStep, PTL DEF Spec

--------------------------------------------------------------------------------
(* Refinement *)

\* The contract is stated with the same rules.
LEMMA SameRules ==
    /\ Contract!Target = Target
    /\ Contract!RunningState = RunningState
    /\ \A s : Contract!AllowedFrom(s) = AllowedFrom(s)
    /\ \A target, t : Contract!StartedClock(target, t) = StartedClock(target, t)
    /\ \A clk, from, to, t :
         Contract!ResolutionAfter(clk, from, to, t) = ResolutionAfter(clk, from, to, t)
BY DEF Contract!Target, Target, Contract!RunningState, RunningState,
       Contract!AllowedFrom, AllowedFrom, Contract!StartedClock, StartedClock,
       Contract!Window, Window, Contract!ResolutionAfter, ResolutionAfter,
       Contract!ResolvedStatuses, ResolvedStatuses, Contract!ReopenStatuses,
       ReopenStatuses

\* Each step of a request is a step of the contract or leaves its state alone.
LEMMA HandlerRefines ==
    ASSUME IInv, NEW h \in Handlers, HandlerStep(h)
    PROVE  Contract!Next \/ UNCHANGED <<status, clock>>
<1>1. CASE StatusCommit(h)
  <2>1. PICK t \in Since(handler[h].at) :
           clock' = [clock EXCEPT !["RESOLUTION"] =
                       ResolutionAfter(@, handler[h].from, handler[h].to, t)]
    BY <1>1 DEF StatusCommit
  <2>2. /\ status = handler[h].from
        /\ status' = handler[h].to
        /\ handler[h].to \in AllowedFrom(status)
        /\ t \in Instants
    BY <1>1 DEF StatusCommit, StillInStatus, IInv, RequestsAllowed, Since
  <2>3. Contract!StaffMoves
    BY <2>1, <2>2, SameRules DEF Contract!StaffMoves
  <2> QED
    BY <2>3 DEF Contract!Next
<1>2. CASE PatchCommit(h)
  <2>1. Contract!CustomerSets
    BY <1>2 DEF PatchCommit, IInv, RequestsAllowed, Contract!CustomerSets
  <2> QED
    BY <2>1 DEF Contract!Next
<1>3. CASE MarkFirstResponse(h)
  <2>1. UNCHANGED status
    BY <1>3 DEF MarkFirstResponse
  <2>2. CASE UNCHANGED clock
    BY <2>1, <2>2
  <2>3. ASSUME FirstResponseUnset, NEW t \in Instants,
               clock' = [clock EXCEPT !["FIRST_RESPONSE"] =
                 [clock["FIRST_RESPONSE"] EXCEPT !.state = "MET", !.stopped = t]]
        PROVE  Contract!Responds
    <3>1. clock' = [clock EXCEPT !["FIRST_RESPONSE"].state = "MET",
                                 !["FIRST_RESPONSE"].stopped = t]
      BY <2>3 DEF IInv, TypeOK, Target, Clock
    <3> QED
      BY <2>1, <2>3, <3>1 DEF Contract!Responds, FirstResponseUnset
  <2> QED
    BY <1>3, <2>2, <2>3, MarkedClock DEF IInv, Contract!Next
<1> QED
  BY <1>1, <1>2, <1>3
     DEF HandlerStep, StatusRead, StatusConflict, PatchRead, MessageRead,
         MessageCommit, MarkFails, TrashRead, TrashCommit, RestoreRead,
         RestoreCommit, Announce, Abort, ticket

\* A scan that commits escalates a running clock; its other steps do not show.
LEMMA ScannerRefines ==
    ASSUME IInv, NEW s \in Scanners, ScannerStep(s)
    PROVE  Contract!Next \/ UNCHANGED <<status, clock>>
<1>1. CASE ScanCommit(s)
  <2> DEFINE target == scanner[s].target
  <2>1. /\ target \in Target
        /\ clock[target].state = SeenState(s)
        /\ SeenState(s) \in RunningState
        /\ Wanted(s) \in {"AT_RISK", "BREACHED"}
        /\ Wanted(s) = "AT_RISK" => SeenState(s) = "ON_TRACK"
        /\ scanner[s].seen[target].due # NoTime
    BY <1>1, WantedType DEF ScanCommit, StillInState, IInv
  <2>2. clock[target].due # NoTime
    BY <2>1 DEF IInv, DuesFollowPlan
  <2>3. /\ clock' = [clock EXCEPT ![target].state = Wanted(s)]
        /\ UNCHANGED status
    BY <1>1 DEF ScanCommit
  <2> HIDE DEF target
  <2>4. Contract!Escalates
    BY <2>1, <2>2, <2>3, SameRules DEF Contract!Escalates
  <2> QED
    BY <2>4 DEF Contract!Next
<1> QED
  BY <1>1 DEF ScannerStep, ScanStart, ScanRead, ScanSkip, ScanLost,
              ScanCommitFails, ScanNotify, ScanNotifyFails, ScanAbort, ticket

\* Every step of the ticket is a step of the contract or a stutter.
LEMMA StepRefines ==
    ASSUME IInv, [Next]_vars
    PROVE  Contract!Next \/ UNCHANGED <<status, clock>>
<1>1. CASE Tick \/ UNCHANGED vars
  BY <1>1 DEF Tick, vars, ticket
<1> QED
  BY <1>1, HandlerRefines, ScannerRefines DEF Next

(* The interleaved handlers and scans implement the contract: seen through *)
(* the row's status and clocks, every staff move, first response and       *)
(* escalation is one atomic step that the contract allows.                 *)
THEOREM Refinement == Spec => ImplementsContract
<1>1. Init => Contract!Init
  BY SameRules DEF Init, Contract!Init
<1>2. IInv /\ [Next]_vars => [Contract!Next]_(Contract!contractVars)
  BY StepRefines DEF Contract!contractVars
<1> QED
  BY <1>1, <1>2, Invariance, PTL DEF Spec, ImplementsContract, Contract!Spec

--------------------------------------------------------------------------------
(* Safety of the clocks, from the contract *)

\* No clock of a new ticket is stopped, and none is met.
LEMMA StampInit == Init => StampAgreesWithState
BY RulesAssumption DEF Init, StampAgreesWithState, StartedClock

\* Every step of the contract stops a clock exactly when it meets it.
LEMMA StampStep ==
    ASSUME IInv, StampAgreesWithState, [Next]_vars
    PROVE  StampAgreesWithState'
<1> USE RulesAssumption
<1>1. CASE Contract!StaffMoves
  <2>1. PICK to \in AllowedFrom(status), t \in Instants :
           clock' = [clock EXCEPT !["RESOLUTION"] =
                       ResolutionAfter(@, status, to, t)]
    BY <1>1, SameRules DEF Contract!StaffMoves
  <2>2. clock["RESOLUTION"] \in Clock /\ t # NoTime
    BY DEF IInv, TypeOK, Target
  <2>3. LET clk == ResolutionAfter(clock["RESOLUTION"], status, to, t)
        IN  clk.stopped # NoTime <=> clk.state = "MET"
    BY <2>2 DEF ResolutionAfter, Clock, StampAgreesWithState, Target
  <2> QED
    BY <2>1, <2>3 DEF StampAgreesWithState, IInv, TypeOK
<1>2. CASE Contract!Responds
  <2>1. PICK t \in Instants :
           clock' = [clock EXCEPT !["FIRST_RESPONSE"].state = "MET",
                                  !["FIRST_RESPONSE"].stopped = t]
    BY <1>2 DEF Contract!Responds
  <2>2. t # NoTime
    OBVIOUS
  <2> QED
    BY <2>1, <2>2 DEF StampAgreesWithState, IInv, TypeOK, Clock
<1>3. CASE Contract!Escalates
  <2>1. PICK t \in Target, state \in {"AT_RISK", "BREACHED"} :
           /\ clock[t].state \in RunningState
           /\ clock' = [clock EXCEPT ![t].state = state]
    BY <1>3, SameRules DEF Contract!Escalates, RunningState
  <2> QED
    BY <2>1 DEF StampAgreesWithState, IInv, TypeOK, Clock, RunningState
<1>4. CASE UNCHANGED clock
  BY <1>4 DEF StampAgreesWithState
<1> QED
  BY <1>1, <1>2, <1>3, <1>4, StepRefines DEF Contract!Next, Contract!CustomerSets

(* A clock is stopped exactly when it is met: no scan, however stale the   *)
(* row it read, undoes a response or a resolution.                         *)
THEOREM StampTheorem == Spec => []StampAgreesWithState
BY StampInit, StampStep, Invariance, PTL DEF Spec

(* Once answered, the first response keeps its stamp and its state for     *)
(* ever.                                                                   *)
THEOREM FirstResponseTheorem == Spec => FirstResponseIsFinal
<1> DEFINE Final == clock["FIRST_RESPONSE"].stopped # NoTime
                      => clock'["FIRST_RESPONSE"] = clock["FIRST_RESPONSE"]
<1>1. ASSUME IInv, StampAgreesWithState, [Next]_vars
      PROVE  Final
  <2> SUFFICES ASSUME clock["FIRST_RESPONSE"].stopped # NoTime
               PROVE  clock'["FIRST_RESPONSE"] = clock["FIRST_RESPONSE"]
    OBVIOUS
  <2>1. clock["FIRST_RESPONSE"].state = "MET"
    BY <1>1 DEF StampAgreesWithState, Target
  <2>2. CASE Contract!StaffMoves
    BY <1>1, <2>2 DEF Contract!StaffMoves, IInv, TypeOK
  <2>3. CASE Contract!Responds
    BY <2>3 DEF Contract!Responds
  <2>4. CASE Contract!Escalates
    <3>1. PICK t \in Target, state \in {"AT_RISK", "BREACHED"} :
             /\ clock[t].state \in RunningState
             /\ clock' = [clock EXCEPT ![t].state = state]
      BY <2>4, SameRules DEF Contract!Escalates, RunningState
    <3>2. t # "FIRST_RESPONSE"
      BY <2>1, <3>1 DEF RunningState
    <3> QED
      BY <1>1, <3>1, <3>2 DEF IInv, TypeOK
  <2> QED
    BY <1>1, <2>2, <2>3, <2>4, StepRefines DEF Contract!Next, Contract!CustomerSets
<1>2. IInv /\ StampAgreesWithState /\ [Next]_vars => [Final]_vars
  BY <1>1
<1> QED
  BY <1>2, StampTheorem, Invariance, PTL DEF Spec, FirstResponseIsFinal

--------------------------------------------------------------------------------
(* Safety of the timeline *)

\* Appending an event leaves the events before it where they were.
LEMMA AppendedLog ==
    ASSUME TypeOK, NEW e \in StatusEvent, statusLog' = Append(statusLog, e)
    PROVE  /\ Len(statusLog) \in Nat
           /\ Len(statusLog') = Len(statusLog) + 1
           /\ \A i \in 1..Len(statusLog) : statusLog'[i] = statusLog[i]
           /\ statusLog'[Len(statusLog) + 1] = e
           /\ \A i \in 0..Len(statusLog) : StatusAt(i)' = StatusAt(i)
<1>1. statusLog \in Seq(StatusEvent)
  BY DEF TypeOK
<1>2. /\ Len(statusLog) \in Nat
      /\ Len(statusLog') = Len(statusLog) + 1
      /\ \A i \in 1..Len(statusLog) : statusLog'[i] = statusLog[i]
      /\ statusLog'[Len(statusLog) + 1] = e
  BY <1>1, AppendProperties, LenProperties
<1> QED
  BY <1>2 DEF StatusAt

\* Only commits append, and what they append starts where the row is.
LEMMA TimelineStep ==
    ASSUME IInv, TimelineIsHistory, [Next]_vars
    PROVE  TimelineIsHistory'
<1>1. ASSUME NEW e \in StatusEvent, statusLog' = Append(statusLog, e),
             status' = e.to,
             e.by = "staff" => e.from = status /\ e.to \in AllowedFrom(e.from)
      PROVE  TimelineIsHistory'
  <2>0. PICK n \in Nat : n = Len(statusLog)
    BY <1>1, AppendedLog DEF IInv
  <2>1. /\ Len(statusLog') = n + 1
        /\ \A i \in 1..n : statusLog'[i] = statusLog[i]
        /\ statusLog'[n + 1] = e
        /\ \A i \in 0..n : StatusAt(i)' = StatusAt(i)
    BY <1>1, <2>0, AppendedLog DEF IInv
  <2>2. status = StatusAt(n)
    BY <2>0 DEF TimelineIsHistory
  <2>3. StatusAt(n + 1)' = e.to
    BY <2>1 DEF StatusAt
  <2> SUFFICES ASSUME NEW i \in 1..(n + 1), statusLog'[i].by = "staff"
               PROVE  /\ statusLog'[i].from = StatusAt(i - 1)'
                      /\ statusLog'[i].to \in AllowedFrom(statusLog'[i].from)
    BY <1>1, <2>1, <2>3 DEF TimelineIsHistory
  <2>4. CASE i = n + 1
    <3>1. StatusAt(i - 1)' = status
      BY <2>1, <2>2, <2>4
    <3> QED
      BY <1>1, <2>1, <2>4, <3>1
  <2>5. CASE i \in 1..n
    <3>1. /\ statusLog'[i] = statusLog[i]
          /\ StatusAt(i - 1)' = StatusAt(i - 1)
      BY <2>1, <2>5
    <3>2. /\ statusLog[i].from = StatusAt(i - 1)
          /\ statusLog[i].to \in AllowedFrom(statusLog[i].from)
      BY <2>0, <2>5, <3>1 DEF TimelineIsHistory
    <3> QED
      BY <3>1, <3>2
  <2> QED
    BY <2>1, <2>4, <2>5
<1>2. ASSUME NEW h \in Handlers, StatusCommit(h)
      PROVE  TimelineIsHistory'
  <2> DEFINE e == [by |-> "staff", from |-> handler[h].from, to |-> handler[h].to]
  <2>1. e \in StatusEvent
    BY DEF IInv, TypeOK, Handler, StatusEvent, Actor
  <2> QED
    BY <1>1, <1>2, <2>1 DEF StatusCommit, StillInStatus, IInv, RequestsAllowed
<1>3. ASSUME NEW h \in Handlers, PatchCommit(h)
      PROVE  TimelineIsHistory'
  <2> DEFINE e == [by |-> "customer", from |-> handler[h].from, to |-> handler[h].to]
  <2>1. e \in StatusEvent
    BY DEF IInv, TypeOK, Handler, StatusEvent, Actor
  <2> QED
    BY <1>1, <1>3, <2>1 DEF PatchCommit
<1>4. CASE UNCHANGED <<status, statusLog>>
  BY <1>4 DEF TimelineIsHistory, StatusAt
<1>5. \/ UNCHANGED <<status, statusLog>>
      \/ \E h \in Handlers : StatusCommit(h) \/ PatchCommit(h)
  BY DEF Next, vars, HandlerStep, StatusRead, StatusConflict, PatchRead,
         MessageRead, MessageCommit, MarkFirstResponse, MarkFails, TrashRead,
         TrashCommit, RestoreRead, RestoreCommit, Announce, Abort, ScannerStep,
         ScanStart, ScanRead, ScanSkip, ScanCommit, ScanLost, ScanCommitFails,
         ScanNotify, ScanNotifyFails, ScanAbort, Tick, ticket, timeline
<1> QED
  BY <1>2, <1>3, <1>4, <1>5

(* The timeline is the history of the row: whatever requests race, the     *)
(* row's status is where the last status event leads, and every staff      *)
(* event starts where the one before it led and follows the matrix.        *)
THEOREM TimelineTheorem == Spec => []TimelineIsHistory
<1>1. Init => TimelineIsHistory
  BY DEF Init, TimelineIsHistory, StatusAt
<1> QED
  BY <1>1, TimelineStep, Invariance, PTL DEF Spec

\* A staff move meets or restarts the resolution clock with the status.
LEMMA StaffDrivesStep ==
    ASSUME IInv, StaffDrivesResolution, [Next]_vars
    PROVE  StaffDrivesResolution'
<1> DEFINE AllStaff == \A i \in 1..Len(statusLog) : statusLog[i].by = "staff"
           Met(c) == c["RESOLUTION"].state = "MET"
<1>1. ASSUME NEW h \in Handlers, StatusCommit(h), AllStaff'
      PROVE  Met(clock') <=> status' \in ResolvedStatuses
  <2> DEFINE e == [by |-> "staff", from |-> handler[h].from, to |-> handler[h].to]
  <2>1. e \in StatusEvent
    BY DEF IInv, TypeOK, Handler, StatusEvent, Actor
  <2>2. AllStaff
    BY <1>1, <2>1, AppendedLog DEF StatusCommit, IInv
  <2>3. Met(clock) <=> status \in ResolvedStatuses
    BY <2>2 DEF StaffDrivesResolution
  <2>4. PICK t \in Since(handler[h].at) :
           clock' = [clock EXCEPT !["RESOLUTION"] =
                       ResolutionAfter(@, handler[h].from, handler[h].to, t)]
    BY <1>1 DEF StatusCommit
  <2>5. /\ status = handler[h].from
        /\ status' = handler[h].to
        /\ status \in Status /\ handler[h].to \in Status
        /\ clock["RESOLUTION"] \in Clock
    BY <1>1 DEF StatusCommit, StillInStatus, IInv, TypeOK, Handler, Target
  <2>6. clock'["RESOLUTION"] =
           ResolutionAfter(clock["RESOLUTION"], status, status', t)
    BY <2>4, <2>5 DEF IInv, TypeOK, Target
  <2>7. CASE status' \in ResolvedStatuses
    BY <2>5, <2>6, <2>7 DEF ResolutionAfter, Clock
  <2>8. CASE status' \notin ResolvedStatuses /\ status \in ResolvedStatuses
    <3>1. status' \in ReopenStatuses
      BY <2>5, <2>8 DEF Status, ResolvedStatuses, ReopenStatuses
    <3> QED
      BY <2>6, <2>8, <3>1 DEF ResolutionAfter
  <2>9. CASE status' \notin ResolvedStatuses /\ status \notin ResolvedStatuses
    BY <2>3, <2>6, <2>9 DEF ResolutionAfter
  <2> QED
    BY <2>7, <2>8, <2>9
<1>2. ASSUME NEW h \in Handlers, PatchCommit(h)
      PROVE  ~AllStaff'
  <2> DEFINE e == [by |-> "customer", from |-> handler[h].from, to |-> handler[h].to]
  <2>1. e \in StatusEvent
    BY DEF IInv, TypeOK, Handler, StatusEvent, Actor
  <2>2. /\ Len(statusLog) \in Nat
        /\ Len(statusLog') = Len(statusLog) + 1
        /\ statusLog'[Len(statusLog) + 1] = e
    BY <1>2, <2>1, AppendedLog DEF PatchCommit, IInv
  <2>3. /\ Len(statusLog) + 1 \in 1..Len(statusLog')
        /\ statusLog'[Len(statusLog) + 1].by # "staff"
    BY <2>2
  <2> QED
    BY <2>3
<1>3. ASSUME NEW h \in Handlers, MarkFirstResponse(h)
      PROVE  StaffDrivesResolution'
  <2>1. clock'["RESOLUTION"] = clock["RESOLUTION"]
    BY <1>3, MarkedClock DEF IInv, TypeOK, Target
  <2>2. UNCHANGED <<status, statusLog>>
    BY <1>3 DEF MarkFirstResponse, timeline
  <2> QED
    BY <2>1, <2>2 DEF StaffDrivesResolution
<1>4. ASSUME NEW s \in Scanners, ScanCommit(s)
      PROVE  StaffDrivesResolution'
  <2>1. /\ clock[scanner[s].target].state = SeenState(s)
        /\ SeenState(s) \in RunningState
        /\ Wanted(s) \in {"AT_RISK", "BREACHED"}
        /\ clock' = [clock EXCEPT ![scanner[s].target].state = Wanted(s)]
    BY <1>4, WantedType DEF ScanCommit, StillInState, IInv
  <2>2. Met(clock') <=> Met(clock)
    BY <2>1 DEF RunningState, IInv, TypeOK, Clock, Target
  <2>3. UNCHANGED <<status, statusLog>>
    BY <1>4 DEF ScanCommit
  <2> QED
    BY <2>2, <2>3 DEF StaffDrivesResolution
<1>5. CASE UNCHANGED <<status, statusLog, clock>>
  BY <1>5 DEF StaffDrivesResolution
<1>6. \/ UNCHANGED <<status, statusLog, clock>>
      \/ \E h \in Handlers :
           StatusCommit(h) \/ PatchCommit(h) \/ MarkFirstResponse(h)
      \/ \E s \in Scanners : ScanCommit(s)
  BY DEF Next, vars, HandlerStep, StatusRead, StatusConflict, PatchRead,
         MessageRead, MessageCommit, MarkFails, TrashRead,
         TrashCommit, RestoreRead, RestoreCommit, Announce, Abort, ScannerStep,
         ScanStart, ScanRead, ScanSkip, ScanLost, ScanCommitFails,
         ScanNotify, ScanNotifyFails, ScanAbort, Tick, ticket, timeline
<1> QED
  BY <1>1, <1>2, <1>3, <1>4, <1>5, <1>6 DEF StaffDrivesResolution

(* As long as only staff have moved the ticket, its resolution clock is    *)
(* met exactly while the ticket is resolved or closed.                     *)
THEOREM StaffDrivesTheorem == Spec => []StaffDrivesResolution
<1>1. Init => StaffDrivesResolution
  BY DEF Init, StaffDrivesResolution, StartedClock, Target, ResolvedStatuses
<1> QED
  BY <1>1, StaffDrivesStep, Invariance, PTL DEF Spec

--------------------------------------------------------------------------------
(* What the requests and scans in flight still have to announce *)

\* Each step writes a part of the timeline, answers, or writes none of them.
LEMMA Writes ==
    ASSUME [Next]_vars
    PROVE  \/ UNCHANGED <<clock, statusLog, slaLog, messages>>
           \/ \E h \in Handlers :
                StatusCommit(h) \/ PatchCommit(h) \/ MessageCommit(h) \/ MarkFirstResponse(h)
           \/ \E s \in Scanners : ScanCommit(s)
BY DEF Next, vars, HandlerStep, StatusRead, StatusConflict, PatchRead,
       MessageRead, MarkFails, TrashRead, TrashCommit, RestoreRead, RestoreCommit,
       Announce, Abort, ScannerStep, ScanStart, ScanRead, ScanSkip, ScanLost,
       ScanCommitFails, ScanNotify, ScanNotifyFails, ScanAbort, Tick, ticket, timeline

(* A request about to answer the first response, or to announce its event, *)
(* has written the reply or the event; so has a scan.                      *)
Replied == \E i \in 1..Len(messages) : messages[i] = "staffReply"

Earned(r) ==
    /\ r.pc = "mark" => r.op = "staffReply" /\ Replied
    /\ r.pc = "announce" /\ r.op = "status" =>
         r.event \in 1..Len(statusLog) /\ statusLog[r.event].by = "staff"

Told(r) ==
    r.pc = "notify" => /\ r.event \in 1..Len(slaLog)
                       /\ slaLog[r.event].target = r.target
                       /\ slaLog[r.event].to = r.level

JobInv ==
    /\ \A h \in Handlers : Earned(handler[h])
    /\ \A s \in Scanners : Told(scanner[s])
    /\ FirstResponseNeedsStaffReply
    /\ JobsHaveEvents

\* A log to which an event is appended keeps the events it has.
LEMMA OneMore ==
    ASSUME NEW S, NEW log \in Seq(S), NEW e \in S
    PROVE  /\ Len(log) \in Nat /\ Len(Append(log, e)) = Len(log) + 1
           /\ \A i \in 1..Len(log) : Append(log, e)[i] = log[i]
           /\ Append(log, e)[Len(log) + 1] = e
BY AppendProperties, LenProperties

\* The logs only grow.
LEMMA LogsGrow ==
    ASSUME TypeOK, [Next]_vars
    PROVE  /\ Len(statusLog) \in Nat /\ Len(statusLog') \in Nat
           /\ Len(statusLog) <= Len(statusLog')
           /\ \A i \in 1..Len(statusLog) : statusLog'[i] = statusLog[i]
           /\ Len(slaLog) \in Nat /\ Len(slaLog') \in Nat
           /\ Len(slaLog) <= Len(slaLog')
           /\ \A i \in 1..Len(slaLog) : slaLog'[i] = slaLog[i]
           /\ Replied => Replied'
<1>1. /\ statusLog \in Seq(StatusEvent) /\ slaLog \in Seq(SlaEvent)
      /\ messages \in Seq(MessageOps)
  BY DEF TypeOK
<1>2. /\ Len(statusLog) \in Nat /\ Len(slaLog) \in Nat /\ Len(messages) \in Nat
  BY <1>1, LenProperties
<1>3. ASSUME NEW h \in Handlers, StatusCommit(h) \/ PatchCommit(h)
      PROVE  \E e \in StatusEvent : statusLog' = Append(statusLog, e)
  <2>1. CASE StatusCommit(h)
    <3>1. [by |-> "staff", from |-> handler[h].from, to |-> handler[h].to] \in StatusEvent
      BY DEF TypeOK, Handler, StatusEvent, Actor
    <3> QED
      BY <2>1, <3>1 DEF StatusCommit
  <2>2. CASE PatchCommit(h)
    <3>1. [by |-> "customer", from |-> handler[h].from, to |-> handler[h].to] \in StatusEvent
      BY DEF TypeOK, Handler, StatusEvent, Actor
    <3> QED
      BY <2>2, <3>1 DEF PatchCommit
  <2> QED
    BY <1>3, <2>1, <2>2
<1>4. ASSUME NEW s \in Scanners, ScanCommit(s)
      PROVE  slaLog' = Append(slaLog, EscalationEvent(s)) /\ EscalationEvent(s) \in SlaEvent
  <2>1. /\ scanner[s].target \in Target /\ SeenState(s) \in SlaState
        /\ Wanted(s) \in SlaState /\ scanner[s].seen[scanner[s].target].due \in Time
    BY WantedType
  <2> QED
    BY <1>2, <1>4, <2>1 DEF ScanCommit, EscalationEvent, SlaEvent
<1>5. \/ UNCHANGED statusLog
      \/ \E e \in StatusEvent : statusLog' = Append(statusLog, e)
  BY <1>3, Writes DEF MessageCommit, MarkFirstResponse, ScanCommit, timeline
<1>6. \/ UNCHANGED slaLog
      \/ \E e \in SlaEvent : slaLog' = Append(slaLog, e)
  BY <1>4, Writes DEF StatusCommit, PatchCommit, MessageCommit, MarkFirstResponse, timeline
<1>7. \/ UNCHANGED messages
      \/ \E m \in MessageOps : messages' = Append(messages, m)
  BY Writes DEF StatusCommit, PatchCommit, MessageCommit, MarkFirstResponse, ScanCommit,
                timeline
<1>8. Replied => Replied'
  <2>1. CASE UNCHANGED messages
    BY <2>1 DEF Replied
  <2>2. ASSUME NEW m \in MessageOps, messages' = Append(messages, m), Replied
        PROVE  Replied'
    <3>1. PICK i \in 1..Len(messages) : messages[i] = "staffReply"
      BY <2>2 DEF Replied
    <3>2. messages'[i] = "staffReply" /\ i \in 1..Len(messages')
      BY <1>1, <1>2, <2>2, <3>1, OneMore
    <3> QED
      BY <3>2 DEF Replied
  <2> QED
    BY <1>7, <2>1, <2>2
<1>9. /\ Len(statusLog') \in Nat /\ Len(statusLog) <= Len(statusLog')
      /\ \A i \in 1..Len(statusLog) : statusLog'[i] = statusLog[i]
  BY <1>1, <1>2, <1>5, OneMore
<1>10. /\ Len(slaLog') \in Nat /\ Len(slaLog) <= Len(slaLog')
       /\ \A i \in 1..Len(slaLog) : slaLog'[i] = slaLog[i]
  BY <1>1, <1>2, <1>6, OneMore
<1> QED
  BY <1>2, <1>8, <1>9, <1>10

\* A request that goes on has still written what it has to announce.
LEMMA EarnedStep ==
    ASSUME TypeOK, [Next]_vars, NEW h \in Handlers, Earned(handler[h])
    PROVE  Earned(handler[h])'
<1>1. handler[h] \in Handler /\ handler \in [Handlers -> Handler]
  BY DEF TypeOK
<1>2. ASSUME handler'[h] = handler[h]
      PROVE  Earned(handler[h])'
  BY <1>2, LogsGrow DEF Earned
<1>3. ASSUME handler'[h].pc \notin {"mark", "announce"}
      PROVE  Earned(handler[h])'
  BY <1>3 DEF Earned
<1>4. CASE StatusCommit(h)
  <2>1. /\ handler'[h] = [handler[h] EXCEPT !.pc = "announce", !.event = Len(statusLog) + 1]
        /\ statusLog' = Append(statusLog, [by |-> "staff", from |-> handler[h].from,
                                           to |-> handler[h].to])
    BY <1>1, <1>4 DEF StatusCommit, Goto
  <2>2. [by |-> "staff", from |-> handler[h].from, to |-> handler[h].to] \in StatusEvent
    BY <1>1 DEF Handler, StatusEvent, Actor
  <2> QED
    BY <1>1, <2>1, <2>2, AppendedLog DEF Earned, Handler
<1>5. CASE MessageCommit(h)
  <2>1. /\ handler'[h] = [handler[h] EXCEPT !.pc = AfterMessage(handler[h].op),
                                            !.event = Len(messages) + 1, !.at = now]
        /\ handler[h].op \in MessageOps
        /\ messages' = Append(messages, handler[h].op)
    BY <1>1, <1>5 DEF MessageCommit
  <2>2. /\ handler'[h].pc = AfterMessage(handler[h].op)
        /\ handler'[h].op = handler[h].op
    BY <1>1, <2>1 DEF Handler
  <2>3. handler[h].op = "staffReply" => Replied'
    <3>1. /\ Len(messages) + 1 \in 1..Len(messages')
          /\ messages'[Len(messages) + 1] = handler[h].op
      BY <2>1, AppendProperties, LenProperties DEF TypeOK
    <3> QED
      BY <3>1 DEF Replied
  <2> QED
    BY <2>1, <2>2, <2>3 DEF Earned, AfterMessage, MessageOps
<1>6. CASE MarkFirstResponse(h) \/ MarkFails(h)
  <2>1. handler'[h].pc = "announce" /\ handler'[h].op = handler[h].op
    BY <1>1, <1>6 DEF MarkFirstResponse, MarkFails, Goto, Handler
  <2>2. handler[h].pc = "mark"
    BY <1>6 DEF MarkFirstResponse, MarkFails
  <2> QED
    BY <2>1, <2>2 DEF Earned
<1>7. CASE HandlerStep(h) /\ ~StatusCommit(h) /\ ~MessageCommit(h)
           /\ ~MarkFirstResponse(h) /\ ~MarkFails(h)
  <2>1. handler'[h].pc \notin {"mark", "announce"}
    BY <1>1, <1>7 DEF HandlerStep, StatusRead, StatusConflict, PatchRead, PatchCommit,
           MessageRead, TrashRead, TrashCommit, RestoreRead, RestoreCommit, Announce,
           Abort, Start, Finish, Idle
  <2> QED
    BY <1>3, <2>1
<1>8. CASE \/ \E g \in Handlers \ {h} : HandlerStep(g)
           \/ \E s \in Scanners : ScannerStep(s)
           \/ Tick \/ UNCHANGED vars
  <2>1. handler'[h] = handler[h]
    BY <1>1, <1>8 DEF HandlerStep, StatusRead, StatusCommit, StatusConflict, PatchRead,
           PatchCommit, MessageRead, MessageCommit, MarkFirstResponse, MarkFails,
           TrashRead, TrashCommit, RestoreRead, RestoreCommit, Announce, Abort,
           Start, Goto, Finish, ScannerStep, ScanStart, ScanRead, ScanSkip, ScanCommit,
           ScanLost, ScanCommitFails, ScanNotify, ScanNotifyFails, ScanAbort, Tick, vars
  <2> QED
    BY <1>2, <2>1
<1> QED
  BY <1>4, <1>5, <1>6, <1>7, <1>8 DEF Next

\* So does a scan.
LEMMA ToldStep ==
    ASSUME TypeOK, [Next]_vars, NEW s \in Scanners, Told(scanner[s])
    PROVE  Told(scanner[s])'
<1>1. scanner[s] \in Scanner /\ scanner \in [Scanners -> Scanner]
  BY DEF TypeOK
<1>2. CASE ScanCommit(s)
  <2>1. scanner'[s] = [scanner[s] EXCEPT !.pc = "notify", !.level = Wanted(s),
                                         !.event = Len(slaLog) + 1]
    BY <1>1, <1>2 DEF ScanCommit
  <2>2. /\ scanner'[s].target = scanner[s].target /\ scanner'[s].level = Wanted(s)
        /\ scanner'[s].event = Len(slaLog) + 1
    BY <1>1, <2>1 DEF Scanner
  <2>3. EscalationEvent(s) \in SlaEvent
    <3>1. /\ scanner[s].target \in Target /\ SeenState(s) \in SlaState
          /\ Wanted(s) \in SlaState /\ scanner[s].seen[scanner[s].target].due \in Time
      BY WantedType
    <3>2. Len(statusLog) \in Nat
      BY LenProperties DEF TypeOK
    <3> QED
      BY <3>1, <3>2 DEF EscalationEvent, SlaEvent
  <2>4. /\ Len(slaLog) + 1 \in 1..Len(slaLog')
        /\ slaLog'[Len(slaLog) + 1] = EscalationEvent(s)
    BY <1>2, <2>3, OneMore DEF ScanCommit, TypeOK
  <2> QED
    BY <2>2, <2>4 DEF Told, EscalationEvent
<1>3. CASE scanner'[s] = scanner[s]
  BY <1>3, LogsGrow DEF Told
<1>4. scanner'[s].pc # "notify" => Told(scanner[s])'
  BY DEF Told
<1>5. CASE ScannerStep(s) /\ ~ScanCommit(s)
  <2>1. /\ Sleeping.pc = "idle"
        /\ \A pc, seen : [scanner[s] EXCEPT !.pc = pc, !.seen = seen].pc = pc
        /\ \A pc, at : [scanner[s] EXCEPT !.pc = pc, !.at = at].pc = pc
        /\ [scanner[s] EXCEPT !.pc = "evaluate", !.target = "RESOLUTION",
                               !.level = "ON_TRACK", !.event = 0].pc = "evaluate"
    BY <1>1 DEF Scanner, Sleeping
  <2>2. CASE NextTarget(s)
    <3>1. \/ scanner'[s] = [scanner[s] EXCEPT !.pc = "evaluate", !.target = "RESOLUTION",
                                               !.level = "ON_TRACK", !.event = 0]
          \/ scanner'[s] = Sleeping
      BY <1>1, <2>2 DEF NextTarget
    <3> QED
      BY <1>4, <2>1, <3>1
  <2>3. CASE ScanStart(s)
    <3>1. scanner'[s] = [scanner[s] EXCEPT !.pc = "read", !.at = now]
      BY <1>1, <2>3 DEF ScanStart
    <3> QED
      BY <1>4, <2>1, <3>1
  <2>4. CASE ScanRead(s) \/ ScanAbort(s)
    <3>1. \/ \E seen : scanner'[s] = [scanner[s] EXCEPT !.pc = "evaluate", !.seen = seen]
          \/ scanner'[s] = Sleeping
      BY <1>1, <2>4 DEF ScanRead, ScanAbort
    <3>2. ASSUME NEW seen,
                 scanner'[s] = [scanner[s] EXCEPT !.pc = "evaluate", !.seen = seen]
          PROVE  scanner'[s].pc = "evaluate"
      BY <2>1, <3>2
    <3>3. scanner'[s].pc # "notify"
      BY <2>1, <3>1, <3>2
    <3> QED
      BY <1>4, <3>3
  <2> QED
    BY <1>5, <2>2, <2>3, <2>4 DEF ScannerStep, ScanSkip, ScanLost, ScanCommitFails, ScanNotify,
                            ScanNotifyFails
<1>6. CASE \/ \E r \in Scanners \ {s} : ScannerStep(r)
           \/ \E h \in Handlers : HandlerStep(h)
           \/ Tick \/ UNCHANGED vars
  <2>1. scanner'[s] = scanner[s]
    BY <1>1, <1>6 DEF HandlerStep, StatusRead, StatusCommit, StatusConflict, PatchRead,
           PatchCommit, MessageRead, MessageCommit, MarkFirstResponse, MarkFails,
           TrashRead, TrashCommit, RestoreRead, RestoreCommit, Announce, Abort,
           ScannerStep, ScanStart, ScanRead, ScanSkip, ScanCommit, ScanLost,
           ScanCommitFails, ScanNotify, ScanNotifyFails, ScanAbort, NextTarget, Tick, vars
  <2> QED
    BY <1>3, <2>1
<1> QED
  BY <1>2, <1>5, <1>6 DEF Next

\* The first response is stamped by a request that has written its reply.
LEMMA ReplyStep ==
    ASSUME TypeOK, JobInv, [Next]_vars
    PROVE  FirstResponseNeedsStaffReply'
<1> SUFFICES ASSUME clock'["FIRST_RESPONSE"].stopped # NoTime
             PROVE  Replied'
  BY DEF FirstResponseNeedsStaffReply, Replied
<1>1. CASE clock["FIRST_RESPONSE"].stopped # NoTime
  BY <1>1, LogsGrow DEF JobInv, FirstResponseNeedsStaffReply, Replied
<1>2. CASE clock'["FIRST_RESPONSE"].stopped # clock["FIRST_RESPONSE"].stopped
  <2>1. ASSUME NEW h \in Handlers, StatusCommit(h)
        PROVE  FALSE
    BY <1>2, <2>1 DEF StatusCommit, TypeOK
  <2>2. ASSUME NEW s \in Scanners, ScanCommit(s)
        PROVE  FALSE
    BY <1>2, <2>2 DEF ScanCommit, TypeOK, Clock
  <2>3. PICK h \in Handlers : MarkFirstResponse(h)
    BY <1>2, <2>1, <2>2, Writes DEF PatchCommit, MessageCommit, ticket
  <2>4. Replied
    BY <2>3 DEF MarkFirstResponse, JobInv, Earned
  <2> QED
    BY <2>4, LogsGrow
<1> QED
  BY <1>1, <1>2

\* A job is added for an event that was written, and once per target and level.
LEMMA JobsStep ==
    ASSUME TypeOK, JobInv, [Next]_vars
    PROVE  JobsHaveEvents'
<1>1. ASSUME NEW j \in jobs', j.type = "STATUS_CHANGED"
      PROVE  j.id \in 1..Len(statusLog') /\ statusLog'[j.id].by = "staff"
  <2>1. j.id \in 1..Len(statusLog) /\ statusLog[j.id].by = "staff"
    <3>1. CASE j \in jobs
      BY <1>1, <3>1 DEF JobInv, JobsHaveEvents
    <3>2. ASSUME NEW h \in Handlers, Announce(h), j = JobOf(h)
          PROVE  j.id \in 1..Len(statusLog) /\ statusLog[j.id].by = "staff"
      BY <1>1, <3>2 DEF Announce, JobOf, JobInv, Earned
    <3>3. UNCHANGED jobs \/ \E h \in Handlers : Announce(h)
      BY DEF Next, vars, HandlerStep, StatusRead, StatusCommit, StatusConflict, PatchRead,
           PatchCommit, MessageRead, MessageCommit, MarkFirstResponse, MarkFails,
           TrashRead, TrashCommit, RestoreRead, RestoreCommit, Abort,
           ScannerStep, ScanStart, ScanRead, ScanSkip, ScanCommit, ScanLost,
           ScanCommitFails, ScanNotify, ScanNotifyFails, ScanAbort, Tick, queue
    <3> QED
      BY <3>1, <3>2, <3>3 DEF Announce
  <2> QED
    BY <2>1, LogsGrow
<1>2. \/ UNCHANGED slaJobs
      \/ \E s \in Scanners : ScanNotify(s)
  BY DEF Next, vars, HandlerStep, StatusRead, StatusCommit, StatusConflict, PatchRead,
       PatchCommit, MessageRead, MessageCommit, MarkFirstResponse, MarkFails,
       TrashRead, TrashCommit, RestoreRead, RestoreCommit, Announce, Abort,
       ScannerStep, ScanStart, ScanRead, ScanSkip, ScanCommit, ScanLost,
       ScanCommitFails, ScanNotifyFails, ScanAbort, Tick, queue
<1> DEFINE Right(j) == /\ j.event \in 1..Len(slaLog)
                       /\ slaLog[j.event].target = j.target
                       /\ slaLog[j.event].to = j.level
<1>3. /\ \A j \in slaJobs' : Right(j)
      /\ \A j, k \in slaJobs' : j.target = k.target /\ j.level = k.level => j = k
  <2>1. /\ \A j \in slaJobs : Right(j)
        /\ \A j, k \in slaJobs : j.target = k.target /\ j.level = k.level => j = k
    BY DEF JobInv, JobsHaveEvents
  <2>2. ASSUME NEW s \in Scanners, ScanNotify(s), ~SlaJobKnown(s)
        PROVE  /\ \A j \in slaJobs' : Right(j)
               /\ \A j, k \in slaJobs' : j.target = k.target /\ j.level = k.level => j = k
    <3> DEFINE new == [target |-> scanner[s].target, level |-> scanner[s].level,
                       event  |-> scanner[s].event]
    <3>1. slaJobs' = slaJobs \cup {new}
      BY <2>2 DEF ScanNotify
    <3>2. Right(new)
      BY <2>2 DEF ScanNotify, JobInv, Told
    <3>3. \A j \in slaJobs : ~(j.target = new.target /\ j.level = new.level)
      BY <2>2 DEF SlaJobKnown
    <3> HIDE DEF Right, new
    <3> QED
      BY <2>1, <3>1, <3>2, <3>3
  <2> HIDE DEF Right
  <2>3. CASE UNCHANGED slaJobs
    BY <2>1, <2>3
  <2> QED
    BY <1>2, <2>2, <2>3 DEF ScanNotify
<1>4. \A j \in slaJobs' : Right(j)'
  BY <1>3, LogsGrow
<1> QED
  BY <1>1, <1>3, <1>4 DEF JobsHaveEvents

\* So requests and scans in flight have always written what they will announce.
LEMMA JobInvariance == Spec => []JobInv
<1>1. Init => JobInv
  <2> SUFFICES ASSUME Init PROVE JobInv
    OBVIOUS
  <2>1. \A h \in Handlers : Earned(handler[h])
    BY DEF Init, Earned, Idle
  <2>2. \A s \in Scanners : Told(scanner[s])
    BY DEF Init, Told, Sleeping
  <2>3. FirstResponseNeedsStaffReply
    BY DEF Init, FirstResponseNeedsStaffReply, StartedClock, Target
  <2>4. JobsHaveEvents
    BY DEF Init, JobsHaveEvents
  <2> QED
    BY <2>1, <2>2, <2>3, <2>4 DEF JobInv
<1>2. TypeOK /\ JobInv /\ [Next]_vars => JobInv'
  <2> SUFFICES ASSUME TypeOK, JobInv, [Next]_vars PROVE JobInv'
    OBVIOUS
  <2>1. \A h \in Handlers : Earned(handler[h])'
    BY EarnedStep DEF JobInv
  <2>2. \A s \in Scanners : Told(scanner[s])'
    BY ToldStep DEF JobInv
  <2> QED
    BY <2>1, <2>2, ReplyStep, JobsStep DEF JobInv
<1> QED
  BY <1>1, <1>2, TypeCorrect, PTL DEF Spec

(* Only a public reply by staff answers the first response: whoever stamps *)
(* the row has written such a reply before (createPublicReply).            *)
THEOREM ReplyTheorem == Spec => []FirstResponseNeedsStaffReply
BY JobInvariance, PTL DEF JobInv

(* A notification job tells of something that was committed, and no target *)
(* and level of the SLA clocks has two, however requests lose their races  *)
(* and scans overlap.                                                      *)
THEOREM JobsTheorem == Spec => []JobsHaveEvents
BY JobInvariance, PTL DEF JobInv

--------------------------------------------------------------------------------
(* The record of the escalations.  Between two reopenings a target climbs   *)
(* and the timeline keeps every level it reached, so no event of the        *)
(* present epoch, the one since the last reopening by staff, is above the   *)
(* state its clock is in.  A met clock says nothing: it is met from any     *)
(* level, and only a reopening takes the resolution clock out of MET.       *)

InEpoch(i) ==
    slaLog[i].target = "RESOLUTION" =>
        \A k \in (slaLog[i].after + 1)..Len(statusLog) : ~IsReopening(k)

Recorded ==
    \A i \in 1..Len(slaLog) :
        /\ slaLog[i].after <= Len(statusLog)
        /\ InEpoch(i) /\ clock[slaLog[i].target].state # "MET" =>
             Level(slaLog[i].to) <= Level(clock[slaLog[i].target].state)

EscalationInv == Recorded /\ EscalatesOnce /\ EscalationIsOnRecord

\* The events of a typed log are typed.
LEMMA SlaEvents ==
    ASSUME TypeOK, NEW i \in 1..Len(slaLog)
    PROVE  slaLog[i] \in SlaEvent /\ slaLog[i].target \in Target /\ slaLog[i].after \in Nat
<1>1. slaLog[i] \in SlaEvent
  BY ElementOfSeq DEF TypeOK
<1> QED
  BY <1>1 DEF SlaEvent

\* The levels are ranked, and a scan asks for a higher one than it saw.
LEMMA Climbs ==
    ASSUME TypeOK, NEW s \in Scanners, Wanted(s) # SeenState(s)
    PROVE  /\ \A x : Level(x) \in Nat
           /\ SeenState(s) # "MET" /\ Wanted(s) # "MET"
           /\ Level(Wanted(s)) > Level(SeenState(s))
BY WantedType DEF Level, RunningState

\* A step that writes no event and at most meets a clock.
LEMMA EscalationQuiet ==
    ASSUME EscalationInv, UNCHANGED <<statusLog, slaLog>>, TypeOK,
           \A t \in Target : clock'[t].state = clock[t].state \/ clock'[t].state = "MET"
    PROVE  EscalationInv'
<1>1. \A i \in 1..Len(slaLog) : slaLog[i].target \in Target
  BY SlaEvents
<1>2. Recorded'
  BY <1>1 DEF EscalationInv, Recorded, InEpoch, IsReopening
<1>3. EscalatesOnce'
  BY DEF EscalationInv, EscalatesOnce, IsReopening
<1>4. EscalationIsOnRecord'
  BY DEF EscalationInv, EscalationIsOnRecord, IsReopening
<1> QED
  BY <1>2, <1>3, <1>4 DEF EscalationInv

(* A step that writes a status event.  It leaves a clock as it is and is no *)
(* reopening by staff, it meets the clock, or it reopens and starts anew.   *)
LEMMA EscalationStatus ==
    ASSUME TypeOK, EscalationInv, UNCHANGED slaLog,
           NEW n \in Nat, Len(statusLog) = n, Len(statusLog') = n + 1,
           \A k \in 1..n : statusLog'[k] = statusLog[k],
           clock'["FIRST_RESPONSE"] = clock["FIRST_RESPONSE"],
           \/ /\ clock'["RESOLUTION"] = clock["RESOLUTION"]
              /\ ~IsReopening(n + 1)'
           \/ clock'["RESOLUTION"].state = "MET"
           \/ /\ clock'["RESOLUTION"].state = "ON_TRACK"
              /\ IsReopening(n + 1)'
    PROVE  EscalationInv'
<1>1. \A i \in 1..Len(slaLog) : slaLog[i].target \in Target /\ slaLog[i].after \in 0..n
  BY SlaEvents DEF EscalationInv, Recorded
<1>2. \A k \in 1..n : IsReopening(k)' <=> IsReopening(k)
  BY DEF IsReopening
<1>3. Recorded'
  <2> SUFFICES ASSUME NEW i \in 1..Len(slaLog), InEpoch(i)',
                      clock'[slaLog[i].target].state # "MET"
               PROVE  Level(slaLog[i].to) <= Level(clock'[slaLog[i].target].state)
    BY <1>1 DEF Recorded
  <2>1. InEpoch(i)
    BY <1>1, <1>2 DEF InEpoch
  <2>2. clock'[slaLog[i].target] = clock[slaLog[i].target]
    <3>1. CASE slaLog[i].target = "RESOLUTION"
      <4>1. ~IsReopening(n + 1)'
        BY <1>1, <3>1 DEF InEpoch
      <4> QED
        BY <3>1, <4>1
    <3> QED
      BY <1>1, <3>1 DEF Target
  <2> QED
    BY <2>1, <2>2 DEF EscalationInv, Recorded
<1>4. EscalatesOnce'
  <2> SUFFICES ASSUME NEW i \in 1..Len(slaLog), NEW j \in 1..Len(slaLog),
                      i < j, slaLog[i].target = slaLog[j].target,
                      Level(slaLog[i].to) >= Level(slaLog[j].to)
               PROVE  /\ slaLog[i].target = "RESOLUTION"
                      /\ \E k \in (slaLog[i].after + 1)..slaLog[j].after : IsReopening(k)'
    BY DEF EscalatesOnce
  <2>1. PICK k \in (slaLog[i].after + 1)..slaLog[j].after :
          slaLog[i].target = "RESOLUTION" /\ IsReopening(k)
    BY DEF EscalationInv, EscalatesOnce
  <2>2. k \in 1..n
    BY <1>1, <2>1
  <2> QED
    BY <1>2, <2>1, <2>2
<1>5. EscalationIsOnRecord'
  <2> SUFFICES ASSUME NEW t \in Target, clock'[t].state \in {"AT_RISK", "BREACHED"}
               PROVE  \E i \in 1..Len(slaLog) :
                        /\ slaLog[i].target = t
                        /\ slaLog[i].to = clock'[t].state
                        /\ t = "RESOLUTION" =>
                             \A k \in (slaLog[i].after + 1)..Len(statusLog') : ~IsReopening(k)'
    BY DEF EscalationIsOnRecord
  <2>1. /\ clock'[t] = clock[t]
        /\ t = "RESOLUTION" => ~IsReopening(n + 1)'
    BY DEF Target
  <2>2. PICK i \in 1..Len(slaLog) :
               /\ slaLog[i].target = t
               /\ slaLog[i].to = clock[t].state
               /\ t = "RESOLUTION" =>
                    \A k \in (slaLog[i].after + 1)..n : ~IsReopening(k)
    BY <2>1 DEF EscalationInv, EscalationIsOnRecord
  <2>3. ASSUME t = "RESOLUTION", NEW k \in (slaLog[i].after + 1)..Len(statusLog')
        PROVE  ~IsReopening(k)'
    <3>1. k \in 1..n \/ k = n + 1
      BY <1>1, <2>3
    <3>2. CASE k \in 1..n
      BY <1>2, <2>2, <2>3, <3>2
    <3> QED
      BY <2>1, <2>3, <3>1, <3>2
  <2> QED
    BY <2>1, <2>2, <2>3
<1> QED
  BY <1>3, <1>4, <1>5 DEF EscalationInv

(* A scan's commit.  The level it records is above the state it saw, which *)
(* is the state the clock still has: an earlier event of that level or a   *)
(* higher one is not of the present epoch.                                 *)
LEMMA EscalationScan ==
    ASSUME TypeOK, EscalationInv, NEW s \in Scanners, ScanCommit(s)
    PROVE  EscalationInv'
<1> DEFINE target == scanner[s].target
           e == EscalationEvent(s)
           m == Len(slaLog)
<1>1. /\ UNCHANGED statusLog
      /\ Wanted(s) # SeenState(s)
      /\ clock[target].state = SeenState(s)
      /\ clock' = [clock EXCEPT ![target].state = Wanted(s)]
      /\ slaLog' = Append(slaLog, e)
  BY DEF ScanCommit, StillInState
<1>2. /\ target \in Target
      /\ Wanted(s) \in SlaState /\ SeenState(s) \in SlaState
      /\ scanner[s].seen[target].due \in Time
      /\ Len(statusLog) \in Nat
  BY WantedType, LenProperties DEF TypeOK
<1>3. /\ e \in SlaEvent
      /\ e.target = target /\ e.to = Wanted(s) /\ e.after = Len(statusLog)
  BY <1>2 DEF EscalationEvent, SlaEvent
<1>4. /\ m \in Nat /\ Len(slaLog') = m + 1
      /\ \A i \in 1..m : slaLog'[i] = slaLog[i]
      /\ slaLog'[m + 1] = e
  BY <1>1, <1>3, OneMore DEF TypeOK
<1>5. /\ \A x : Level(x) \in Nat
      /\ clock[target].state # "MET" /\ Wanted(s) # "MET"
      /\ Level(Wanted(s)) > Level(clock[target].state)
  BY <1>1, Climbs
<1>6. /\ clock'[target].state = Wanted(s)
      /\ \A t \in Target \ {target} : clock'[t] = clock[t]
  BY <1>1, <1>2 DEF TypeOK, Clock
<1>7. \A i \in 1..m : /\ slaLog[i].target \in Target
                      /\ slaLog[i].after \in 0..Len(statusLog)
  BY <1>2, SlaEvents DEF EscalationInv, Recorded
<1>8. \A i \in 1..m :
        slaLog[i].target = target /\ Level(slaLog[i].to) >= Level(Wanted(s)) => ~InEpoch(i)
  BY <1>5 DEF EscalationInv, Recorded
<1> HIDE DEF e, target, m
<1>9. Recorded'
  <2> SUFFICES ASSUME NEW i \in 1..(m + 1)
               PROVE  /\ slaLog'[i].after <= Len(statusLog)
                      /\ InEpoch(i)' /\ clock'[slaLog'[i].target].state # "MET" =>
                           Level(slaLog'[i].to) <= Level(clock'[slaLog'[i].target].state)
    BY <1>1, <1>4 DEF Recorded
  <2>1. CASE i = m + 1
    BY <1>2, <1>3, <1>4, <1>5, <1>6, <2>1
  <2>2. CASE i \in 1..m
    <3>1. slaLog'[i] = slaLog[i] /\ (InEpoch(i)' <=> InEpoch(i))
      BY <1>1, <1>4, <2>2 DEF InEpoch, IsReopening
    <3>2. InEpoch(i) /\ clock[slaLog[i].target].state # "MET" =>
            Level(slaLog[i].to) <= Level(clock[slaLog[i].target].state)
      BY <2>2 DEF EscalationInv, Recorded, m
    <3>3. CASE slaLog[i].target = target
      BY <1>2, <1>5, <1>6, <1>7, <2>2, <3>1, <3>2, <3>3
    <3>4. CASE slaLog[i].target # target
      BY <1>2, <1>6, <1>7, <2>2, <3>1, <3>2, <3>4
    <3> QED
      BY <3>3, <3>4
  <2> QED
    BY <1>4, <2>1, <2>2
<1>10. EscalatesOnce'
  <2> SUFFICES ASSUME NEW i \in 1..(m + 1), NEW j \in 1..(m + 1),
                      i < j, slaLog'[i].target = slaLog'[j].target,
                      Level(slaLog'[i].to) >= Level(slaLog'[j].to)
               PROVE  /\ slaLog'[i].target = "RESOLUTION"
                      /\ \E k \in (slaLog'[i].after + 1)..slaLog'[j].after : IsReopening(k)
    BY <1>1, <1>4 DEF EscalatesOnce, IsReopening
  <2>1. i \in 1..m /\ slaLog'[i] = slaLog[i]
    BY <1>4
  <2>2. CASE j = m + 1
    <3>1. ~InEpoch(i)
      BY <1>3, <1>4, <1>8, <2>1, <2>2
    <3> QED
      BY <1>3, <1>4, <2>1, <2>2, <3>1 DEF InEpoch
  <2>3. CASE j \in 1..m
    BY <1>4, <2>1, <2>3 DEF EscalationInv, EscalatesOnce, m
  <2> QED
    BY <1>4, <2>2, <2>3
<1>11. EscalationIsOnRecord'
  <2> SUFFICES ASSUME NEW t \in Target, clock'[t].state \in {"AT_RISK", "BREACHED"}
               PROVE  \E i \in 1..(m + 1) :
                        /\ slaLog'[i].target = t
                        /\ slaLog'[i].to = clock'[t].state
                        /\ t = "RESOLUTION" =>
                             \A k \in (slaLog'[i].after + 1)..Len(statusLog) : ~IsReopening(k)
    BY <1>1, <1>4 DEF EscalationIsOnRecord, IsReopening
  <2>1. CASE t = target
    <3>1. \A k \in (Len(statusLog) + 1)..Len(statusLog) : FALSE
      BY <1>2
    <3>2. /\ slaLog'[m + 1].target = t /\ slaLog'[m + 1].to = clock'[t].state
          /\ slaLog'[m + 1].after = Len(statusLog)
          /\ m + 1 \in 1..(m + 1)
      BY <1>3, <1>4, <1>6, <2>1
    <3> QED
      BY <3>1, <3>2
  <2>2. CASE t # target
    <3>1. clock'[t] = clock[t]
      BY <1>6, <2>2
    <3>2. PICK i \in 1..m :
               /\ slaLog[i].target = t
               /\ slaLog[i].to = clock[t].state
               /\ t = "RESOLUTION" =>
                    \A k \in (slaLog[i].after + 1)..Len(statusLog) : ~IsReopening(k)
      BY <3>1 DEF EscalationInv, EscalationIsOnRecord, m
    <3>3. i \in 1..(m + 1) /\ slaLog'[i] = slaLog[i]
      BY <1>4
    <3> QED
      BY <3>1, <3>2, <3>3
  <2> QED
    BY <2>1, <2>2
<1> QED
  BY <1>9, <1>10, <1>11 DEF EscalationInv

\* Every step keeps the record: only the timeline's writers and the first response count.
LEMMA EscalationStep ==
    ASSUME IInv, EscalationInv, [Next]_vars
    PROVE  EscalationInv'
<1> USE DEF IInv
<1>0. /\ Len(statusLog) \in Nat
      /\ clock \in [Target -> Clock]
      /\ "RESOLUTION" \in Target /\ "FIRST_RESPONSE" \in Target
  BY LenProperties DEF TypeOK, Target
<1>1. ASSUME NEW h \in Handlers, StatusCommit(h)
      PROVE  EscalationInv'
  <2> DEFINE e == [by |-> "staff", from |-> handler[h].from, to |-> handler[h].to]
  <2>1. handler[h].from \in Status /\ handler[h].to \in Status /\ e \in StatusEvent
    BY DEF TypeOK, Handler, StatusEvent, Actor
  <2>2. PICK n \in Nat : n = Len(statusLog)
    BY <1>0
  <2>3. /\ Len(statusLog') = n + 1
        /\ \A k \in 1..n : statusLog'[k] = statusLog[k]
        /\ statusLog'[n + 1] = e
    BY <1>1, <2>1, <2>2, AppendedLog DEF StatusCommit
  <2>4. IsReopening(n + 1)' <=> handler[h].from \in ResolvedStatuses
                                 /\ handler[h].to \in ReopenStatuses
    BY <2>3 DEF IsReopening
  <2>5. PICK t \in Since(handler[h].at) :
               clock' = [clock EXCEPT !["RESOLUTION"] =
                           ResolutionAfter(@, handler[h].from, handler[h].to, t)]
    BY <1>1 DEF StatusCommit
  <2>6. /\ clock'["FIRST_RESPONSE"] = clock["FIRST_RESPONSE"]
        /\ clock'["RESOLUTION"] =
             ResolutionAfter(clock["RESOLUTION"], handler[h].from, handler[h].to, t)
    BY <1>0, <2>5
  <2>7. \/ clock'["RESOLUTION"] = clock["RESOLUTION"] /\ ~IsReopening(n + 1)'
        \/ clock'["RESOLUTION"].state = "MET"
        \/ clock'["RESOLUTION"].state = "ON_TRACK" /\ IsReopening(n + 1)'
    BY <1>0, <2>4, <2>6 DEF ResolutionAfter, Clock
  <2>8. UNCHANGED slaLog
    BY <1>1 DEF StatusCommit
  <2> QED
    BY <2>2, <2>3, <2>6, <2>7, <2>8, EscalationStatus
<1>2. ASSUME NEW h \in Handlers, PatchCommit(h)
      PROVE  EscalationInv'
  <2> DEFINE e == [by |-> "customer", from |-> handler[h].from, to |-> handler[h].to]
  <2>1. e \in StatusEvent
    BY DEF TypeOK, Handler, StatusEvent, Actor
  <2>2. PICK n \in Nat : n = Len(statusLog)
    BY <1>0
  <2>3. /\ Len(statusLog') = n + 1
        /\ \A k \in 1..n : statusLog'[k] = statusLog[k]
        /\ statusLog'[n + 1] = e
    BY <1>2, <2>1, <2>2, AppendedLog DEF PatchCommit
  <2>4. ~IsReopening(n + 1)'
    BY <2>3 DEF IsReopening
  <2>5. UNCHANGED <<clock, slaLog>>
    BY <1>2 DEF PatchCommit
  <2> QED
    BY <2>2, <2>3, <2>4, <2>5, EscalationStatus
<1>3. ASSUME NEW h \in Handlers, MarkFirstResponse(h)
      PROVE  EscalationInv'
  <2>1. \A t \in Target : clock'[t].state = clock[t].state \/ clock'[t].state = "MET"
    BY <1>0, <1>3, MarkedClock DEF Clock
  <2>2. UNCHANGED <<statusLog, slaLog>>
    BY <1>3 DEF MarkFirstResponse, timeline
  <2> QED
    BY <2>1, <2>2, EscalationQuiet
<1>4. ASSUME UNCHANGED <<clock, statusLog, slaLog>>
      PROVE  EscalationInv'
  BY <1>4, EscalationQuiet
<1> QED
  BY <1>1, <1>2, <1>3, <1>4, EscalationScan, Writes DEF MessageCommit, ticket

\* So the record is kept in every reachable state.
LEMMA EscalationInvariance == Spec => []EscalationInv
<1>1. Init => EscalationInv
  BY DEF Init, EscalationInv, Recorded, EscalatesOnce, EscalationIsOnRecord, StartedClock
<1> QED
  BY <1>1, EscalationStep, Invariance, PTL DEF Spec

(* Each level of a target is recorded once, however scans overlap or are   *)
(* retried; the resolution target climbs again only after a reopening by   *)
(* staff that came between the two events (commitTransition).              *)
THEOREM EscalationTheorem == Spec => []EscalatesOnce
BY EscalationInvariance, PTL DEF EscalationInv

(* An escalated clock has the event of its state in the timeline, and no   *)
(* reopening came after that event.                                        *)
THEOREM EscalationRecordTheorem == Spec => []EscalationIsOnRecord
BY EscalationInvariance, PTL DEF EscalationInv

================================================================================
