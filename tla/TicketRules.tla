------------------------------ MODULE TicketRules ------------------------------
(***************************************************************************)
(* The vocabulary shared by every ticket module: the enums of the Prisma   *)
(* schema, the staff status matrix and the arithmetic of the SLA clocks.   *)
(* It has no state; TicketLifecycle and TicketContract are built on it.    *)
(***************************************************************************)
EXTENDS Integers

CONSTANTS
    Instants,             \* the clock readings told apart
    NoTime,               \* SQL NULL in a timestamp column
    HasPlan,              \* an active SLA plan matched when the ticket was created
    FirstResponseWindow,  \* slaPlan.firstResponseMinutes, in clock units
    ResolutionWindow      \* slaPlan.resolutionMinutes, in clock units

ASSUME RulesAssumption ==
    /\ Instants \subseteq Nat
    /\ 0 \in Instants
    /\ NoTime \notin Int
    /\ HasPlan \in BOOLEAN
    /\ FirstResponseWindow \in Nat
    /\ ResolutionWindow \in Nat

--------------------------------------------------------------------------------

\* enum TicketStatus
Status == {"OPEN", "PENDING", "RESOLVED", "CLOSED"}

\* RESOLVED_STATUSES and REOPEN_STATUSES of the SLA service
ResolvedStatuses == {"RESOLVED", "CLOSED"}
ReopenStatuses   == {"OPEN", "PENDING"}

\* ALLOWED_STAFF_STATUS_TRANSITIONS
AllowedFrom(s) ==
    CASE s = "OPEN"     -> {"PENDING", "RESOLVED", "CLOSED"}
      [] s = "PENDING"  -> {"OPEN", "RESOLVED", "CLOSED"}
      [] s = "RESOLVED" -> {"OPEN", "CLOSED"}
      [] s = "CLOSED"   -> {"OPEN"}

--------------------------------------------------------------------------------

\* enum SlaTargetState, and the states the scanner still evaluates
SlaState     == {"ON_TRACK", "AT_RISK", "MET", "BREACHED"}
RunningState == {"ON_TRACK", "AT_RISK"}

\* type SlaTarget: each ticket row carries one clock per target
Target == {"FIRST_RESPONSE", "RESOLUTION"}

Window(target) == IF target = "FIRST_RESPONSE" THEN FirstResponseWindow
                                               ELSE ResolutionWindow

Time == Nat \cup {NoTime}

(* The columns of one clock: its state, its due date, and the stamp that   *)
(* stops it (firstRespondedAt or resolvedAt).                              *)
Clock == [state : SlaState, due : Time, stopped : Time]

\* A clock started at time t: computeDueDates, or no due date without a plan.
StartedClock(target, t) ==
    [state   |-> "ON_TRACK",
     due     |-> IF HasPlan THEN t + Window(target) ELSE NoTime,
     stopped |-> NoTime]

\* Mutant: reopening forgets to reset the state.
ResolutionAfterKeepsState(clk, from, to, t) ==
    IF to \in ResolvedStatuses
    THEN [clk EXCEPT !.state = "MET", !.stopped = t]
    ELSE IF from \in ResolvedStatuses /\ to \in ReopenStatuses
    THEN [clk EXCEPT !.due = IF HasPlan THEN t + ResolutionWindow ELSE @,
                     !.stopped = NoTime]
    ELSE clk

(* What resolveStatusTransitionSla merges into a staff transition decided  *)
(* at time t: resolving stamps and meets the clock, reopening restarts it  *)
(* from the plan, any other move leaves it alone.                          *)
ResolutionAfter(clk, from, to, t) ==
    IF to \in ResolvedStatuses
    THEN [clk EXCEPT !.state = "MET", !.stopped = t]
    ELSE IF from \in ResolvedStatuses /\ to \in ReopenStatuses
    THEN [state   |-> "ON_TRACK",
          due     |-> IF HasPlan THEN t + ResolutionWindow ELSE clk.due,
          stopped |-> NoTime]
    ELSE clk

\* Mutant: a clock is breached after the due instant only.
EscalatedLate(target, state, due, t) ==
    IF due = NoTime \/ state \notin RunningState THEN state
    ELSE IF t > due THEN "BREACHED"
    ELSE IF state = "ON_TRACK" /\ HasPlan /\ 5 * (due - t) <= Window(target)
         THEN "AT_RISK"
         ELSE state

(* The state evaluateTarget wants for a clock seen in state `state' with    *)
(* due date `due' at time t: BREACHED from the due date on, AT_RISK in the  *)
(* last fifth of the window (SLA_AT_RISK_REMAINING_FRACTION = 0.2), else    *)
(* unchanged.                                                               *)
Escalated(target, state, due, t) ==
    IF due = NoTime \/ state \notin RunningState THEN state
    ELSE IF t >= due THEN "BREACHED"
    ELSE IF state = "ON_TRACK" /\ HasPlan /\ 5 * (due - t) <= Window(target)
         THEN "AT_RISK"
         ELSE state

================================================================================
