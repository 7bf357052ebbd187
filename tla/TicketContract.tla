---------------------------- MODULE TicketContract ----------------------------
(***************************************************************************)
(* What the API promises about a ticket's status and SLA clocks, with the  *)
(* handlers, the transactions and the scans taken away: every change is    *)
(* one step on the row as it then is.  TicketLifecycle implements it.      *)
(*                                                                         *)
(* Staff moves are promised exactly.  A customer's close or reopening is   *)
(* promised only to set the status, from whatever it is by then: the code  *)
(* checks the status a customer read and not the one it overwrites.        *)
(***************************************************************************)
EXTENDS TicketRules

VARIABLES status, clock

contractVars == <<status, clock>>

Init ==
    /\ status = "OPEN"
    /\ clock = [t \in Target |-> StartedClock(t, 0)]

\* Staff move the ticket along the matrix; the resolution clock moves with it.
StaffMoves ==
    \E to \in AllowedFrom(status), t \in Instants :
        /\ status' = to
        /\ clock' = [clock EXCEPT !["RESOLUTION"] =
                        ResolutionAfter(@, status, to, t)]

CustomerSets ==
    /\ status' \in {"OPEN", "CLOSED"}
    /\ UNCHANGED clock

\* The first response is answered, once.
Responds ==
    /\ clock["FIRST_RESPONSE"].stopped = NoTime
    /\ \E t \in Instants :
         clock' = [clock EXCEPT !["FIRST_RESPONSE"].state = "MET",
                                !["FIRST_RESPONSE"].stopped = t]
    /\ UNCHANGED status

\* A running clock climbs; a met or breached one never does.
Escalates ==
    /\ \E t \in Target :
         /\ clock[t].due # NoTime
         /\ \/ /\ clock[t].state = "ON_TRACK"
               /\ clock' = [clock EXCEPT ![t].state = "AT_RISK"]
            \/ /\ clock[t].state \in RunningState
               /\ clock' = [clock EXCEPT ![t].state = "BREACHED"]
    /\ UNCHANGED status

Next == StaffMoves \/ CustomerSets \/ Responds \/ Escalates

Spec == Init /\ [][Next]_contractVars

================================================================================
