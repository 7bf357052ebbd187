---------------------------- MODULE MCNotifications ----------------------------
(***************************************************************************)
(* A small instance of Notifications for TLC: a customer who asked, an     *)
(* agent who is assigned, and a colleague in the team, who has the bell.   *)
(***************************************************************************)
EXTENDS Notifications

CONSTANTS Customer, Agent, Colleague

TheTeam == {Agent, Colleague}
Roles == [u \in Users |-> IF u = Customer THEN "CUSTOMER" ELSE "STAFF"]
OneOfEach ==
    {[kind |-> "NOTE_ADDED", actor |-> Agent, to |-> Nobody],
     [kind |-> "REPLIED", actor |-> Customer, to |-> Nobody],
     [kind |-> "ASSIGNED", actor |-> Agent, to |-> Colleague],
     [kind |-> "STATUS_CHANGED", actor |-> Agent, to |-> Nobody]}

================================================================================
