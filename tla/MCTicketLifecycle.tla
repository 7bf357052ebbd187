--------------------------- MODULE MCTicketLifecycle ---------------------------
(***************************************************************************)
(* Small instances of TicketLifecycle for TLC.  Windows are 5 units long,  *)
(* so a clock started at 0 is at risk from 4 and due at 5; one restarted   *)
(* at 5 is due at 10, after every instant told apart.                      *)
(***************************************************************************)
EXTENDS TicketLifecycle, TLC

NoClock       == {0}
DueInstants   == {0, 5}
EarlyInstants == {0, 4, 5}

StaffOnly     == {"status"}
NoMessage     == StatusOps \cup TrashOps

Symmetry == Permutations(Handlers) \cup Permutations(Scanners)

================================================================================
