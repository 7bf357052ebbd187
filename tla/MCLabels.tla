-------------------------------- MODULE MCLabels --------------------------------
(***************************************************************************)
(* Small instances of Labels for TLC: two tags (or teams), two values of a *)
(* field, two requests in flight.                                          *)
(***************************************************************************)
EXTENDS Labels, TLC

CONSTANTS h1, h2   \* the members of Handlers

TagsTwice == h1 :> {"tags"} @@ h2 :> OpName
TeamsOnly == [h \in Handlers |-> {"teams"}]

================================================================================
