--------------------------------- MODULE MCLists ---------------------------------
(***************************************************************************)
(* Small instances of Lists for TLC: pages of one row; the narrower filter *)
(* matches the first row only.                                             *)
(***************************************************************************)
EXTENDS Lists

TwoFilters == [f \in {"any", "some"} |-> IF f = "any" THEN Rows ELSE {1}]
Pages      == [f \in {"any", "some"} |-> IF f = "any" THEN 3 ELSE 1]

================================================================================
