------------------------------- MODULE MCAccounts -------------------------------
(***************************************************************************)
(* A small instance of Accounts for TLC: an admin, an address that signs   *)
(* up or is created, two requests in flight of whatever kind.              *)
(***************************************************************************)
EXTENDS Accounts, TLC

AllOps == [h \in Handlers |-> AdminOps \cup {"login", "register"}]

Symmetry == Permutations(Handlers)

================================================================================
