------------------------------ MODULE MCAssignment ------------------------------
(***************************************************************************)
(* Small instances of Assignment for TLC: agents on the first team, a      *)
(* manager on all, so that a transfer may clear an agent.                  *)
(***************************************************************************)
EXTENDS Assignment, TLC

CONSTANTS t1, t2   \* the members of Teams

TwoTeams      == {t1, t2}
FirstTeam     == {t1}
AgentsOnFirst == [u \in Staff |-> IF u \in Agents THEN {t1}
                                  ELSE IF u \in Managers THEN Teams ELSE {}]

AllOperations == RowOps \cup AskOps \cup Decisions \cup AdminOps
OtherTeam     == {{t2}}
NoRoster      == {}

AssignOnly    == {"assign"}

Symmetry == Permutations(Handlers) \cup Permutations(Agents)

================================================================================
