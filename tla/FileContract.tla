----------------------------- MODULE FileContract -----------------------------
(***************************************************************************)
(* What the ticket conversation promises about uploaded files, with the    *)
(* requests, the storage and the messages taken away: a file is kept for   *)
(* its uploader until it is shared with one audience, for good.            *)
(* Conversation implements it.                                             *)
(***************************************************************************)
CONSTANT Files

VARIABLE audience   \* per file: ABSENT, UPLOADER, CUSTOMER or STAFF

Init == audience = [f \in Files |-> "ABSENT"]

Keep(f) ==
    /\ audience[f] = "ABSENT"
    /\ audience' = [audience EXCEPT ![f] = "UPLOADER"]

\* One message takes all its files, or none.
Share(files, with) ==
    /\ \A f \in files : audience[f] = "UPLOADER"
    /\ audience' = [f \in Files |-> IF f \in files THEN with ELSE audience[f]]

Next ==
    \/ \E f \in Files : Keep(f)
    \/ \E files \in SUBSET Files, with \in {"CUSTOMER", "STAFF"} : Share(files, with)

Spec == Init /\ [][Next]_audience

================================================================================
