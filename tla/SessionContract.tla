---------------------------- MODULE SessionContract ----------------------------
(***************************************************************************)
(* What signing in and administration promise about sessions, with the     *)
(* tokens, their versions and the handlers taken away: who may sign in and *)
(* who is signed in somewhere.  Accounts implements it.                    *)
(***************************************************************************)
CONSTANT Users

VARIABLES
    known,     \* the users who have an account
    enabled,   \* the users who may sign in
    live       \* the users some session of whom is accepted

Init ==
    /\ known \in SUBSET Users
    /\ enabled \in SUBSET known
    /\ live = {}

SignsIn(u) ==
    /\ u \in enabled
    /\ live' = live \cup {u}
    /\ UNCHANGED <<known, enabled>>

\* All sessions of u end at once; a role change and a revocation do this.
Ends(u) ==
    /\ live' = live \ {u}
    /\ UNCHANGED <<known, enabled>>

Disables(u) ==
    /\ enabled' = enabled \ {u}
    /\ live' = live \ {u}
    /\ UNCHANGED known

\* Nobody is signed in by being enabled: an old session does not come back.
Enables(u) ==
    /\ u \in known
    /\ enabled' = enabled \cup {u}
    /\ UNCHANGED <<known, live>>

\* An account is made once: by an admin, or by who signs up and is signed in.
Joins(u) ==
    /\ u \notin known
    /\ known' = known \cup {u}
    /\ enabled' = enabled \cup {u}
    /\ live' \in {live, live \cup {u}}

Next == \E u \in Users :
    SignsIn(u) \/ Ends(u) \/ Disables(u) \/ Enables(u) \/ Joins(u)

Spec == Init /\ [][Next]_<<known, enabled, live>>

================================================================================
