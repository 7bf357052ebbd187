-------------------------------- MODULE Labels --------------------------------
(***************************************************************************)
(* What is replaced as a whole: the tags of a ticket, the teams of a user, *)
(* and the fields of a ticket that take one value (priority, category).    *)
(*                                                                         *)
(* Tags and teams are rows (a link each) with a unique key, replaced by a  *)
(* transaction of a DELETE and an INSERT at READ COMMITTED.  A statement   *)
(* sees the rows committed when it starts; it waits for a row another open *)
(* transaction deleted or inserted, skips one that is gone when the wait   *)
(* ends, and fails on one that is there.  What an open transaction deleted *)
(* and inserted is kept in the record of its request.                      *)
(***************************************************************************)
EXTENDS Integers, FiniteSets

CONSTANTS
    Links,        \* tags, or teams
    Values,       \* of a field
    Handlers,     \* HTTP requests in flight at the same time
    Operations    \* the requests each of them may carry

OpName == {"tags", "teams", "field"}

ASSUME LabelsAssumption == Operations \in [Handlers -> SUBSET OpName] /\ Values # {}

VARIABLES
    linked,    \* the committed ticket_tags and team_members rows
    field,     \* the field of the ticket
    told,      \* its last event
    request    \* the requests in flight

vars == <<linked, field, told, request>>

--------------------------------------------------------------------------------
(* Types *)

SomeValue == CHOOSE v \in Values : TRUE

(* `seen' are the rows read, `removed' and `added' the WHERE of the DELETE *)
(* and the VALUES of the INSERT; `todo' are the rows the running DELETE    *)
(* has still to lock; `deleted' and `inserted' are the rows the open       *)
(* transaction changed.                                                    *)
Request == [op : OpName \cup {"none"},
            pc : {"idle", "read", "delete", "lock", "insert", "write", "answer"},
            wanted : SUBSET Links, seen : SUBSET Links,
            removed : SUBSET Links, added : SUBSET Links, todo : SUBSET Links,
            deleted : SUBSET Links, inserted : SUBSET Links,
            from : Values, to : Values]

Idle == [op |-> "none", pc |-> "idle", wanted |-> {}, seen |-> {}, removed |-> {}, added |-> {},
         todo |-> {}, deleted |-> {}, inserted |-> {}, from |-> SomeValue, to |-> SomeValue]

TypeOK ==
    /\ linked \in [{"tags", "teams"} -> SUBSET Links]
    /\ field \in Values
    /\ told \in [from : Values, to : Values]
    /\ request \in [Handlers -> Request]

Init ==
    /\ linked \in [{"tags", "teams"} -> SUBSET Links]
    /\ field = SomeValue
    /\ told = [from |-> SomeValue, to |-> SomeValue]
    /\ request = [h \in Handlers |-> Idle]

--------------------------------------------------------------------------------
(* Requests *)

Finish(h) == request' = [request EXCEPT ![h] = Idle]

\* The staged set of the tag selector, or the boxes ticked for a user, chosen
\* on a page that may be old.
BeginTags(h, wanted) ==
    /\ request[h].pc = "idle" /\ "tags" \in Operations[h]
    /\ request' = [request EXCEPT ![h] = [Idle EXCEPT !.op = "tags", !.pc = "read",
                                                      !.wanted = wanted]]
    /\ UNCHANGED <<linked, field, told>>

\* Mutant: no difference is taken: all others go, whoever set them.
RemovedOthers(current, wanted) == Links \ wanted

RemovedTags(current, wanted) == current \ wanted

\* updateTicketTags takes the difference of the request and the rows it reads.
ReadTags(h) ==
    LET r       == request[h]
        added   == r.wanted \ linked["tags"]
        removed == RemovedTags(linked["tags"], r.wanted)
    IN  /\ r.op = "tags" /\ r.pc = "read"
        /\ IF added \cup removed = {}
           THEN Finish(h)
           ELSE request' = [request EXCEPT ![h].seen = linked["tags"], ![h].added = added,
                                           ![h].removed = removed, ![h].pc = "delete"]
        /\ UNCHANGED <<linked, field, told>>

\* updateTeams deletes all rows of the user and inserts those of the request.
BeginTeams(h, wanted) ==
    /\ request[h].pc = "idle" /\ "teams" \in Operations[h]
    /\ request' = [request EXCEPT ![h] = [Idle EXCEPT !.op = "teams", !.pc = "delete",
                                            !.wanted = wanted, !.removed = Links,
                                            !.added = wanted]]
    /\ UNCHANGED <<linked, field, told>>

--------------------------------------------------------------------------------
(* The transaction *)

Others(h) == {g \in Handlers \ {h} : request[g].op = request[h].op}

StartDelete(h) ==
    /\ request[h].pc = "delete"
    /\ request' = [request EXCEPT ![h].todo = @ \cup (linked[request[h].op] \cap request[h].removed),
                                  ![h].pc = "lock"]
    /\ UNCHANGED <<linked, field, told>>

DeletedByOther(h, l) == {g \in Others(h) : l \in request[g].deleted}

DeleteRow(h, l) ==
    /\ request[h].pc = "lock" /\ l \in request[h].todo
    /\ DeletedByOther(h, l) = {}
    /\ request' = [request EXCEPT ![h].todo = @ \ {l}, ![h].deleted = @ \cup {l}]
    /\ UNCHANGED <<linked, field, told>>

StartInsert(h) ==
    /\ request[h].pc = "lock" /\ request[h].todo = {}
    /\ request' = [request EXCEPT ![h].pc = "insert"]
    /\ UNCHANGED <<linked, field, told>>

HeldByOther(h, l) ==
    {g \in Others(h) : l \in request[g].deleted \cup request[g].inserted}

\* Mutant: createMany skips duplicates.
InsertOrSkipRow(h, l) ==
    /\ request[h].pc = "insert" /\ l \in request[h].added \ request[h].inserted
    /\ HeldByOther(h, l) = {}
    /\ request' = [request EXCEPT ![h].inserted = @ \cup {l}]
    /\ UNCHANGED <<linked, field, told>>

\* A committed row the transaction has not deleted violates the unique key;
\* nothing of a transaction that is rolled back remains.
InsertRow(h, l) ==
    LET r == request[h]
    IN  /\ r.pc = "insert" /\ l \in r.added \ r.inserted
        /\ HeldByOther(h, l) = {}
        /\ IF l \in linked[r.op] \ r.deleted
           THEN Finish(h)
           ELSE request' = [request EXCEPT ![h].inserted = @ \cup {l}]
        /\ UNCHANGED <<linked, field, told>>

\* A DELETE that waits for rows this transaction deleted finds them gone.
Commit(h) ==
    LET r == request[h]
    IN  /\ r.pc = "insert" /\ r.added \subseteq r.inserted
        /\ linked' = [linked EXCEPT ![r.op] = (@ \ r.deleted) \cup r.inserted]
        /\ request' = [g \in Handlers |->
                         IF g = h THEN [r EXCEPT !.pc = "answer", !.deleted = {}, !.inserted = {}]
                         ELSE IF g \in Others(h)
                              THEN [request[g] EXCEPT !.todo = @ \ r.deleted]
                              ELSE request[g]]
        /\ UNCHANGED <<field, told>>

\* The answer shows the rows as they are by then.
Answer(h) ==
    /\ request[h].pc = "answer"
    /\ Finish(h)
    /\ UNCHANGED <<linked, field, told>>

\* What a transaction waits for: every step it has left is some other's.
WaitsFor(h) ==
    LET r == request[h]
    IN  IF r.pc = "lock" /\ r.todo # {} /\ \A l \in r.todo : DeletedByOther(h, l) # {}
        THEN UNION {DeletedByOther(h, l) : l \in r.todo}
        ELSE IF /\ r.pc = "insert"
                /\ ~(r.added \subseteq r.inserted)
                /\ \A l \in r.added \ r.inserted : HeldByOther(h, l) # {}
             THEN UNION {HeldByOther(h, l) : l \in r.added \ r.inserted}
             ELSE {}

\* Mutant: the database does not look for circles.
Undetected(h) == FALSE

\* The database rolls one transaction of a circle back.
Deadlocked(h) ==
    \E circle \in SUBSET Handlers :
        /\ h \in circle
        /\ \A g \in circle : WaitsFor(g) # {} /\ WaitsFor(g) \subseteq circle

RollBackDeadlocked(h) ==
    /\ Deadlocked(h)
    /\ Finish(h)
    /\ UNCHANGED <<linked, field, told>>

\* The process restarts or the database fails; an interactive transaction
\* that takes over five seconds is rolled back too.
RollBack(h) ==
    /\ request[h].pc \in {"read", "delete", "lock", "insert", "write"}
    /\ Finish(h)
    /\ UNCHANGED <<linked, field, told>>

--------------------------------------------------------------------------------
(* updateTicketPriority, updateTicketCategory *)

BeginField(h, to) ==
    /\ request[h].pc = "idle" /\ "field" \in Operations[h]
    /\ request' = [request EXCEPT ![h] = [Idle EXCEPT !.op = "field", !.pc = "read", !.to = to]]
    /\ UNCHANGED <<linked, field, told>>

ReadField(h) ==
    /\ request[h].op = "field" /\ request[h].pc = "read"
    /\ IF request[h].to = field
       THEN Finish(h)
       ELSE request' = [request EXCEPT ![h].from = field, ![h].pc = "write"]
    /\ UNCHANGED <<linked, field, told>>

\* The event names the value that was read, which may not be the one replaced.
WriteField(h) ==
    /\ request[h].op = "field" /\ request[h].pc = "write"
    /\ field' = request[h].to
    /\ told' = [from |-> request[h].from, to |-> request[h].to]
    /\ Finish(h)
    /\ UNCHANGED linked

--------------------------------------------------------------------------------
Begin(h) ==
    \/ \E wanted \in SUBSET Links : BeginTags(h, wanted) \/ BeginTeams(h, wanted)
    \/ \E to \in Values : BeginField(h, to)

Step(h) ==
    \/ ReadTags(h) \/ StartDelete(h) \/ StartInsert(h) \/ Commit(h) \/ Answer(h)
    \/ \E l \in Links : DeleteRow(h, l) \/ InsertRow(h, l)
    \/ ReadField(h) \/ WriteField(h)

Next == \E h \in Handlers : Begin(h) \/ Step(h) \/ RollBackDeadlocked(h) \/ RollBack(h)

\* Waiters for a row queue, and deadlocks are looked for.
Fairness == \A h \in Handlers : SF_vars(Step(h)) /\ WF_vars(RollBackDeadlocked(h))
Spec == Init /\ [][Next]_vars /\ Fairness

--------------------------------------------------------------------------------
(* Properties *)

Commits(h) == request[h].pc = "insert" /\ request'[h].pc = "answer"

(* The TAGGED event of a committed request names as added what was not     *)
(* there and is now, whoever changed the tags since they were read.        *)
AddedIsNew ==
    [][\A h \in Handlers : Commits(h) /\ request[h].op = "tags"
         => /\ request[h].added \cap linked["tags"] = {}
            /\ request[h].added \subseteq linked'["tags"]]_vars

(* A request takes away only tags it saw when it computed its difference:  *)
(* a tag somebody set meanwhile stays.                                     *)
KeepsUnseenTags ==
    [][\A h \in Handlers : Commits(h) /\ request[h].op = "tags"
         => linked["tags"] \ linked'["tags"] \subseteq request[h].seen]_vars

(* The teams of a user are those of the last request: what the endpoint    *)
(* says it does.                                                           *)
TeamsAreReplaced ==
    [][\A h \in Handlers : Commits(h) /\ request[h].op = "teams"
         => linked'["teams"] = request[h].wanted]_vars

(* No row is deleted, nor inserted, by two open transactions.              *)
LinksHaveOneWriter ==
    \A h \in Handlers : \A g \in Others(h) :
        (request[h].deleted \cup request[h].inserted)
          \cap (request[g].deleted \cup request[g].inserted) = {}

(* Every request ends, those that wait for each other's rows too.          *)
RequestsEnd == \A h \in Handlers : request[h].pc # "idle" ~> request[h].pc = "idle"

================================================================================
