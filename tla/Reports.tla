--------------------------------- MODULE Reports ---------------------------------
(***************************************************************************)
(* The reports of the API.  A report is a handful of queries, most of them *)
(* sent together (Promise.all), and each sees the database of its own      *)
(* moment: tickets, people and assignment requests change in between.  The *)
(* answer is put together from what they returned.                         *)
(*                                                                         *)
(* The distribution by priority and by request type, which is that by      *)
(* status over another column, names and rounding to seconds are left out. *)
(***************************************************************************)
EXTENDS TicketRules, FiniteSetsExt, Functions

CONSTANTS
    Tickets, RequestIds,
    Agents, Managers, Admins,
    Teams, NoTeam, Nobody,
    Backlog,        \* the databases a report may meet
    Kinds,          \* the reports asked for
    WindowLength,   \* windowDays, in clock units
    MaxWrites      \* bound: writes by the rest of the system

Staff == Agents \cup Managers \cup Admins
KindName == {"overview", "queue", "agents", "me", "requests"}

--------------------------------------------------------------------------------
(* Types *)

Ticket == [team : Teams \cup {NoTeam}, assignee : Staff \cup {Nobody}, status : Status,
           created : Nat, clock : [Target -> Clock], deleted : BOOLEAN]

RequestStatus == {"PENDING", "APPROVED", "REJECTED", "CANCELLED"}
Request == [ticket : Tickets, by : Staff, status : RequestStatus, created : Nat, closed : Time]

\* Tickets and requests that were not created yet are not in their function.
IsDatabase(w) ==
    /\ DOMAIN w = {"ticket", "request", "member", "active"}
    /\ DOMAIN w.ticket \subseteq Tickets /\ w.ticket \in [DOMAIN w.ticket -> Ticket]
    /\ DOMAIN w.request \subseteq RequestIds /\ w.request \in [DOMAIN w.request -> Request]
    /\ \A i \in DOMAIN w.request : w.request[i].ticket \in DOMAIN w.ticket
    /\ w.member \in [Staff -> SUBSET Teams] /\ w.active \subseteq Staff

ASSUME ReportsAssumption ==
    /\ Kinds \subseteq KindName
    /\ NoTeam \notin Teams /\ Nobody \notin Staff
    /\ IsFiniteSet(Tickets) /\ IsFiniteSet(RequestIds) /\ IsFiniteSet(Staff)
    /\ Agents \cap Managers = {} /\ Admins \cap (Agents \cup Managers) = {}
    /\ WindowLength \in Nat \ {0} /\ MaxWrites \in Nat
    /\ \A w \in Backlog : IsDatabase(w)

VARIABLES
    db,        \* the rows the reports read
    now,
    report,    \* the report under way, or the last one
    seen,      \* the databases there have been since it was asked for
    writes

reportVars == <<db, now, report, seen, writes>>

--------------------------------------------------------------------------------
(* The report under way *)

\* What each report sends to the database.
Queries(kind) ==
    CASE kind = "overview" -> {"byStatus", "byResponse", "byResolution", "created",
                               "resolved", "unassigned"}
      [] kind = "queue"    -> {"openByTeam", "unassignedByTeam", "atRiskByTeam",
                               "breachedByTeam", "openByStatus", "oldest"}
      [] kind = "agents"   -> {"teams", "users", "tickets"}
      [] kind = "me"       -> {"mine", "asked", "awaiting"}
      [] kind = "requests" -> {"pending", "approved", "rejected", "cancelled", "reviewed",
                               "oldestPending"}

\* What must have answered before a query is sent.
Before(q) == CASE q = "users"    -> {"teams"}
               [] q = "tickets"  -> {"teams", "users"}
               [] q = "awaiting" -> {"mine", "asked"}
               [] OTHER          -> {}

NoReport == [kind |-> "none", viewer |-> Nobody, at |-> 0, got |-> <<>>]

\* RolesGuard: everybody of the staff has "me", the others are for reviewers.
MayAsk(viewer, kind) == kind # "me" => viewer \notin Agents

ReportTypeOK ==
    /\ IsDatabase(db)
    /\ now \in Instants /\ writes \in 0..MaxWrites
    /\ report.kind \in Kinds \cup {"none"}
    /\ report.kind # "none" => /\ report.viewer \in Staff /\ report.at \in Instants
                               /\ DOMAIN report.got \subseteq Queries(report.kind)
                               /\ db \in seen
    /\ \A w \in seen : IsDatabase(w)

ReportInit ==
    /\ db \in Backlog
    /\ now = 0
    /\ report = NoReport /\ seen = {} /\ writes = 0

--------------------------------------------------------------------------------
(* What the queries select *)

OpenStatuses == {"OPEN", "PENDING"}

\* Mutant: whatever nobody owns is triage.
ScopeWithUnassigned(v, w) ==
    {t \in DOMAIN w.ticket :
        /\ ~w.ticket[t].deleted
        /\ v \notin Admins => \/ w.ticket[t].team \in w.member[v]
                             \/ w.ticket[t].assignee = Nobody}

\* buildScopeWhere
Scope(v, w) ==
    {t \in DOMAIN w.ticket :
        /\ ~w.ticket[t].deleted
        /\ v \notin Admins =>
             \/ w.ticket[t].team \in w.member[v]
             \/ w.ticket[t].assignee = Nobody /\ w.ticket[t].team = NoTeam}

\* requestTicketFilter; `active' leaves out requests on tickets in the trash.
Requests(v, w, active, statuses) ==
    {i \in DOMAIN w.request :
        LET t == w.request[i].ticket
        IN  /\ w.request[i].status \in statuses
            /\ v \in Managers => w.ticket[t].team \in w.member[v]
            /\ active => ~w.ticket[t].deleted}

OpenIn(S, w)      == {t \in S : w.ticket[t].status \in OpenStatuses}
InState(S, w, st) == {t \in S : \E g \in Target : w.ticket[t].clock[g].state = st}
Due(S, w, g)      == {t \in S : w.ticket[t].clock[g].due # NoTime}

\* gte windowStart, lte now
InWindow(time, at) == time # NoTime /\ time \in at - WindowLength .. at

(* GROUP BY with a count: only the values that occur have a group.         *)
GroupBy(key) ==
    [k \in Range(key) |-> Cardinality({t \in DOMAIN key : key[t] = k})]

(* Times from `from' to `to', where the second came after the first: their *)
(* sum and number, of which the average is taken.                          *)
Durations(from, to) ==
    LET ended == {x \in DOMAIN to : to[x] # NoTime /\ to[x] >= from[x]}
    IN  [sum   |-> MapThenSumSet(LAMBDA x : to[x] - from[x], ended),
         count |-> Cardinality(ended)]

ReviewTimes(w, ids) == Durations([i \in ids |-> w.request[i].created],
                                 [i \in ids |-> w.request[i].closed])

\* The active agents and managers of the teams; admins see those of all.
ReportedStaff(v, w, teams) ==
    {u \in (Agents \cup Managers) \cap w.active :
        v \in Managers => w.member[u] \cap teams # {}}

AssignedTo(us, w) ==
    {t \in DOMAIN w.ticket : ~w.ticket[t].deleted /\ w.ticket[t].assignee \in us}

Least(S) == IF S = {} THEN NoTime ELSE Min(S)

Decided(v, at, w, statuses) ==
    {i \in Requests(v, w, FALSE, statuses) : InWindow(w.request[i].closed, at)}

\* What a query finds that needs no earlier answer.
Select(q, v, at, w) ==
    LET row == w.ticket
        S == Scope(v, w)
        O == OpenIn(S, w)
        P == Requests(v, w, TRUE, {"PENDING"})
    IN  CASE q = "byStatus"     -> GroupBy([t \in S |-> row[t].status])
          [] q = "byResponse"   -> GroupBy([t \in Due(S, w, "FIRST_RESPONSE") |->
                                               row[t].clock["FIRST_RESPONSE"].state])
          [] q = "byResolution" -> GroupBy([t \in Due(S, w, "RESOLUTION") |->
                                               row[t].clock["RESOLUTION"].state])
          [] q = "created"      -> Cardinality({t \in S : InWindow(row[t].created, at)})
          [] q = "resolved"     -> Cardinality({t \in S :
                                       InWindow(row[t].clock["RESOLUTION"].stopped, at)})
          [] q = "unassigned"   -> Cardinality({t \in S : row[t].assignee = Nobody})
          [] q = "openByTeam"   -> GroupBy([t \in O |-> row[t].team])
          [] q = "unassignedByTeam" ->
                 GroupBy([t \in {o \in O : row[o].assignee = Nobody} |-> row[t].team])
          [] q = "atRiskByTeam" -> GroupBy([t \in InState(O, w, "AT_RISK") |-> row[t].team])
          [] q = "breachedByTeam" -> GroupBy([t \in InState(O, w, "BREACHED") |-> row[t].team])
          [] q = "openByStatus" -> GroupBy([t \in O |-> row[t].status])
          [] q = "oldest"       -> Least({row[t].created : t \in O})
          [] q = "teams"        -> w.member[v]
          [] q = "mine"         -> Restrict(row, AssignedTo({v}, w))
          [] q = "asked"        -> Cardinality({i \in DOMAIN w.request :
                                       /\ w.request[i].by = v
                                       /\ w.request[i].status = "PENDING"
                                       /\ ~row[w.request[i].ticket].deleted})
          [] q = "awaiting"     -> IF v \in Agents THEN NoTime ELSE Cardinality(P)
          [] q = "pending"      -> Cardinality(P)
          [] q = "approved"     -> Cardinality(Decided(v, at, w, {"APPROVED"}))
          [] q = "rejected"     -> Cardinality(Decided(v, at, w, {"REJECTED"}))
          [] q = "cancelled"    -> Cardinality(Decided(v, at, w, {"CANCELLED"}))
          [] q = "reviewed"     -> ReviewTimes(w, Decided(v, at, w, {"APPROVED", "REJECTED"}))
          [] q = "oldestPending" -> Least({w.request[i].created : i \in P})

\* What query q finds in the database w.
Found(q, w) ==
    LET v == report.viewer
        g == report.got
    IN  CASE q = "users"   -> ReportedStaff(v, w, g["teams"])
          [] q = "tickets" -> Restrict(w.ticket, AssignedTo(g["users"], w))
          [] OTHER         -> Select(q, v, report.at, w)

--------------------------------------------------------------------------------
(* The answer *)

Sum(f)           == MapThenSumSet(LAMBDA k : f[k], DOMAIN f)
Get(f, k)        == IF k \in DOMAIN f THEN f[k] ELSE 0
ZeroFilled(f, S) == [k \in S |-> Get(f, k)]

\* In tenths of a percent, half up; null without a completed target.
Pct(met, completed) ==
    IF completed = 0 THEN NoTime ELSE (2000 * met + completed) \div (2 * completed)

SlaSummary(f) ==
    LET by == ZeroFilled(f, SlaState)
    IN  [by |-> by, applicable |-> Sum(by), completed |-> by["MET"] + by["BREACHED"],
         met |-> Pct(by["MET"], by["MET"] + by["BREACHED"])]

\* One row of aggregateTickets, for the ticket rows r.
Aggregate(r) ==
    LET T == DOMAIN r
        open == {t \in T : r[t].status \in OpenStatuses}
        In(g, sts) == {t \in T : r[t].clock[g].due # NoTime /\ r[t].clock[g].state \in sts}
        Either(st) == {t \in open : \E g \in Target : r[t].clock[g].state = st}
        Met(g)       == Cardinality(In(g, {"MET"}))
        Completed(g) == Cardinality(In(g, {"MET", "BREACHED"}))
    IN  [open      |-> Cardinality(open),
         resolved  |-> Cardinality({t \in T :
                           InWindow(r[t].clock["RESOLUTION"].stopped, report.at)}),
         took      |-> [g \in Target |-> Durations([t \in T |-> r[t].created],
                                                [t \in T |-> r[t].clock[g].stopped])],
         completed |-> [g \in Target |-> Completed(g)],
         met       |-> [g \in Target |-> Met(g)],
         percent   |-> [g \in Target |-> Pct(Met(g), Completed(g))],
         atRisk    |-> Cardinality(Either("AT_RISK")),
         breached  |-> Cardinality(Either("BREACHED"))]

Overview(g) ==
    [countsByStatus   |-> ZeroFilled(g["byStatus"], Status),
     open             |-> Get(g["byStatus"], "OPEN") + Get(g["byStatus"], "PENDING"),
     created          |-> g["created"],
     resolved         |-> g["resolved"],
     unassigned       |-> g["unassigned"],
     firstResponseSla |-> SlaSummary(g["byResponse"]),
     resolutionSla    |-> SlaSummary(g["byResolution"])]

Queue(g) ==
    [open           |-> Sum(g["openByTeam"]),
     unassigned     |-> Sum(g["unassignedByTeam"]),
     atRisk         |-> Sum(g["atRiskByTeam"]),
     breached       |-> Sum(g["breachedByTeam"]),
     countsByStatus |-> ZeroFilled(g["openByStatus"], Status),
     oldest         |-> IF g["oldest"] = NoTime THEN NoTime ELSE report.at - g["oldest"]]

\* The part of the queue's answer that mixes what two queries found.
Assigned(g) == Sum(g["openByTeam"]) - Sum(g["unassignedByTeam"])

\* Mutant: tickets without a team have no row.
TeamRowsOfTeams(g) ==
    [team \in DOMAIN g["openByTeam"] \ {NoTeam} |->
        [open |-> g["openByTeam"][team], unassigned |-> Get(g["unassignedByTeam"], team),
         atRisk |-> Get(g["atRiskByTeam"], team), breached |-> Get(g["breachedByTeam"], team)]]

\* One row for each team, or none, that has an open ticket.
TeamRows(g) ==
    [team \in DOMAIN g["openByTeam"] |->
        [open |-> g["openByTeam"][team], unassigned |-> Get(g["unassignedByTeam"], team),
         atRisk |-> Get(g["atRiskByTeam"], team), breached |-> Get(g["breachedByTeam"], team)]]

AgentRows(g) ==
    [u \in g["users"] |->
        Aggregate(Restrict(g["tickets"], {t \in DOMAIN g["tickets"] :
                                             g["tickets"][t].assignee = u}))]

Me(g) == [mine |-> Aggregate(g["mine"]), asked |-> g["asked"], awaiting |-> g["awaiting"]]

RequestFigures(g) ==
    [pending |-> g["pending"], approved |-> g["approved"], rejected |-> g["rejected"],
     cancelled |-> g["cancelled"], reviewed |-> g["reviewed"],
     oldest |-> IF g["oldestPending"] = NoTime THEN NoTime
                ELSE report.at - g["oldestPending"]]

--------------------------------------------------------------------------------
(* The steps of a report *)

\* The time is taken once, when the request comes in.
AskFor(v, kind) ==
    /\ report = NoReport
    /\ v \in db.active /\ MayAsk(v, kind)
    /\ report' = [kind |-> kind, viewer |-> v, at |-> now, got |-> <<>>]
    /\ seen' = {db}
    /\ UNCHANGED <<db, now, writes>>

Asked == report.kind # "none"
Done  == Asked /\ DOMAIN report.got = Queries(report.kind)

Run(q) ==
    /\ q \notin DOMAIN report.got
    /\ Before(q) \subseteq DOMAIN report.got
    /\ report' = [report EXCEPT !.got = [x \in DOMAIN @ \cup {q} |->
                                            IF x = q THEN Found(q, db) ELSE @[x]]]
    /\ UNCHANGED <<db, now, seen, writes>>

\* Answered; or one of the queries failed, and with it the request.
Close ==
    /\ Asked
    /\ report' = NoReport /\ seen' = {}
    /\ UNCHANGED <<db, now, writes>>

--------------------------------------------------------------------------------
(* What the rest of the system writes meanwhile *)

Write(new) ==
    /\ writes < MaxWrites
    /\ new # db
    /\ db' = new
    /\ seen' = IF Asked THEN seen \cup {new} ELSE seen
    /\ writes' = writes + 1
    /\ UNCHANGED <<now, report>>

WriteTicket(t, row) == Write([db EXCEPT !.ticket[t] = row])

CreateTicket(t, team) ==
    /\ t \notin DOMAIN db.ticket
    /\ Write([db EXCEPT !.ticket = [x \in DOMAIN @ \cup {t} |->
          IF x # t THEN @[x]
          ELSE [team |-> team, assignee |-> Nobody, status |-> "OPEN", created |-> now,
                clock |-> [g \in Target |-> StartedClock(g, now)], deleted |-> FALSE]]])

Assign(t, u) == WriteTicket(t, [db.ticket[t] EXCEPT !.assignee = u])

\* The owner goes with the ticket only if it belongs to the destination.
Transfer(t, team) ==
    WriteTicket(t, [db.ticket[t] EXCEPT
        !.team = team,
        !.assignee = IF @ # Nobody /\ team \in db.member[@] THEN @ ELSE Nobody])

SetStatus(t, to) ==
    /\ to \in AllowedFrom(db.ticket[t].status)
    /\ WriteTicket(t, [db.ticket[t] EXCEPT
           !.status = to,
           !.clock["RESOLUTION"] = ResolutionAfter(@, db.ticket[t].status, to, now)])

Respond(t) ==
    /\ db.ticket[t].clock["FIRST_RESPONSE"].stopped = NoTime
    /\ WriteTicket(t, [db.ticket[t] EXCEPT
           !.clock["FIRST_RESPONSE"] = [@ EXCEPT !.state = "MET", !.stopped = now]])

Escalate(t, g) ==
    LET c == db.ticket[t].clock[g]
    IN  WriteTicket(t, [db.ticket[t] EXCEPT
            !.clock[g].state = Escalated(g, c.state, c.due, now)])

TrashOrRestore(t) == WriteTicket(t, [db.ticket[t] EXCEPT !.deleted = ~@])

CreateRequest(i, t, u) ==
    /\ i \notin DOMAIN db.request
    /\ db.ticket[t].assignee = u
    /\ Write([db EXCEPT !.request = [x \in DOMAIN @ \cup {i} |->
          IF x # i THEN @[x]
          ELSE [ticket |-> t, by |-> u, status |-> "PENDING", created |-> now,
                closed |-> NoTime]]])

CloseRequest(i, st) ==
    /\ db.request[i].status = "PENDING"
    /\ Write([db EXCEPT !.request[i].status = st, !.request[i].closed = now])

SetTeams(u, ts) == Write([db EXCEPT !.member[u] = ts])
SetActive(u)    == Write([db EXCEPT !.active = (@ \cup {u}) \ (@ \cap {u})])

Tick ==
    /\ \E t \in Instants : t > now /\ now' = t
    /\ UNCHANGED <<db, report, seen, writes>>

--------------------------------------------------------------------------------
TicketWrite(t) ==
    \/ \E u \in Staff \cup {Nobody} : Assign(t, u)
    \/ \E team \in Teams : Transfer(t, team)
    \/ \E to \in Status : SetStatus(t, to)
    \/ Respond(t)
    \/ \E g \in Target : Escalate(t, g)
    \/ TrashOrRestore(t)
    \/ \E i \in RequestIds, u \in Agents : CreateRequest(i, t, u)

PeopleWrite(u) ==
    \/ \E ts \in SUBSET Teams : SetTeams(u, ts)
    \/ SetActive(u)

ReportNext ==
    \/ \E v \in Staff, kind \in Kinds : AskFor(v, kind)
    \/ Asked /\ \E q \in Queries(report.kind) : Run(q)
    \/ Close
    \/ \E t \in Tickets, team \in Teams \cup {NoTeam} : CreateTicket(t, team)
    \/ \E t \in DOMAIN db.ticket : TicketWrite(t)
    \/ \E i \in DOMAIN db.request, st \in RequestStatus \ {"PENDING"} : CloseRequest(i, st)
    \/ \E u \in Staff : PeopleWrite(u)
    \/ Tick

ReportSpec == ReportInit /\ [][ReportNext]_reportVars

--------------------------------------------------------------------------------
(* Safety *)

(* What a report should say of a database, counted one ticket at a time:   *)
(* "ADMIN is global (non-trashed); MANAGER is scoped to their teams +      *)
(* globally-unassigned triage."                                            *)
Live(w)     == {t \in DOMAIN w.ticket : ~w.ticket[t].deleted}
Has(v, w)   == {t \in Live(w) : w.ticket[t].team \in Teams \cap w.member[v]}
Triage(w)   == {t \in Live(w) : w.ticket[t].team = NoTeam /\ w.ticket[t].assignee = Nobody}
ReportOn(w) == IF report.viewer \in Admins THEN Live(w)
               ELSE Has(report.viewer, w) \cup Triage(w)

OpenOf(w)       == {t \in ReportOn(w) : w.ticket[t].status \notin ResolvedStatuses}
UnassignedOf(w) == {t \in OpenOf(w) : w.ticket[t].assignee = Nobody}
TroubledOf(w, st) == {t \in OpenOf(w) : st \in {w.ticket[t].clock[g].state : g \in Target}}

TrueStatuses(S, w) == [s \in Status |-> Cardinality({t \in S : w.ticket[t].status = s})]

TrueSla(w, g) ==
    LET planned == {t \in ReportOn(w) : w.ticket[t].clock[g].due # NoTime}
        in(sts) == Cardinality({t \in planned : w.ticket[t].clock[g].state \in sts})
    IN  [by |-> [st \in SlaState |-> in({st})], applicable |-> Cardinality(planned),
         completed |-> in({"MET", "BREACHED"}),
         met |-> Pct(in({"MET"}), in({"MET", "BREACHED"}))]

TrueOverview(w) ==
    [countsByStatus   |-> TrueStatuses(ReportOn(w), w),
     open             |-> Cardinality(OpenOf(w)),
     created          |-> Cardinality({t \in ReportOn(w) :
                              InWindow(w.ticket[t].created, report.at)}),
     resolved         |-> Cardinality({t \in ReportOn(w) :
                              LET stopped == w.ticket[t].clock["RESOLUTION"].stopped
                              IN  InWindow(stopped, report.at)}),
     unassigned       |-> Cardinality({t \in ReportOn(w) : w.ticket[t].assignee = Nobody}),
     firstResponseSla |-> TrueSla(w, "FIRST_RESPONSE"),
     resolutionSla    |-> TrueSla(w, "RESOLUTION")]

TrueQueue(w) ==
    [open           |-> Cardinality(OpenOf(w)),
     unassigned     |-> Cardinality(UnassignedOf(w)),
     atRisk         |-> Cardinality(TroubledOf(w, "AT_RISK")),
     breached       |-> Cardinality(TroubledOf(w, "BREACHED")),
     countsByStatus |-> TrueStatuses(OpenOf(w), w),
     oldest         |-> IF OpenOf(w) = {} THEN NoTime
                        ELSE Max({report.at - w.ticket[t].created : t \in OpenOf(w)})]

\* The requests on tickets in reach; decisions are kept when the ticket is trashed.
RequestsOf(w, S) ==
    {i \in DOMAIN w.request :
        LET t == w.request[i].ticket
        IN  t \in S /\ (report.viewer \in Managers => w.ticket[t].team \in w.member[report.viewer])}
DecidedOf(w, st) == {i \in RequestsOf(w, DOMAIN w.ticket) :
                        w.request[i].status = st /\ InWindow(w.request[i].closed, report.at)}
PendingOf(w) == {i \in RequestsOf(w, Live(w)) : w.request[i].status = "PENDING"}

TrueRequests(w) ==
    [pending   |-> Cardinality(PendingOf(w)),
     approved  |-> Cardinality(DecidedOf(w, "APPROVED")),
     rejected  |-> Cardinality(DecidedOf(w, "REJECTED")),
     cancelled |-> Cardinality(DecidedOf(w, "CANCELLED")),
     reviewed  |-> ReviewTimes(w, DecidedOf(w, "APPROVED") \cup DecidedOf(w, "REJECTED")),
     oldest    |-> IF PendingOf(w) = {} THEN NoTime
                   ELSE Max({report.at - w.request[i].created : i \in PendingOf(w)})]

\* All tickets of one person, of whatever team: no viewer's scope.
OwnRow(u, w) == Aggregate(Restrict(w.ticket, {t \in Live(w) : w.ticket[t].assignee = u}))

TrueMe(w) ==
    [mine     |-> OwnRow(report.viewer, w),
     asked    |-> Cardinality({i \in DOMAIN w.request : /\ w.request[i].by = report.viewer
                                                        /\ w.request[i].status = "PENDING"
                                                        /\ w.request[i].ticket \in Live(w)}),
     awaiting |-> IF report.viewer \in Agents THEN NoTime ELSE Cardinality(PendingOf(w))]

WasTrue(figures, Truth(_)) ==
    \A f \in DOMAIN figures : \E w \in seen : figures[f] = Truth(w)[f]

(* Somebody listed was active in w and, for a manager, of a team in w that *)
(* the manager had in x.                                                   *)
Listed(u, w, x) ==
    /\ u \in w.active
    /\ report.viewer \in Managers => w.member[u] \cap x.member[report.viewer] # {}

(* Every figure of a report was right at some moment between the request   *)
(* and its answer, whatever is written meanwhile: no figure but `assigned' *)
(* is put together from queries of different moments.  What it counts are  *)
(* the tickets and requests in the scope its viewer had at that moment, in *)
(* all reports but two.  The report on oneself counts all of one's own     *)
(* tickets, and a row of the agents all tickets of its person, those of    *)
(* teams a manager who asked is not in too (RowsKeepToScope does not       *)
(* hold).  The rows of the agents stem from one moment, and whoever has    *)
(* one was active and, for a manager, in a team of theirs (ReportsService).*)
FiguresWereTrue ==
    Done =>
      LET g == report.got
      IN  /\ report.kind = "overview" => WasTrue(Overview(g), TrueOverview)
          /\ report.kind = "queue"    => WasTrue(Queue(g), TrueQueue)
          /\ report.kind = "requests" => WasTrue(RequestFigures(g), TrueRequests)
          /\ report.kind = "me"       => WasTrue(Me(g), TrueMe)
          /\ report.kind = "agents"   =>
               /\ \E w \in seen : \A u \in DOMAIN AgentRows(g) : AgentRows(g)[u] = OwnRow(u, w)
               /\ \A u \in DOMAIN AgentRows(g) : \E w, x \in seen : Listed(u, w, x)

Column(table, c) == Sum([k \in DOMAIN table |-> table[k][c]])

(* A report during which nothing was written adds up: assigned and         *)
(* unassigned are the open tickets, the rows of the teams sum to the       *)
(* totals, the rows of the agents hold every open ticket that somebody     *)
(* listed owns, and no share exceeds the whole.  Under writes the queue    *)
(* report may even count a negative number of assigned tickets.            *)
QuietReportAddsUp ==
    (Done /\ Cardinality(seen) = 1) =>
      LET g == report.got
      IN  /\ report.kind = "queue" =>
               /\ Assigned(g) = Cardinality(OpenOf(db) \ UnassignedOf(db))
               /\ \A c \in {"open", "unassigned", "atRisk", "breached"} :
                     Column(TeamRows(g), c) = Queue(g)[c]
          /\ report.kind = "agents" =>
               /\ Column(AgentRows(g), "open") = Cardinality({t \in Live(db) :
                      /\ db.ticket[t].status \in OpenStatuses
                      /\ db.ticket[t].assignee \in g["users"]})
               /\ \A u \in g["users"], t \in Target :
                     AgentRows(g)[u].percent[t] \in (0..1000) \cup {NoTime}

--------------------------------------------------------------------------------
(* What the docs say and the code does not do; checked by no run           *)

(* "MANAGER is limited to tickets in their teams plus globally-unassigned  *)
(* triage tickets": the rows of the agents do not keep to that.            *)
RowsKeepToScope ==
    Done /\ report.kind = "agents" =>
      LET rows == AgentRows(report.got)
          InScope(u, w) == {t \in ReportOn(w) : w.ticket[t].assignee = u}
      IN  \E w \in seen : \A u \in DOMAIN rows :
              rows[u] = Aggregate(Restrict(w.ticket, InScope(u, w)))

================================================================================
