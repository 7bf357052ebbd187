---------------------------------- MODULE Lists ----------------------------------
(***************************************************************************)
(* The paged lists of the web application - tickets, trash, users, audit   *)
(* log - and the endpoints that serve their pages.                         *)
(*                                                                         *)
(* A page is fetched by its query: a filter and a page number.  The client *)
(* keeps an answer for every query and, while a new one is fetched, shows  *)
(* the page before (keepPreviousData), with its buttons.  The server       *)
(* counts and finds in two statements.  Rows are numbered in the order of  *)
(* the list; sorting, page sizes and wording are left out.                 *)
(***************************************************************************)
EXTENDS Integers, FiniteSets

CONSTANTS
    Rows,         \* naturals
    Filters, Matches,
    Limit,        \* rows of a page
    Screens,
    FirstRows, FirstPages,
    MaxPage, MaxFetches, MaxChanges, MaxFaults      \* bounds; MaxPage by filter

ScreenName == {"tickets", "trash", "users", "audit"}

ASSUME ListsAssumption ==
    /\ Rows \subseteq Nat /\ IsFiniteSet(Rows) /\ FirstRows \subseteq Rows
    /\ Matches \in [Filters -> SUBSET Rows] /\ \E f \in Filters : Matches[f] = Rows
    /\ Limit \in Nat \ {0} /\ MaxPage \in [Filters -> Nat \ {0}]
    /\ \A f \in Filters : Matches[f] = Rows => FirstPages \subseteq 1..MaxPage[f]
    /\ Screens \subseteq ScreenName
    /\ MaxFetches \in Nat /\ MaxChanges \in Nat /\ MaxFaults \in Nat

VARIABLES
    screen,       \* which list it is
    rows,         \* the database
    wanted,       \* the query of the page
    cache,        \* the last answer to each query
    last,         \* the last query of the page that had an answer
    fetch,        \* the requests under way
    failed,       \* queries whose last request failed
    restoring,    \* the row a button acts on
    changes, faults

vars == <<screen, rows, wanted, cache, last, fetch, failed, restoring, changes, faults>>

--------------------------------------------------------------------------------
(* Types *)

Key == UNION {[filter : {f}, page : 1..MaxPage[f]] : f \in Filters}
Answer == [page : Nat, total : Nat, items : SUBSET Rows]
NoAnswer == [page |-> 0, total |-> 0, items |-> {}]

\* `got': which of the two statements have answered.
Fetch == [on : BOOLEAN, got : SUBSET {"total", "items"}, total : Nat, items : SUBSET Rows]
NoFetch == [on |-> FALSE, got |-> {}, total |-> 0, items |-> {}]
NewFetch == [NoFetch EXCEPT !.on = TRUE]

\* `failed': the button says that the row could not be restored.
Restoring == [pc : {"no", "sent", "written", "refetching", "failed"}, row : Rows \cup {0}]
NotRestoring == [pc |-> "no", row |-> 0]

TypeOK ==
    /\ screen \in Screens /\ rows \subseteq Rows
    /\ wanted \in Key
    /\ cache \in [Key -> Answer \cup {NoAnswer}] /\ last \in Key
    /\ fetch \in [Key -> Fetch]
    /\ failed \subseteq Key
    /\ restoring \in Restoring
    /\ changes \in 0..MaxChanges /\ faults \in 0..MaxFaults

FirstQuery == [filter |-> CHOOSE f \in Filters : Matches[f] = Rows, page |-> 1]

\* A URL may name a page of the tickets; the admin pages start at the first.
Init ==
    /\ screen \in Screens
    /\ rows = FirstRows
    /\ wanted \in [filter : {FirstQuery.filter},
                   page : IF screen \in {"tickets", "trash"} THEN FirstPages ELSE {1}]
    /\ cache = [k \in Key |-> NoAnswer] /\ last = wanted
    /\ fetch = [[k \in Key |-> NoFetch] EXCEPT ![wanted] = NewFetch]
    /\ failed = {}
    /\ restoring = NotRestoring
    /\ changes = 0 /\ faults = 0

--------------------------------------------------------------------------------
(* The server *)

Matching(f) == rows \cap Matches[f]
Rank(r, S) == Cardinality({q \in S : q <= r})

\* skip and take
Slice(k) ==
    {r \in Matching(k.filter) :
        Rank(r, Matching(k.filter)) \in (k.page - 1) * Limit + 1 .. k.page * Limit}

Count(k) ==
    /\ fetch[k].on /\ "total" \notin fetch[k].got
    /\ fetch' = [fetch EXCEPT ![k].got = @ \cup {"total"},
                              ![k].total = Cardinality(Matching(k.filter))]
    /\ UNCHANGED <<screen, rows, wanted, cache, last, failed, restoring, changes, faults>>

Find(k) ==
    /\ fetch[k].on /\ "items" \notin fetch[k].got
    /\ fetch' = [fetch EXCEPT ![k].got = @ \cup {"items"}, ![k].items = Slice(k)]
    /\ UNCHANGED <<screen, rows, wanted, cache, last, failed, restoring, changes, faults>>

\* Math.ceil, in integers.
TotalPages(a) == (a.total + Limit - 1) \div Limit
HasNextPage(a) == a.page < TotalPages(a)

\* Mutant: beyond the last page there is no previous one.
HasPreviousInRange(a) == a.page > 1 /\ a.page <= TotalPages(a)

HasPreviousPage(a) == a.page > 1 /\ TotalPages(a) > 0

\* Somebody else adds a row, or takes one away.
Change(r) ==
    /\ changes < MaxChanges
    /\ changes' = changes + 1
    /\ rows' = IF r \in rows THEN rows \ {r} ELSE rows \cup {r}
    /\ UNCHANGED <<screen, wanted, cache, last, fetch, failed, restoring, faults>>

--------------------------------------------------------------------------------
(* The page *)

Broken == wanted \in failed

\* Until the first answer to a query, the page before stays (keepPreviousData).
Shown == IF Broken /\ cache[wanted] = NoAnswer THEN NoAnswer ELSE cache[last]

\* A request under way is not doubled; an error without an answer is forgotten.
Ask(k) ==
    /\ fetch' = [fetch EXCEPT ![k] = IF @.on THEN @ ELSE NewFetch]
    /\ failed' = IF cache[k] = NoAnswer THEN failed \ {k} ELSE failed

Want(k) ==
    /\ Cardinality({q \in Key : fetch[q].on}) < MaxFetches
    /\ k # wanted
    /\ wanted' = k
    /\ last' = IF cache[k] # NoAnswer THEN k ELSE last
    /\ Ask(k)
    /\ UNCHANGED <<screen, rows, cache, restoring, changes, faults>>

\* Only the ticket list keeps its buttons when it shows no rows.
Buttons == Shown # NoAnswer /\ (screen = "tickets" \/ Shown.items # {})

\* The answer that is shown allows the click, the query of the page is moved.
NextPage ==
    /\ Buttons /\ HasNextPage(Shown) /\ wanted.page < MaxPage[wanted.filter]
    /\ Want([wanted EXCEPT !.page = @ + 1])

PreviousPage ==
    /\ Buttons /\ HasPreviousPage(Shown) /\ wanted.page > 1
    /\ Want([wanted EXCEPT !.page = @ - 1])

\* A filter starts over from the first page; the trash has none.
SetFilter(f) ==
    /\ screen # "trash" /\ f # wanted.filter
    /\ Want([filter |-> f, page |-> 1])

\* The mutation of a button waits for the list that is shown.
Refetched(k) ==
    restoring' = IF restoring.pc = "refetching" /\ k = wanted THEN NotRestoring ELSE restoring

Received(k) == [page |-> k.page, total |-> fetch[k].total, items |-> fetch[k].items]

\* Mutant: an answer is kept for the page that is there when it comes.
AnswerToPage(k) ==
    /\ fetch[k].got = {"total", "items"}
    /\ fetch' = [fetch EXCEPT ![k] = NoFetch]
    /\ cache' = [cache EXCEPT ![wanted] = Received(k)]
    /\ last' = wanted
    /\ failed' = failed \ {k}
    /\ Refetched(k)
    /\ UNCHANGED <<screen, rows, wanted, changes, faults>>

\* An answer is kept under its query.
Answered(k) ==
    /\ fetch[k].got = {"total", "items"}
    /\ fetch' = [fetch EXCEPT ![k] = NoFetch]
    /\ cache' = [cache EXCEPT ![k] = Received(k)]
    /\ last' = IF k = wanted THEN k ELSE last
    /\ failed' = failed \ {k}
    /\ Refetched(k)
    /\ UNCHANGED <<screen, rows, wanted, changes, faults>>

\* After one retry, the error takes the place of the rows.
Fail(k) ==
    /\ fetch[k].on /\ faults < MaxFaults
    /\ faults' = faults + 1
    /\ fetch' = [fetch EXCEPT ![k] = NoFetch]
    /\ failed' = failed \cup {k}
    /\ Refetched(k)
    /\ UNCHANGED <<screen, rows, wanted, last, cache, changes>>

Retry ==
    /\ Broken
    /\ Ask(wanted)
    /\ UNCHANGED <<screen, rows, wanted, cache, last, restoring, changes, faults>>

--------------------------------------------------------------------------------
(* The button of a row: Restore in the trash, or deactivate in a list of   *)
(* active users.                                                           *)

Restore(r) ==
    /\ screen \in {"trash", "users"} /\ r \in Shown.items /\ ~Broken
    /\ restoring.pc \in {"no", "failed"}
    /\ restoring' = [pc |-> "sent", row |-> r]
    /\ UNCHANGED <<screen, rows, wanted, cache, last, fetch, failed, changes, faults>>

\* restoreTicket refuses a ticket that is not in the trash any more.
RestoreTicket ==
    /\ restoring.pc = "sent"
    /\ rows' = rows \ {restoring.row}
    /\ restoring' = [restoring EXCEPT !.pc = IF restoring.row \in rows THEN "written"
                                             ELSE "failed"]
    /\ UNCHANGED <<screen, wanted, cache, last, fetch, failed, changes, faults>>

\* The request or its answer is lost, before or after the row was written: an
\* error for the button, and nothing is fetched again.
RestoreFails ==
    /\ restoring.pc \in {"sent", "written"} /\ faults < MaxFaults
    /\ faults' = faults + 1
    /\ restoring' = [restoring EXCEPT !.pc = "failed"]
    /\ UNCHANGED <<screen, rows, wanted, cache, last, fetch, failed, changes>>


\* What was being fetched for the page is discarded and fetched anew.
Invalidate ==
    /\ restoring.pc = "written"
    /\ restoring' = [restoring EXCEPT !.pc = "refetching"]
    /\ fetch' = [fetch EXCEPT ![wanted] = NewFetch]
    /\ UNCHANGED <<screen, rows, wanted, cache, last, failed, changes, faults>>

--------------------------------------------------------------------------------
Serve(k) == Count(k) \/ Find(k) \/ Answered(k)

Next ==
    \/ \E k \in Key : Serve(k) \/ Fail(k)
    \/ NextPage \/ PreviousPage \/ Retry
    \/ \E f \in Filters : SetFilter(f)
    \/ \E r \in Rows : Restore(r) \/ Change(r)
    \/ RestoreTicket \/ RestoreFails \/ Invalidate

Spec == /\ Init /\ [][Next]_vars
        /\ \A k \in Key : WF_vars(Serve(k))
        /\ WF_vars(RestoreTicket) /\ WF_vars(Invalidate)

--------------------------------------------------------------------------------
(* Properties *)

Settled == (\A k \in Key : ~fetch[k].on) /\ restoring.pc \in {"no", "failed"} /\ ~Broken

(* When nothing is under way the page shows the answer to the query it     *)
(* asks for, in whatever order the answers came.                           *)
SettledShowsWanted == Settled => Shown = cache[wanted] /\ Shown.page = wanted.page

(* The ticket list never strands its reader on a page behind the rows,     *)
(* where clicks on the buttons of the page before, or rows that went away, *)
(* may lead: there is a way back.                                          *)
NeverStranded ==
    screen = "tickets" /\ Settled /\ Shown.items = {} /\ Shown.total > 0 /\ wanted.page > 1
        => Buttons /\ HasPreviousPage(Shown)


(* The page says that there are no rows only if the server counted none.   *)
EmptyMeansNone == Settled /\ Shown.items = {} /\ ~Buttons => Shown.total = 0

================================================================================
