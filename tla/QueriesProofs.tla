------------------------------ MODULE QueriesProofs ------------------------------
(***************************************************************************)
(* Proofs about Lists and Reports, the answers put together from several   *)
(* queries while the rows change.                                          *)
(*                                                                         *)
(* Lists: types, what a settled page shows, and its way back from a page   *)
(* behind the rows, for any rows, filters and number of requests under     *)
(* way, in whatever order their answers come.  The invariant: an answer    *)
(* stands under the query it was given to, and a query with an answer is   *)
(* what is shown once it is wanted.                                        *)
(*                                                                         *)
(* Reports: every figure was right at some moment, and a report nobody     *)
(* wrote under adds up, for any tickets, people, requests and number of    *)
(* writes.  The invariant: what a query found it found in one of the       *)
(* databases there have been.  The rest is about one database, and rests   *)
(* on what sums of counts are (SumOfCounts).                               *)
(***************************************************************************)
EXTENDS Lists, Reports, FiniteSetTheorems, WellFoundedInduction, TLAPS

--------------------------------------------------------------------------------
(* Lists *)

IInv ==
    /\ TypeOK
    /\ \A k \in Key : cache[k] # NoAnswer => cache[k].page = k.page
    /\ cache[wanted] # NoAnswer => last = wanted
    /\ ~fetch[wanted].on /\ wanted \notin failed => cache[wanted] # NoAnswer

\* A query is a filter and one of its pages.
LEMMA KeyType ==
    ASSUME NEW k \in Key
    PROVE  /\ k.filter \in Filters /\ k.page \in 1..MaxPage[k.filter]
           /\ k = [filter |-> k.filter, page |-> k.page]
           /\ k.page \in Nat \ {0}
BY ListsAssumption DEF Key

\* Every page of a filter is a query.
LEMMA KeyIntro ==
    ASSUME NEW f \in Filters, NEW n \in 1..MaxPage[f]
    PROVE  [filter |-> f, page |-> n] \in Key
BY DEF Key

\* The constants of the fetches and of the button are typed.
LEMMA FetchTypes ==
    /\ NoFetch \in Fetch /\ NewFetch \in Fetch /\ NewFetch.on /\ ~NoFetch.on
    /\ NotRestoring \in Restoring
BY DEF NoFetch, NewFetch, Fetch, NotRestoring, Restoring

\* What the server counts and finds is typed.
LEMMA MatchingType ==
    ASSUME TypeOK, NEW k \in Key
    PROVE  /\ Cardinality(Matching(k.filter)) \in Nat
           /\ Slice(k) \subseteq Rows
<1>1. Matching(k.filter) \in SUBSET Rows
  BY DEF Matching, TypeOK
<1>2. IsFiniteSet(Matching(k.filter))
  BY <1>1, ListsAssumption, FS_Subset
<1> QED
  BY <1>1, <1>2, FS_CardinalityType DEF Slice

\* The first query is being fetched.
LEMMA InitIInv == Init => IInv
<1> SUFFICES ASSUME Init PROVE IInv
  OBVIOUS
<1> DEFINE f == CHOOSE g \in Filters : Matches[g] = Rows
<1>1. f \in Filters /\ Matches[f] = Rows
  BY ListsAssumption
<1> HIDE DEF f
<1>2. FirstQuery.filter = f
  BY DEF FirstQuery, f
<1>3. wanted \in Key
  <2>1. \A n \in FirstPages \cup {1} : n \in 1..MaxPage[f]
    BY <1>1, ListsAssumption
  <2>2. PICK n \in FirstPages \cup {1} : wanted = [filter |-> f, page |-> n]
    BY <1>2 DEF Init
  <2> QED
    BY <1>1, <2>1, <2>2, KeyIntro
<1>4. TypeOK
  BY <1>3, FetchTypes, ListsAssumption DEF Init, TypeOK
<1>5. fetch[wanted].on /\ \A k \in Key : cache[k] = NoAnswer
  BY <1>3, FetchTypes DEF Init
<1> QED
  BY <1>3, <1>4, <1>5 DEF Init, IInv

--------------------------------------------------------------------------------
(* The server *)

\* The two statements of the server.
LEMMA ServerIInv ==
    ASSUME IInv, NEW k \in Key, Count(k) \/ Find(k)
    PROVE  IInv'
<1>1. /\ fetch \in [Key -> Fetch] /\ fetch[k] \in Fetch /\ TypeOK
      /\ UNCHANGED <<screen, rows, wanted, cache, last, failed, restoring, changes, faults>>
  BY DEF IInv, TypeOK, Count, Find
<1>2. fetch' \in [Key -> Fetch] /\ \A q \in Key : fetch'[q].on = fetch[q].on
  <2>1. CASE Count(k)
    BY <1>1, <2>1, MatchingType DEF Count, Fetch
  <2>2. CASE Find(k)
    BY <1>1, <2>2, MatchingType DEF Find, Fetch
  <2> QED
    BY <2>1, <2>2
<1> QED
  BY <1>1, <1>2 DEF IInv, TypeOK

\* Rows that change, and a button that is pressed.
LEMMA RowsIInv ==
    ASSUME IInv, (\E r \in Rows : Change(r) \/ Restore(r)) \/ RestoreTicket \/ RestoreFails
    PROVE  IInv'
<1>1. /\ TypeOK /\ restoring \in Restoring
      /\ UNCHANGED <<screen, wanted, cache, last, fetch, failed>>
  BY DEF IInv, TypeOK, Change, Restore, RestoreTicket, RestoreFails
<1>2. changes' \in 0..MaxChanges /\ faults' \in 0..MaxFaults
  BY <1>1, ListsAssumption DEF TypeOK, Change, Restore, RestoreTicket, RestoreFails
<1>3. rows' \subseteq Rows
  BY <1>1 DEF TypeOK, Change, Restore, RestoreTicket, RestoreFails
<1>4. restoring' \in Restoring
  BY <1>1, FetchTypes DEF Restoring, Change, Restore, RestoreTicket, RestoreFails
<1> QED
  BY <1>1, <1>2, <1>3, <1>4 DEF IInv, TypeOK

--------------------------------------------------------------------------------
(* The page *)

\* Another query is wanted.
LEMMA WantIInv ==
    ASSUME IInv, NEW k \in Key, Want(k)
    PROVE  IInv'
<1>1. /\ TypeOK /\ fetch \in [Key -> Fetch] /\ wanted' = k
      /\ UNCHANGED <<screen, rows, cache, restoring, changes, faults>>
      /\ last' = IF cache[k] # NoAnswer THEN k ELSE last
  BY DEF IInv, TypeOK, Want
<1>2. /\ fetch' \in [Key -> Fetch] /\ fetch'[k].on /\ failed' \subseteq failed
  BY <1>1, FetchTypes DEF Want, Ask
<1>3. TypeOK'
  BY <1>1, <1>2 DEF TypeOK
<1> QED
  BY <1>1, <1>2, <1>3 DEF IInv

\* The buttons and the filters.
LEMMA ClickIInv ==
    ASSUME IInv, NextPage \/ PreviousPage \/ \E f \in Filters : SetFilter(f)
    PROVE  IInv'
<1>1. /\ wanted \in Key /\ wanted.filter \in Filters /\ wanted.page \in 1..MaxPage[wanted.filter]
      /\ wanted = [filter |-> wanted.filter, page |-> wanted.page]
      /\ \A f \in Filters : MaxPage[f] \in Nat \ {0}
  BY KeyType, ListsAssumption DEF IInv, TypeOK
<1>2. CASE NextPage
  <2>1. [wanted EXCEPT !.page = @ + 1] = [filter |-> wanted.filter, page |-> wanted.page + 1]
    BY <1>1
  <2>2. wanted.page + 1 \in 1..MaxPage[wanted.filter]
    BY <1>1, <1>2 DEF NextPage
  <2> QED
    BY <1>1, <1>2, <2>1, <2>2, KeyIntro, WantIInv DEF NextPage
<1>3. CASE PreviousPage
  <2>1. [wanted EXCEPT !.page = @ - 1] = [filter |-> wanted.filter, page |-> wanted.page - 1]
    BY <1>1
  <2>2. wanted.page - 1 \in 1..MaxPage[wanted.filter]
    BY <1>1, <1>3 DEF PreviousPage
  <2> QED
    BY <1>1, <1>3, <2>1, <2>2, KeyIntro, WantIInv DEF PreviousPage
<1>4. ASSUME NEW f \in Filters, SetFilter(f)
      PROVE  IInv'
  <2>1. [filter |-> f, page |-> 1] \in Key
    BY <1>1, KeyIntro
  <2> QED
    BY <1>4, <2>1, WantIInv DEF SetFilter
<1> QED
  BY <1>2, <1>3, <1>4

\* A query is fetched again.
LEMMA AskIInv == ASSUME IInv, Retry \/ Invalidate PROVE IInv'
<1>1. /\ TypeOK /\ fetch \in [Key -> Fetch] /\ wanted \in Key /\ restoring \in Restoring
      /\ UNCHANGED <<screen, rows, wanted, cache, last, changes, faults>>
  BY DEF IInv, TypeOK, Retry, Invalidate
<1>2. fetch' \in [Key -> Fetch] /\ fetch'[wanted].on /\ failed' \subseteq failed
  BY <1>1, FetchTypes DEF Retry, Invalidate, Ask
<1>3. restoring' \in Restoring
  BY <1>1 DEF Retry, Invalidate, Restoring
<1>4. TypeOK'
  BY <1>1, <1>2, <1>3 DEF TypeOK
<1> QED
  BY <1>1, <1>2, <1>4 DEF IInv

\* An answer, or the lack of one, concerns its own query.
LEMMA EndIInv ==
    ASSUME IInv, NEW k \in Key, Answered(k) \/ Fail(k)
    PROVE  IInv'
<1>1. /\ TypeOK /\ fetch \in [Key -> Fetch] /\ fetch[k] \in Fetch /\ wanted \in Key
      /\ cache \in [Key -> Answer \cup {NoAnswer}] /\ last \in Key
      /\ fetch' = [fetch EXCEPT ![k] = NoFetch]
      /\ UNCHANGED <<screen, rows, wanted, changes>>
      /\ k.page \in Nat \ {0}
  BY KeyType DEF IInv, TypeOK, Answered, Fail
<1>2. restoring' \in Restoring
  BY <1>1, FetchTypes DEF TypeOK, Answered, Fail, Refetched
<1>3. fetch' \in [Key -> Fetch]
  BY <1>1, FetchTypes
<1>4. CASE Answered(k)
  <2>1. Received(k) \in Answer /\ Received(k).page = k.page
    BY <1>1 DEF Received, Answer, Fetch
  <2>2. Received(k) # NoAnswer
    BY <1>1, <2>1 DEF NoAnswer
  <2>3. /\ cache' = [cache EXCEPT ![k] = Received(k)]
        /\ last' = IF k = wanted THEN k ELSE last
        /\ failed' = failed \ {k} /\ UNCHANGED faults
    BY <1>4 DEF Answered, Fail
  <2>4. TypeOK'
    BY <1>1, <1>2, <1>3, <2>1, <2>3 DEF TypeOK
  <2> QED
    BY <1>1, <1>3, <2>1, <2>2, <2>3, <2>4 DEF IInv
<1>5. CASE Fail(k)
  <2>1. faults' \in 0..MaxFaults
    BY <1>1, <1>5, ListsAssumption DEF TypeOK, Fail
  <2>2. failed' = failed \cup {k} /\ UNCHANGED <<cache, last>>
    BY <1>5 DEF Fail
  <2>3. TypeOK'
    BY <1>1, <1>2, <1>3, <2>1, <2>2 DEF TypeOK
  <2> QED
    BY <1>1, <1>3, <2>2, <2>3 DEF IInv
<1> QED
  BY <1>4, <1>5

\* Every step keeps the invariant.
LEMMA NextIInv == IInv /\ [Next]_vars => IInv'
<1>1. IInv /\ UNCHANGED vars => IInv'
  BY DEF IInv, TypeOK, vars
<1>2. IInv /\ Next => IInv'
  BY ServerIInv, RowsIInv, ClickIInv, AskIInv, EndIInv DEF Next, Serve
<1> QED
  BY <1>1, <1>2

\* The invariant of the lists.
LEMMA Invariance == Spec => []IInv
BY InitIInv, NextIInv, PTL DEF Spec

\* What a settled page shows.
LEMMA SettledShows ==
    IInv /\ Settled => SettledShowsWanted /\ Shown = cache[wanted] /\ Shown \in Answer
<1> SUFFICES ASSUME IInv, Settled
             PROVE  SettledShowsWanted /\ Shown = cache[wanted] /\ Shown \in Answer
  OBVIOUS
<1>1. wanted \in Key /\ cache \in [Key -> Answer \cup {NoAnswer}]
  BY DEF IInv, TypeOK
<1>2. cache[wanted] # NoAnswer /\ last = wanted /\ cache[wanted].page = wanted.page
  BY <1>1 DEF IInv, Settled, Broken
<1> QED
  BY <1>1, <1>2 DEF SettledShowsWanted, Shown, Settled, Broken

--------------------------------------------------------------------------------
(* Theorems *)

(* Every reachable state is typed, for any rows and filters (Lists).       *)
THEOREM TypeCorrect == Spec => []TypeOK
<1>1. IInv => TypeOK
  BY DEF IInv
<1> QED
  BY <1>1, Invariance, PTL

(* A settled page shows the answer to the query it asks for, whatever      *)
(* order answers came in (the list hooks with keepPreviousData).           *)
THEOREM ShowsTheorem == Spec => []SettledShowsWanted
<1>1. IInv => SettledShowsWanted
  BY SettledShows DEF SettledShowsWanted
<1> QED
  BY <1>1, Invariance, PTL

(* The ticket list has a way back from a page behind the rows (the buttons *)
(* of the ticket list page).                                               *)
THEOREM WayBackTheorem == Spec => []NeverStranded
<1>1. IInv => NeverStranded
  <2> SUFFICES ASSUME IInv, screen = "tickets", Settled, Shown.items = {}, Shown.total > 0,
                      wanted.page > 1
               PROVE  Buttons /\ HasPreviousPage(Shown)
    BY DEF NeverStranded
  <2>1. Shown \in Answer /\ Shown.page = wanted.page
    BY SettledShows DEF SettledShowsWanted
  <2>2. Shown # NoAnswer
    BY <2>1 DEF NoAnswer
  <2>3. TotalPages(Shown) > 0
    <3>1. Shown.total \in Nat /\ Limit \in Nat \ {0}
      BY <2>1, ListsAssumption DEF Answer
    <3>2. \A t, l \in Nat \ {0} : (t + l - 1) \div l > 0
      OBVIOUS
    <3> QED
      BY <3>1, <3>2 DEF TotalPages
  <2> QED
    BY <2>1, <2>2, <2>3 DEF Buttons, HasPreviousPage
<1> QED
  BY <1>1, Invariance, PTL

--------------------------------------------------------------------------------
(* Reports: counts and their sums.  A fold is the value of a recursive     *)
(* function; the counts themselves satisfy its equation, and a smallest    *)
(* set on which another solution differed from them cannot be.             *)

\* The rows of D whose key is k, or is in s, counted.
Tally(D, key, k) == Cardinality({t \in D : key[t] = k})
TallyIn(D, key, s) == Cardinality({t \in D : key[t] \in s})

\* One key taken out of a set of keys takes out its rows.
LEMMA TallySplit ==
    ASSUME NEW D, IsFiniteSet(D), NEW key, NEW s, NEW k \in s
    PROVE  /\ TallyIn(D, key, s) = Tally(D, key, k) + TallyIn(D, key, s \ {k})
           /\ TallyIn(D, key, s) \in Nat
<1> DEFINE A == {t \in D : key[t] = k}
           B == {t \in D : key[t] \in s \ {k}}
           C == {t \in D : key[t] \in s}
<1>1. IsFiniteSet(A) /\ IsFiniteSet(B) /\ A \cap B = {} /\ A \cup B = C
  BY FS_Subset
<1> HIDE DEF A, B, C
<1>2. Cardinality(A) \in Nat /\ Cardinality(B) \in Nat
  BY <1>1, FS_CardinalityType
<1>3. Cardinality(C) = Cardinality(A) + Cardinality(B) - Cardinality({})
  BY <1>1, FS_Union
<1>4. Cardinality(C) = Cardinality(A) + Cardinality(B) /\ Cardinality(C) \in Nat
  BY <1>2, <1>3, FS_EmptySet
<1> QED
  BY <1>4 DEF A, B, C, Tally, TallyIn

\* Counts by key sum to the number of rows that have one of the keys.
LEMMA SumOfCounts ==
    ASSUME NEW D, IsFiniteSet(D), NEW key, NEW f, IsFiniteSet(DOMAIN f),
           \A k \in DOMAIN f : f[k] = Tally(D, key, k)
    PROVE  Sum(f) = TallyIn(D, key, DOMAIN f)
<1> DEFINE K == DOMAIN f
           Counted(s) == TallyIn(D, key, s)
           IsSum(it) == it = [s \in SUBSET K |->
               IF s = {} THEN 0
               ELSE f[CHOOSE x \in s : TRUE] + it[s \ {CHOOSE x \in s : TRUE}]]
<1>1. Sum(f) = (CHOOSE it : IsSum(it))[K]
  BY DEF Sum, MapThenSumSet, MapThenFoldSet
<1>2. Counted({}) = 0
  <2>1. {t \in D : key[t] \in {}} = {}
    OBVIOUS
  <2> QED
    BY <2>1, FS_EmptySet DEF TallyIn
<1>3. ASSUME NEW s \in SUBSET K, s # {}
      PROVE  /\ (CHOOSE x \in s : TRUE) \in s
             /\ Counted(s) = f[CHOOSE x \in s : TRUE] + Counted(s \ {CHOOSE x \in s : TRUE})
  <2>1. PICK x : x = CHOOSE y \in s : TRUE
    OBVIOUS
  <2>2. x \in s
    BY <1>3, <2>1
  <2>3. Counted(s) = f[x] + Counted(s \ {x})
    BY <2>2, TallySplit
  <2> QED
    BY <2>1, <2>2, <2>3
<1> HIDE DEF Counted
<1>4. IsSum([s \in SUBSET K |-> Counted(s)])
  <2> DEFINE it == [s \in SUBSET K |-> Counted(s)]
  <2>1. ASSUME NEW s \in SUBSET K
        PROVE  Counted(s) = IF s = {} THEN 0
                          ELSE f[CHOOSE x \in s : TRUE] + it[s \ {CHOOSE x \in s : TRUE}]
    <3>1. CASE s = {}
      BY <3>1, <1>2
    <3>2. CASE s # {}
      <4>1. it[s \ {CHOOSE x \in s : TRUE}] = Counted(s \ {CHOOSE x \in s : TRUE})
        OBVIOUS
      <4> QED
        BY <3>2, <4>1, <1>3
    <3> QED
      BY <3>1, <3>2
  <2> QED
    BY <2>1
<1>5. ASSUME NEW it, IsSum(it)
      PROVE  it[K] = Counted(K)
  <2> DEFINE bad == {s \in FiniteSubsetsOf(K) : it[s] # Counted(s)}
  <2>1. \A s \in SUBSET K : s \in FiniteSubsetsOf(K)
    BY FS_Subset DEF FiniteSubsetsOf
  <2>2. ASSUME bad # {}
        PROVE  FALSE
    <3>1. PICK s \in bad : \A r \in bad : <<r, s>> \notin StrictSubsetOrdering(K)
      BY <2>2, FS_StrictSubsetOrderingWellFounded, WFMin
    <3>2. s \in SUBSET K /\ it[s] # Counted(s)
      BY DEF FiniteSubsetsOf
    <3>3. it[s] = IF s = {} THEN 0
                  ELSE f[CHOOSE x \in s : TRUE] + it[s \ {CHOOSE x \in s : TRUE}]
      BY <1>5, <3>2
    <3>4. s # {}
      BY <3>2, <3>3, <1>2
    <3>5. PICK x : x = CHOOSE y \in s : TRUE
      OBVIOUS
    <3>6. x \in s /\ Counted(s) = f[x] + Counted(s \ {x}) /\ it[s] = f[x] + it[s \ {x}]
      BY <1>3, <3>2, <3>3, <3>4, <3>5
    <3>7. s \ {x} \in bad
      BY <2>1, <3>2, <3>6
    <3> QED
      BY <3>1, <3>2, <3>6, <3>7 DEF StrictSubsetOrdering
  <2> QED
    BY <2>1, <2>2
<1>6. IsSum(CHOOSE it : IsSum(it))
  BY <1>4
<1> HIDE DEF IsSum
<1>7. (CHOOSE it : IsSum(it))[K] = Counted(K)
  BY <1>5, <1>6
<1> QED
  BY <1>1, <1>7 DEF Counted

\* Tallies are naturals, and those of two keys add up.
LEMMA TallyFacts ==
    ASSUME NEW D, IsFiniteSet(D), NEW key
    PROVE  /\ \A k : Tally(D, key, k) \in Nat
           /\ \A k : TallyIn(D, key, {k}) = Tally(D, key, k)
           /\ \A j, k : j # k =>
                 TallyIn(D, key, {j, k}) = Tally(D, key, j) + Tally(D, key, k)
<1>1. ASSUME NEW k
      PROVE  Tally(D, key, k) \in Nat
  <2>1. IsFiniteSet({t \in D : key[t] = k})
    BY FS_Subset
  <2> QED
    BY <2>1, FS_CardinalityType DEF Tally
<1>2. ASSUME NEW k
      PROVE  TallyIn(D, key, {k}) = Tally(D, key, k)
  <2>1. {t \in D : key[t] \in {k}} = {t \in D : key[t] = k}
    OBVIOUS
  <2> QED
    BY <2>1 DEF Tally, TallyIn
<1>3. ASSUME NEW j, NEW k, j # k
      PROVE  TallyIn(D, key, {j, k}) = Tally(D, key, j) + Tally(D, key, k)
  <2>1. {j, k} \ {j} = {k} /\ j \in {j, k}
    BY <1>3
  <2>2. TallyIn(D, key, {j, k}) = Tally(D, key, j) + TallyIn(D, key, {j, k} \ {j})
    BY <2>1, TallySplit
  <2> QED
    BY <2>1, <2>2, <1>2
<1> QED
  BY <1>1, <1>2, <1>3

\* Finitely many rows have finitely many keys.
LEMMA RangeFinite ==
    ASSUME NEW key, IsFiniteSet(DOMAIN key)
    PROVE  IsFiniteSet(Range(key)) /\ \A t \in DOMAIN key : key[t] \in Range(key)
<1>1. \A t \in DOMAIN key : key[t] \in Range(key)
  BY DEF Range
<1> DEFINE f == [t \in DOMAIN key |-> key[t]]
<1>2. f \in Surjection(DOMAIN key, Range(key))
  BY <1>1 DEF Surjection, Range
<1> QED
  BY <1>1, <1>2, FS_Surjection

\* Groups that do not occur count nothing: ZeroFilled(GroupBy(key), S) tallies.
LEMMA GetOfGroups ==
    ASSUME NEW key, IsFiniteSet(DOMAIN key), NEW k
    PROVE  Get(GroupBy(key), k) = Tally(DOMAIN key, key, k)
<1>1. CASE k \in Range(key)
  BY <1>1 DEF Get, GroupBy, Tally
<1>2. CASE k \notin Range(key)
  <2>1. {t \in DOMAIN key : key[t] = k} = {}
    BY <1>2 DEF Range
  <2> QED
    BY <1>2, <2>1, FS_EmptySet DEF Get, GroupBy, Tally
<1> QED
  BY <1>1, <1>2

\* The groups sum to the rows, those of absent keys added or not.
LEMMA SumOfGroups ==
    ASSUME NEW key, IsFiniteSet(DOMAIN key)
    PROVE  /\ Sum(GroupBy(key)) = Cardinality(DOMAIN key)
           /\ \A S : IsFiniteSet(S) /\ Range(key) \subseteq S =>
                 Sum(ZeroFilled(GroupBy(key), S)) = Cardinality(DOMAIN key)
<1>1. ASSUME NEW S, Range(key) \subseteq S
      PROVE  TallyIn(DOMAIN key, key, S) = Cardinality(DOMAIN key)
  <2>1. {t \in DOMAIN key : key[t] \in S} = DOMAIN key
    BY <1>1 DEF Range
  <2> QED
    BY <2>1 DEF TallyIn
<1>2. Sum(GroupBy(key)) = Cardinality(DOMAIN key)
  <2> DEFINE f == GroupBy(key)
  <2>1. DOMAIN f = Range(key) /\ \A k \in DOMAIN f : f[k] = Tally(DOMAIN key, key, k)
    BY DEF GroupBy, Tally
  <2> HIDE DEF f
  <2>2. Sum(f) = TallyIn(DOMAIN key, key, DOMAIN f)
    BY <2>1, RangeFinite, SumOfCounts
  <2> QED
    BY <2>1, <2>2, <1>1 DEF f
<1>3. ASSUME NEW S, IsFiniteSet(S), Range(key) \subseteq S
      PROVE  Sum(ZeroFilled(GroupBy(key), S)) = Cardinality(DOMAIN key)
  <2> DEFINE f == ZeroFilled(GroupBy(key), S)
  <2>1. DOMAIN f = S /\ \A k \in DOMAIN f : f[k] = Tally(DOMAIN key, key, k)
    BY GetOfGroups DEF ZeroFilled
  <2> HIDE DEF f
  <2>2. Sum(f) = TallyIn(DOMAIN key, key, DOMAIN f)
    BY <1>3, <2>1, SumOfCounts
  <2> QED
    BY <1>3, <2>1, <2>2, <1>1 DEF f
<1> QED
  BY <1>2, <1>3

\* The oldest row is the one the latest instant is furthest from.
LEMMA OldestIsFurthest ==
    ASSUME NEW S \in SUBSET Nat, S # {}, NEW at \in Nat
    PROVE  at - Min(S) = Max({at - c : c \in S})
<1>1. \E m \in S : \A c \in S : m <= c
  <2>1. PICK m \in S : \A c \in S : <<c, m>> \notin OpToRel(<, Nat)
    BY NatLessThanWellFounded, WFMin
  <2>2. \A c \in S : ~(c < m)
    BY <2>1 DEF OpToRel
  <2> QED
    BY <2>2
<1>2. PICK m : m = Min(S)
  OBVIOUS
<1>3. m \in S /\ \A c \in S : m <= c
  BY <1>1, <1>2 DEF Min
<1> DEFINE D == {at - c : c \in S}
<1>4. at - m \in D /\ D \subseteq Int
  BY <1>3
<1>5. \A x \in D : at - m >= x
  BY <1>3
<1> HIDE DEF D
<1>6. PICK M : M = Max(D)
  OBVIOUS
<1>7. M \in D /\ \A x \in D : M >= x
  BY <1>4, <1>5, <1>6 DEF Max
<1>8. at - m \in Int /\ M \in Int /\ at - m >= M /\ M >= at - m
  BY <1>4, <1>5, <1>7
<1>9. at - m = M
  BY <1>8
<1> QED
  BY <1>2, <1>6, <1>9 DEF D

--------------------------------------------------------------------------------
(* The rows stay rows *)

\* The clocks that writes leave behind are clocks.
LEMMA ClockTypes ==
    ASSUME NEW t \in Instants
    PROVE  /\ \A g \in Target : StartedClock(g, t) \in Clock
           /\ \A clk \in Clock, from \in Status, to \in Status :
                 ResolutionAfter(clk, from, to, t) \in Clock
           /\ \A g \in Target, clk \in Clock : Escalated(g, clk.state, clk.due, t) \in SlaState
<1>1. t \in Nat /\ t \in Time
  BY RulesAssumption DEF Time
<1>2. \A g \in Target : StartedClock(g, t) \in Clock
  BY <1>1, RulesAssumption DEF StartedClock, Clock, SlaState, Time, Window, Target
<1>3. ASSUME NEW clk \in Clock, NEW from \in Status, NEW to \in Status
      PROVE  ResolutionAfter(clk, from, to, t) \in Clock
  <2>1. clk.due \in Time /\ t + ResolutionWindow \in Time /\ NoTime \in Time
    BY <1>1, RulesAssumption DEF Clock, Time
  <2>3. [clk EXCEPT !.state = "MET", !.stopped = t] \in Clock
    BY <1>1 DEF Clock, SlaState
  <2>2. [state |-> "ON_TRACK", stopped |-> NoTime,
         due |-> IF HasPlan THEN t + ResolutionWindow ELSE clk.due] \in Clock
    BY <2>1 DEF Clock, SlaState
  <2> QED
    BY <2>2, <2>3 DEF ResolutionAfter
<1>4. ASSUME NEW g \in Target, NEW clk \in Clock
      PROVE  Escalated(g, clk.state, clk.due, t) \in SlaState
  BY DEF Escalated, SlaState, Clock
<1> QED
  BY <1>2, <1>3, <1>4

\* What the handlers make of a ticket's row is a row.
LEMMA RowTypes ==
    ASSUME NEW row \in Ticket, NEW t \in Instants
    PROVE  /\ \A u \in Staff \cup {Nobody} : [row EXCEPT !.assignee = u] \in Ticket
           /\ \A team \in Teams, u \in Staff \cup {Nobody} :
                 [row EXCEPT !.team = team, !.assignee = u] \in Ticket
           /\ \A to \in AllowedFrom(row.status) :
                 [row EXCEPT !.status = to,
                             !.clock["RESOLUTION"] = ResolutionAfter(@, row.status, to, t)]
                    \in Ticket
           /\ [row EXCEPT !.clock["FIRST_RESPONSE"] =
                    [@ EXCEPT !.state = "MET", !.stopped = t]] \in Ticket
           /\ \A g \in Target, st \in SlaState : [row EXCEPT !.clock[g].state = st] \in Ticket
           /\ [row EXCEPT !.deleted = ~@] \in Ticket
<1>1. /\ row.status \in Status /\ row.clock \in [Target -> Clock]
      /\ "RESOLUTION" \in Target /\ "FIRST_RESPONSE" \in Target
      /\ row.clock["RESOLUTION"] \in Clock /\ t \in Time
  BY RulesAssumption DEF Ticket, Target, Time
<1>2. \A c \in [Target -> Clock], st \in Status :
         [row EXCEPT !.status = st, !.clock = c] \in Ticket /\ [row EXCEPT !.clock = c] \in Ticket
  BY DEF Ticket
<1>3. ASSUME NEW to \in AllowedFrom(row.status)
      PROVE  [row EXCEPT !.status = to,
                         !.clock["RESOLUTION"] = ResolutionAfter(@, row.status, to, t)] \in Ticket
  <2>1. to \in Status
    BY <1>1 DEF AllowedFrom, Status
  <2>2. PICK clk \in Clock : clk = ResolutionAfter(row.clock["RESOLUTION"], row.status, to, t)
    BY <1>1, <2>1, ClockTypes
  <2>3. PICK c \in [Target -> Clock] : c = [row.clock EXCEPT !["RESOLUTION"] = clk]
    BY <1>1
  <2>4. [row EXCEPT !.status = to,
                    !.clock["RESOLUTION"] = ResolutionAfter(@, row.status, to, t)]
            = [row EXCEPT !.status = to, !.clock = c]
    BY <2>2, <2>3 DEF Ticket
  <2> QED
    BY <1>2, <2>1, <2>4
<1>4. [row EXCEPT !.clock["FIRST_RESPONSE"] = [@ EXCEPT !.state = "MET", !.stopped = t]] \in Ticket
  <2>1. PICK clk \in Clock :
            clk = [row.clock["FIRST_RESPONSE"] EXCEPT !.state = "MET", !.stopped = t]
    BY <1>1 DEF Clock, SlaState
  <2>2. PICK c \in [Target -> Clock] : c = [row.clock EXCEPT !["FIRST_RESPONSE"] = clk]
    BY <1>1
  <2>3. [row EXCEPT !.clock["FIRST_RESPONSE"] = [@ EXCEPT !.state = "MET", !.stopped = t]]
            = [row EXCEPT !.clock = c]
    BY <2>1, <2>2
  <2>4. [row EXCEPT !.clock = c] \in Ticket
    BY <1>2, <1>1
  <2> QED
    BY <2>3, <2>4
<1>5. ASSUME NEW g \in Target, NEW st \in SlaState
      PROVE  [row EXCEPT !.clock[g].state = st] \in Ticket
  <2>1. PICK clk \in Clock : clk = [row.clock[g] EXCEPT !.state = st]
    BY <1>1 DEF Clock
  <2>2. PICK c \in [Target -> Clock] : c = [row.clock EXCEPT ![g] = clk]
    BY <1>1
  <2>3. [row EXCEPT !.clock[g].state = st] = [row EXCEPT !.clock = c]
    BY <2>1, <2>2
  <2>4. [row EXCEPT !.clock = c] \in Ticket
    BY <1>1, <1>2
  <2> QED
    BY <2>3, <2>4
<1>6. /\ \A u \in Staff \cup {Nobody} : [row EXCEPT !.assignee = u] \in Ticket
      /\ \A team \in Teams, u \in Staff \cup {Nobody} :
            [row EXCEPT !.team = team, !.assignee = u] \in Ticket
      /\ [row EXCEPT !.deleted = ~@] \in Ticket
  BY DEF Ticket
<1> QED
  BY <1>3, <1>4, <1>5, <1>6

\* What the handlers make of a database is one.
LEMMA DatabaseTypes ==
    ASSUME NEW w, IsDatabase(w)
    PROVE  /\ \A t \in DOMAIN w.ticket, row \in Ticket : IsDatabase([w EXCEPT !.ticket[t] = row])
           /\ \A t \in Tickets, row \in Ticket :
                 IsDatabase([w EXCEPT !.ticket = [x \in DOMAIN @ \cup {t} |->
                                                     IF x # t THEN @[x] ELSE row]])
           /\ \A i \in RequestIds, r \in Request : r.ticket \in DOMAIN w.ticket =>
                 IsDatabase([w EXCEPT !.request = [x \in DOMAIN @ \cup {i} |->
                                                      IF x # i THEN @[x] ELSE r]])
           /\ \A i \in DOMAIN w.request, st \in RequestStatus, time \in Time :
                 IsDatabase([w EXCEPT !.request[i].status = st, !.request[i].closed = time])
           /\ \A u \in Staff, ts \in SUBSET Teams : IsDatabase([w EXCEPT !.member[u] = ts])
           /\ \A u \in Staff : IsDatabase([w EXCEPT !.active = (@ \cup {u}) \ (@ \cap {u})])
<1>1. ASSUME NEW t \in DOMAIN w.ticket, NEW row \in Ticket
      PROVE  IsDatabase([w EXCEPT !.ticket[t] = row])
  BY DEF IsDatabase
<1>2. ASSUME NEW t \in Tickets, NEW row \in Ticket
      PROVE  IsDatabase([w EXCEPT !.ticket = [x \in DOMAIN @ \cup {t} |->
                                                 IF x # t THEN @[x] ELSE row]])
  BY DEF IsDatabase
<1>3. ASSUME NEW i \in RequestIds, NEW r \in Request, r.ticket \in DOMAIN w.ticket
      PROVE  IsDatabase([w EXCEPT !.request = [x \in DOMAIN @ \cup {i} |->
                                                  IF x # i THEN @[x] ELSE r]])
  BY <1>3 DEF IsDatabase
<1>4. ASSUME NEW i \in DOMAIN w.request, NEW st \in RequestStatus, NEW time \in Time
      PROVE  IsDatabase([w EXCEPT !.request[i].status = st, !.request[i].closed = time])
  <2>5. w.request[i] \in Request
    BY DEF IsDatabase
  <2>1. PICK r \in Request : r = [w.request[i] EXCEPT !.status = st, !.closed = time]
    BY <2>5 DEF Request
  <2>2. r.ticket = w.request[i].ticket
    BY <2>1, <2>5 DEF Request
  <2>3. [w EXCEPT !.request[i].status = st, !.request[i].closed = time]
            = [w EXCEPT !.request[i] = r]
    BY <2>1 DEF IsDatabase
  <2>4. IsDatabase([w EXCEPT !.request[i] = r])
    BY <2>2 DEF IsDatabase
  <2> QED
    BY <2>3, <2>4
<1>5. ASSUME NEW u \in Staff
      PROVE  /\ \A ts \in SUBSET Teams : IsDatabase([w EXCEPT !.member[u] = ts])
             /\ IsDatabase([w EXCEPT !.active = (@ \cup {u}) \ (@ \cap {u})])
  BY DEF IsDatabase
<1> QED
  BY <1>1, <1>2, <1>3, <1>4, <1>5

--------------------------------------------------------------------------------
(* The invariant: what a query found, it found in one of the databases     *)
(* there have been, and what it had to wait for was there before.          *)

FoundInSeen ==
    Asked => \A q \in DOMAIN report.got :
                /\ Before(q) \subseteq DOMAIN report.got
                /\ \E w \in seen : report.got[q] = Found(q, w)

ReportInv ==
    /\ ReportTypeOK
    /\ DOMAIN report = {"kind", "viewer", "at", "got"}
    /\ IsFiniteSet(seen)
    /\ FoundInSeen

\* What a query finds in a database depends on nothing a write changes.
LEMMA FoundKept ==
    ASSUME report'.viewer = report.viewer, report'.at = report.at,
           NEW q, \A p \in Before(q) : report'.got[p] = report.got[p], NEW w
    PROVE  Found(q, w)' = Found(q, w)
<1>1. CASE q = "users"
  BY <1>1 DEF Found, Before
<1>2. CASE q = "tickets"
  BY <1>2 DEF Found, Before
<1>3. CASE q # "users" /\ q # "tickets"
  BY <1>3 DEF Found
<1> QED
  BY <1>1, <1>2, <1>3

\* Before a report is asked for nothing was found.
LEMMA ReportInitInv == ReportInit => ReportInv
<1> SUFFICES ASSUME ReportInit PROVE ReportInv
  OBVIOUS
<1>1. IsDatabase(db) /\ now \in Instants /\ writes \in 0..MaxWrites /\ seen = {}
  BY ReportsAssumption, RulesAssumption DEF ReportInit
<1>2. report = NoReport /\ report.kind = "none"
  BY DEF ReportInit, NoReport
<1>3. DOMAIN report = {"kind", "viewer", "at", "got"}
  BY <1>2 DEF NoReport
<1>4. IsFiniteSet(seen)
  BY <1>1, FS_EmptySet
<1> QED
  BY <1>1, <1>2, <1>3, <1>4 DEF ReportInv, ReportTypeOK, FoundInSeen, Asked

\* A write adds a database, and changes nothing that was found.
LEMMA WriteInv ==
    ASSUME ReportInv, NEW new, IsDatabase(new), Write(new)
    PROVE  ReportInv'
<1>1. /\ ReportTypeOK /\ IsFiniteSet(seen) /\ UNCHANGED <<now, report>>
      /\ db' = new /\ seen' = IF Asked THEN seen \cup {new} ELSE seen
      /\ writes' \in 0..MaxWrites
  BY ReportsAssumption DEF ReportInv, ReportTypeOK, Write
<1>2. ReportTypeOK'
  BY <1>1 DEF ReportTypeOK, Asked
<1>3. IsFiniteSet(seen')
  BY <1>1, FS_AddElement
<1>4. \A q, w : Found(q, w)' = Found(q, w)
  BY <1>1, FoundKept
<1>5. FoundInSeen'
  BY <1>1, <1>4 DEF ReportInv, FoundInSeen, Asked
<1> QED
  BY <1>1, <1>2, <1>3, <1>5 DEF ReportInv

\* The writes of tickets, and requests about them, are writes.
LEMMA TicketWriteInv ==
    ASSUME ReportInv, NEW t \in DOMAIN db.ticket, TicketWrite(t)
    PROVE  ReportInv'
<1>1. /\ IsDatabase(db) /\ now \in Instants /\ now \in Time /\ now \in Nat
      /\ db.ticket[t] \in Ticket /\ t \in Tickets
  BY RulesAssumption DEF ReportInv, ReportTypeOK, IsDatabase, Time
<1>2. ASSUME NEW row \in Ticket, WriteTicket(t, row)
      PROVE  ReportInv'
  BY <1>1, <1>2, DatabaseTypes, WriteInv DEF WriteTicket
<1>3. CASE \E u \in Staff \cup {Nobody} : Assign(t, u)
  BY <1>1, <1>2, <1>3, RowTypes DEF Assign
<1>4. ASSUME NEW team \in Teams, Transfer(t, team)
      PROVE  ReportInv'
  <2>1. PICK u \in Staff \cup {Nobody} :
            WriteTicket(t, [db.ticket[t] EXCEPT !.team = team, !.assignee = u])
    BY <1>1, <1>4 DEF Transfer, Ticket
  <2> QED
    BY <1>1, <1>2, <2>1, RowTypes
<1>5. ASSUME NEW to \in Status, SetStatus(t, to)
      PROVE  ReportInv'
  BY <1>1, <1>2, <1>5, RowTypes DEF SetStatus
<1>6. CASE Respond(t)
  BY <1>1, <1>2, <1>6, RowTypes DEF Respond
<1>7. ASSUME NEW g \in Target, Escalate(t, g)
      PROVE  ReportInv'
  <2> DEFINE c == db.ticket[t].clock[g]
  <2>1. c \in Clock
    BY <1>1 DEF Ticket
  <2>2. PICK st \in SlaState : st = Escalated(g, c.state, c.due, now)
    BY <1>1, <2>1, ClockTypes
  <2>3. WriteTicket(t, [db.ticket[t] EXCEPT !.clock[g].state = st])
    BY <1>7, <2>2 DEF Escalate
  <2> QED
    BY <1>1, <1>2, <2>3, RowTypes
<1>8. CASE TrashOrRestore(t)
  BY <1>1, <1>2, <1>8, RowTypes DEF TrashOrRestore
<1>9. ASSUME NEW i \in RequestIds, NEW u \in Agents, CreateRequest(i, t, u)
      PROVE  ReportInv'
  <2>1. PICK r \in Request : r = [ticket |-> t, by |-> u, status |-> "PENDING",
                                  created |-> now, closed |-> NoTime]
    BY <1>1 DEF Request, RequestStatus, Staff, Time
  <2>2. r.ticket = t
    BY <2>1
  <2>3. Write([db EXCEPT !.request = [x \in DOMAIN @ \cup {i} |-> IF x # i THEN @[x] ELSE r]])
    BY <1>9, <2>1 DEF CreateRequest
  <2>4. IsDatabase([db EXCEPT !.request = [x \in DOMAIN @ \cup {i} |->
                                              IF x # i THEN @[x] ELSE r]])
    BY <1>1, <2>2, DatabaseTypes
  <2> QED
    BY <2>3, <2>4, WriteInv
<1> QED
  BY <1>3, <1>4, <1>5, <1>6, <1>7, <1>8, <1>9 DEF TicketWrite

\* New tickets, decisions on requests and changes of people are writes.
LEMMA OtherWriteInv ==
    ASSUME ReportInv,
           \/ \E t \in Tickets, team \in Teams \cup {NoTeam} : CreateTicket(t, team)
           \/ \E i \in DOMAIN db.request, st \in RequestStatus \ {"PENDING"} : CloseRequest(i, st)
           \/ \E u \in Staff : PeopleWrite(u)
    PROVE  ReportInv'
<1>1. IsDatabase(db) /\ now \in Instants /\ now \in Time /\ now \in Nat
  BY RulesAssumption DEF ReportInv, ReportTypeOK, IsDatabase, Time
<1>2. ASSUME NEW t \in Tickets, NEW team \in Teams \cup {NoTeam}, CreateTicket(t, team)
      PROVE  ReportInv'
  <2>1. PICK row \in Ticket :
            row = [team |-> team, assignee |-> Nobody, status |-> "OPEN", created |-> now,
                   clock |-> [g \in Target |-> StartedClock(g, now)], deleted |-> FALSE]
    BY <1>1, ClockTypes DEF Ticket, Status
  <2>2. Write([db EXCEPT !.ticket = [x \in DOMAIN @ \cup {t} |-> IF x # t THEN @[x] ELSE row]])
    BY <1>2, <2>1 DEF CreateTicket
  <2>3. IsDatabase([db EXCEPT !.ticket = [x \in DOMAIN @ \cup {t} |->
                                             IF x # t THEN @[x] ELSE row]])
    BY <1>1, DatabaseTypes
  <2> QED
    BY <2>2, <2>3, WriteInv
<1>3. ASSUME NEW i \in DOMAIN db.request, NEW st \in RequestStatus, CloseRequest(i, st)
      PROVE  ReportInv'
  <2>1. IsDatabase([db EXCEPT !.request[i].status = st, !.request[i].closed = now])
    BY <1>1, DatabaseTypes
  <2> QED
    BY <1>3, <2>1, WriteInv DEF CloseRequest
<1>4. ASSUME NEW u \in Staff, PeopleWrite(u)
      PROVE  ReportInv'
  <2>1. CASE \E ts \in SUBSET Teams : SetTeams(u, ts)
    BY <1>1, <2>1, DatabaseTypes, WriteInv DEF SetTeams
  <2>2. CASE SetActive(u)
    BY <1>1, <2>2, DatabaseTypes, WriteInv DEF SetActive
  <2> QED
    BY <1>4, <2>1, <2>2 DEF PeopleWrite
<1> QED
  BY <1>2, <1>3, <1>4

\* A query finds what it finds in the database there is.
LEMMA RunInv ==
    ASSUME ReportInv, Asked, NEW q \in Queries(report.kind), Run(q)
    PROVE  ReportInv'
<1> DEFINE more == [x \in DOMAIN report.got \cup {q} |->
                       IF x = q THEN Found(q, db) ELSE report.got[x]]
<1>1. /\ ReportTypeOK /\ DOMAIN report = {"kind", "viewer", "at", "got"} /\ FoundInSeen
      /\ q \notin DOMAIN report.got /\ Before(q) \subseteq DOMAIN report.got
      /\ UNCHANGED <<db, now, seen, writes>> /\ report' = [report EXCEPT !.got = more]
  BY DEF ReportInv, Run
<1>2. /\ report'.kind = report.kind /\ report'.viewer = report.viewer
      /\ report'.at = report.at /\ DOMAIN report' = DOMAIN report
      /\ DOMAIN report'.got = DOMAIN report.got \cup {q}
      /\ report'.got[q] = Found(q, db)
      /\ \A p \in DOMAIN report.got : report'.got[p] = report.got[p]
  BY <1>1
<1>3. ReportTypeOK'
  BY <1>1, <1>2 DEF ReportTypeOK, Asked
<1>4. \A p, w : Before(p) \subseteq DOMAIN report.got => Found(p, w)' = Found(p, w)
  BY <1>2, FoundKept
<1>5. ASSUME NEW p \in DOMAIN report.got \cup {q}
      PROVE  /\ Before(p) \subseteq DOMAIN report.got
             /\ \E w \in seen : report'.got[p] = Found(p, w)'
  <2>1. CASE p = q
    BY <1>1, <1>2, <1>4, <2>1 DEF ReportTypeOK, Asked
  <2>2. CASE p # q
    BY <1>1, <1>2, <1>4, <2>2 DEF FoundInSeen
  <2> QED
    BY <2>1, <2>2
<1>6. FoundInSeen'
  BY <1>1, <1>2, <1>5 DEF FoundInSeen
<1> QED
  BY <1>1, <1>2, <1>3, <1>6 DEF ReportInv

\* Every step keeps the invariant.
LEMMA ReportStepInv ==
    ASSUME ReportInv, [ReportNext]_reportVars
    PROVE  ReportInv'
<1>1. CASE UNCHANGED reportVars
  <2>1. \A q, w : Found(q, w)' = Found(q, w)
    BY <1>1, FoundKept DEF reportVars
  <2> QED
    BY <1>1, <2>1 DEF reportVars, ReportInv, ReportTypeOK, FoundInSeen, Asked
<1>2. ASSUME NEW v \in Staff, NEW kind \in Kinds, AskFor(v, kind)
      PROVE  ReportInv'
  <2>1. /\ report' = [kind |-> kind, viewer |-> v, at |-> now, got |-> <<>>]
        /\ seen' = {db} /\ UNCHANGED <<db, now, writes>> /\ ReportTypeOK
    BY <1>2 DEF AskFor, ReportInv
  <2>2. DOMAIN report'.got = {} /\ DOMAIN report' = {"kind", "viewer", "at", "got"}
    BY <2>1
  <2>3. IsFiniteSet(seen')
    BY <2>1, FS_Singleton
  <2>4. ReportTypeOK'
    BY <2>1, <2>2 DEF ReportTypeOK
  <2> QED
    BY <2>2, <2>3, <2>4 DEF ReportInv, FoundInSeen
<1>3. CASE Asked /\ \E q \in Queries(report.kind) : Run(q)
  BY <1>3, RunInv
<1>4. CASE Close
  <2>1. /\ report' = NoReport /\ report'.kind = "none" /\ seen' = {}
        /\ UNCHANGED <<db, now, writes>> /\ ReportTypeOK
        /\ DOMAIN report' = {"kind", "viewer", "at", "got"}
    BY <1>4 DEF Close, NoReport, ReportInv
  <2>2. ReportTypeOK' /\ IsFiniteSet(seen')
    BY <2>1, FS_EmptySet DEF ReportTypeOK
  <2> QED
    BY <2>1, <2>2 DEF ReportInv, FoundInSeen, Asked
<1>5. CASE \E t \in DOMAIN db.ticket : TicketWrite(t)
  BY <1>5, TicketWriteInv
<1>6. CASE \/ \E t \in Tickets, team \in Teams \cup {NoTeam} : CreateTicket(t, team)
           \/ \E i \in DOMAIN db.request, st \in RequestStatus \ {"PENDING"} :
                 CloseRequest(i, st)
           \/ \E u \in Staff : PeopleWrite(u)
  BY <1>6, OtherWriteInv
<1>7. CASE Tick
  <2>1. now' \in Instants /\ UNCHANGED <<db, report, seen, writes>> /\ ReportTypeOK
    BY <1>7 DEF Tick, ReportInv
  <2>2. \A q, w : Found(q, w)' = Found(q, w)
    BY <2>1, FoundKept
  <2>3. ReportTypeOK'
    BY <2>1 DEF ReportTypeOK
  <2> QED
    BY <2>1, <2>2, <2>3 DEF ReportInv, FoundInSeen, Asked
<1> QED
  BY <1>1, <1>2, <1>3, <1>4, <1>5, <1>6, <1>7 DEF ReportNext

(* What a report has found, it found in databases there were while it was   *)
(* put together, however many writes there are between its queries.         *)
THEOREM ReportsInvariant == ReportSpec => []ReportInv
<1> QED
  BY ReportInitInv, ReportStepInv, PTL DEF ReportSpec

(* The rows the reports read, and the report under way, are typed.          *)
THEOREM ReportsTypeCorrect == ReportSpec => []ReportTypeOK
<1>1. ReportInv => ReportTypeOK
  BY DEF ReportInv
<1> QED
  BY <1>1, ReportsInvariant, PTL

--------------------------------------------------------------------------------
(* What the queries select is what the report is on *)

\* buildScopeWhere selects what the roles' rules allow, one ticket at a time.
LEMMA SelectedRows ==
    ASSUME NEW w, IsDatabase(w), report.viewer \in Staff
    PROVE  /\ Scope(report.viewer, w) = ReportOn(w)
           /\ OpenIn(ReportOn(w), w) = OpenOf(w)
           /\ {t \in OpenOf(w) : w.ticket[t].assignee = Nobody} = UnassignedOf(w)
           /\ \A st : InState(OpenOf(w), w, st) = TroubledOf(w, st)
<1>1. /\ w.ticket \in [DOMAIN w.ticket -> Ticket] /\ w.member[report.viewer] \subseteq Teams
      /\ \A t \in DOMAIN w.ticket : w.ticket[t].status \in Status
  BY DEF IsDatabase, Ticket
<1>2. Scope(report.viewer, w) = ReportOn(w)
  <2>1. CASE report.viewer \in Admins
    BY <2>1 DEF Scope, ReportOn, Live
  <2>2. CASE report.viewer \notin Admins
    BY <1>1, <2>2 DEF Scope, ReportOn, Live, Has, Triage
  <2> QED
    BY <2>1, <2>2
<1>3. ReportOn(w) \subseteq DOMAIN w.ticket
  BY DEF ReportOn, Live, Has, Triage
<1>4. OpenIn(ReportOn(w), w) = OpenOf(w)
  BY <1>1, <1>3 DEF OpenIn, OpenOf, OpenStatuses, ResolvedStatuses, Status
<1>5. {t \in OpenOf(w) : w.ticket[t].assignee = Nobody} = UnassignedOf(w)
  BY DEF UnassignedOf
<1>6. \A st : InState(OpenOf(w), w, st) = TroubledOf(w, st)
  BY DEF InState, TroubledOf
<1> QED
  BY <1>2, <1>4, <1>5, <1>6

\* So does requestTicketFilter.
LEMMA SelectedRequests ==
    ASSUME NEW w, IsDatabase(w), NEW at, at = report.at
    PROVE  /\ Requests(report.viewer, w, TRUE, {"PENDING"}) = PendingOf(w)
           /\ \A st : Decided(report.viewer, at, w, {st}) = DecidedOf(w, st)
           /\ Decided(report.viewer, at, w, {"APPROVED", "REJECTED"})
                  = DecidedOf(w, "APPROVED") \cup DecidedOf(w, "REJECTED")
<1>1. \A i \in DOMAIN w.request : w.request[i].ticket \in DOMAIN w.ticket
  BY DEF IsDatabase
<1>2. Requests(report.viewer, w, TRUE, {"PENDING"}) = PendingOf(w)
  BY <1>1 DEF Requests, PendingOf, RequestsOf, Live
<1>3. \A st : Decided(report.viewer, at, w, {st}) = DecidedOf(w, st)
  BY <1>1 DEF Decided, Requests, DecidedOf, RequestsOf
<1>4. Decided(report.viewer, at, w, {"APPROVED", "REJECTED"})
          = DecidedOf(w, "APPROVED") \cup DecidedOf(w, "REJECTED")
  BY <1>1 DEF Decided, Requests, DecidedOf, RequestsOf
<1> QED
  BY <1>2, <1>3, <1>4

\* A database holds finitely many rows.
LEMMA FiniteRows ==
    ASSUME NEW w, IsDatabase(w)
    PROVE  /\ IsFiniteSet(DOMAIN w.ticket) /\ IsFiniteSet(DOMAIN w.request)
           /\ ReportOn(w) \subseteq DOMAIN w.ticket /\ OpenOf(w) \subseteq ReportOn(w)
           /\ IsFiniteSet(ReportOn(w)) /\ IsFiniteSet(OpenOf(w))
           /\ IsFiniteSet(UnassignedOf(w)) /\ \A st : IsFiniteSet(TroubledOf(w, st))
<1>1. IsFiniteSet(DOMAIN w.ticket) /\ IsFiniteSet(DOMAIN w.request)
  BY ReportsAssumption, FS_Subset DEF IsDatabase
<1>2. ReportOn(w) \subseteq DOMAIN w.ticket /\ OpenOf(w) \subseteq ReportOn(w)
  BY DEF ReportOn, Live, Has, Triage, OpenOf
<1>3. IsFiniteSet(ReportOn(w)) /\ IsFiniteSet(OpenOf(w))
  BY <1>1, <1>2, FS_Subset
<1>4. UnassignedOf(w) \subseteq OpenOf(w) /\ \A st : TroubledOf(w, st) \subseteq OpenOf(w)
  BY DEF UnassignedOf, TroubledOf
<1>5. IsFiniteSet(UnassignedOf(w)) /\ \A st : IsFiniteSet(TroubledOf(w, st))
  BY <1>3, <1>4, FS_Subset
<1> QED
  BY <1>1, <1>2, <1>3, <1>5

--------------------------------------------------------------------------------
(* The figures of one database *)

\* The counts by status, zeros filled in.
LEMMA StatusFigures ==
    ASSUME NEW S, IsFiniteSet(S), NEW w
    PROVE  ZeroFilled(GroupBy([t \in S |-> w.ticket[t].status]), Status) = TrueStatuses(S, w)
<1> DEFINE key == [t \in S |-> w.ticket[t].status]
<1>1. \A st : Tally(S, key, st) = Cardinality({t \in S : w.ticket[t].status = st})
  <2> TAKE st
  <2>1. {t \in S : key[t] = st} = {t \in S : w.ticket[t].status = st}
    OBVIOUS
  <2> QED
    BY <2>1 DEF Tally
<1>2. DOMAIN key = S
  OBVIOUS
<1> HIDE DEF key
<1>3. \A st : Get(GroupBy(key), st) = Tally(S, key, st)
  BY <1>2, GetOfGroups
<1>4. ZeroFilled(GroupBy(key), Status) = TrueStatuses(S, w)
  BY <1>1, <1>3 DEF ZeroFilled, TrueStatuses
<1> QED
  BY <1>4 DEF key

\* Open and pending tickets are those that are not resolved.
LEMMA OpenFigure ==
    ASSUME NEW w, IsDatabase(w), NEW groups,
           groups = GroupBy([t \in ReportOn(w) |-> w.ticket[t].status])
    PROVE  Get(groups, "OPEN") + Get(groups, "PENDING") = Cardinality(OpenOf(w))
<1> DEFINE key == [t \in ReportOn(w) |-> w.ticket[t].status]
<1>1. {t \in ReportOn(w) : key[t] \in {"OPEN", "PENDING"}} = OpenOf(w)
  <2>1. \A t \in ReportOn(w) : w.ticket[t].status \in Status
    BY FiniteRows DEF IsDatabase, Ticket
  <2> QED
    BY <2>1 DEF OpenOf, ResolvedStatuses, Status
<1>2. DOMAIN key = ReportOn(w) /\ IsFiniteSet(ReportOn(w)) /\ groups = GroupBy(key)
  BY FiniteRows
<1>3. TallyIn(ReportOn(w), key, {"OPEN", "PENDING"}) = Cardinality(OpenOf(w))
  BY <1>1 DEF TallyIn
<1> HIDE DEF key
<1>4. \A st : Get(groups, st) = Tally(ReportOn(w), key, st)
  BY <1>2, GetOfGroups
<1>5. TallyIn(ReportOn(w), key, {"OPEN", "PENDING"})
          = Tally(ReportOn(w), key, "OPEN") + Tally(ReportOn(w), key, "PENDING")
  BY <1>2, TallyFacts
<1> QED
  BY <1>3, <1>4, <1>5

\* What toSlaSummary makes of the groups of a target.
LEMMA SlaFigures ==
    ASSUME NEW w, IsDatabase(w), NEW g \in Target
    PROVE  SlaSummary(GroupBy([t \in Due(ReportOn(w), w, g) |-> w.ticket[t].clock[g].state]))
               = TrueSla(w, g)
<1> DEFINE P == Due(ReportOn(w), w, g)
           key == [t \in P |-> w.ticket[t].clock[g].state]
           by == ZeroFilled(GroupBy(key), SlaState)
           Planned(sts) == {t \in P : w.ticket[t].clock[g].state \in sts}
<1>1. P \subseteq ReportOn(w) /\ IsFiniteSet(P) /\ DOMAIN key = P
  BY FiniteRows, FS_Subset DEF Due
<1>2. Range(key) \subseteq SlaState
  <2>1. \A t \in P : w.ticket[t].clock[g].state \in SlaState
    BY <1>1, FiniteRows DEF IsDatabase, Ticket, Clock
  <2> QED
    BY <2>1 DEF Range
<1>3. \A st : Cardinality(Planned({st})) = Tally(P, key, st)
  <2> TAKE st
  <2>1. Planned({st}) = {t \in P : key[t] = st}
    OBVIOUS
  <2> QED
    BY <2>1 DEF Tally
<1>4. Cardinality(Planned({"MET", "BREACHED"})) = TallyIn(P, key, {"MET", "BREACHED"})
  <2>1. Planned({"MET", "BREACHED"}) = {t \in P : key[t] \in {"MET", "BREACHED"}}
    OBVIOUS
  <2> QED
    BY <2>1 DEF TallyIn
<1>5. TrueSla(w, g) =
          [by |-> [st \in SlaState |-> Cardinality(Planned({st}))], applicable |-> Cardinality(P),
           completed |-> Cardinality(Planned({"MET", "BREACHED"})),
           met |-> Pct(Cardinality(Planned({"MET"})), Cardinality(Planned({"MET", "BREACHED"})))]
  BY DEF TrueSla, Due
<1> HIDE DEF P, key, Planned
<1>6. /\ by = [st \in SlaState |-> Tally(P, key, st)]
      /\ Sum(by) = Cardinality(P)
  <2>1. \A st : Get(GroupBy(key), st) = Tally(P, key, st)
    BY <1>1, GetOfGroups
  <2>2. IsFiniteSet(SlaState)
    <3>1. IsFiniteSet({"ON_TRACK"} \cup {"AT_RISK"})
      BY FS_Singleton, FS_AddElement
    <3>2. IsFiniteSet({"MET"} \cup {"BREACHED"})
      BY FS_Singleton, FS_AddElement
    <3>3. SlaState = ({"ON_TRACK"} \cup {"AT_RISK"}) \cup ({"MET"} \cup {"BREACHED"})
      BY DEF SlaState
    <3> QED
      BY <3>1, <3>2, <3>3, FS_Union
  <2>3. Sum(ZeroFilled(GroupBy(key), SlaState)) = Cardinality(P)
    BY <1>1, <1>2, <2>2, SumOfGroups
  <2> QED
    BY <2>1, <2>3 DEF ZeroFilled
<1>7. TallyIn(P, key, {"MET", "BREACHED"}) = Tally(P, key, "MET") + Tally(P, key, "BREACHED")
  BY <1>1, TallyFacts
<1>8. by["MET"] = Tally(P, key, "MET") /\ by["BREACHED"] = Tally(P, key, "BREACHED")
  BY <1>6 DEF SlaState
<1>9. SlaSummary(GroupBy(key)) =
          [by |-> by, applicable |-> Sum(by), completed |-> by["MET"] + by["BREACHED"],
           met |-> Pct(by["MET"], by["MET"] + by["BREACHED"])]
  BY DEF SlaSummary
<1> HIDE DEF by
<1>10. SlaSummary(GroupBy(key)) = TrueSla(w, g)
  BY <1>3, <1>4, <1>5, <1>6, <1>7, <1>8, <1>9
<1> QED
  BY <1>10 DEF key, P

--------------------------------------------------------------------------------
(* Every figure was right *)

\* What a query of the report under way found, in one of the databases seen.
LEMMA AloneFound ==
    ASSUME ReportInv, Asked, NEW q \in DOMAIN report.got, q # "users", q # "tickets"
    PROVE  \E w \in seen : /\ IsDatabase(w) /\ report.viewer \in Staff
                          /\ report.got[q] = Select(q, report.viewer, report.at, w)
<1>1. PICK w \in seen : report.got[q] = Found(q, w)
  BY DEF ReportInv, FoundInSeen
<1>2. IsDatabase(w) /\ report.viewer \in Staff
  BY DEF ReportInv, ReportTypeOK, Asked
<1> QED
  BY <1>1, <1>2 DEF Found

\* Each figure of the overview, by its query.
LEMMA OverviewTrue ==
    ASSUME ReportInv, Done, report.kind = "overview"
    PROVE  WasTrue(Overview(report.got), TrueOverview)
<1> DEFINE g == report.got
           names == {"byStatus", "byResponse", "byResolution", "created", "resolved",
                     "unassigned"}
<1>1. Asked /\ names = DOMAIN g
  BY DEF Done, Queries
<1>2. \A q \in names : \E w \in seen :
         IsDatabase(w) /\ report.viewer \in Staff /\ g[q] = Select(q, report.viewer, report.at, w)
  BY <1>1, AloneFound
<1>3. \E w \in seen : /\ Overview(g).countsByStatus = TrueOverview(w).countsByStatus
                     /\ Overview(g).open = TrueOverview(w).open
  <2>1. PICK w \in seen :
           /\ IsDatabase(w) /\ report.viewer \in Staff
           /\ g["byStatus"] = Select("byStatus", report.viewer, report.at, w)
    BY <1>2
  <2>2. g["byStatus"] = GroupBy([t \in ReportOn(w) |-> w.ticket[t].status])
    BY <2>1, SelectedRows DEF Select
  <2>3. ZeroFilled(g["byStatus"], Status) = TrueStatuses(ReportOn(w), w)
    BY <2>1, <2>2, StatusFigures, FiniteRows
  <2>4. Get(g["byStatus"], "OPEN") + Get(g["byStatus"], "PENDING") = Cardinality(OpenOf(w))
    BY <2>1, <2>2, OpenFigure
  <2> QED
    BY <2>3, <2>4 DEF Overview, TrueOverview
<1>4. \E w \in seen : Overview(g).created = TrueOverview(w).created
  <2>1. PICK w \in seen :
           /\ IsDatabase(w) /\ report.viewer \in Staff
           /\ g["created"] = Select("created", report.viewer, report.at, w)
    BY <1>2
  <2>2. g["created"] = Cardinality({t \in ReportOn(w) : InWindow(w.ticket[t].created, report.at)})
    BY <2>1, SelectedRows DEF Select
  <2> QED
    BY <2>2 DEF Overview, TrueOverview
<1>5. \E w \in seen : Overview(g).resolved = TrueOverview(w).resolved
  <2>1. PICK w \in seen :
           /\ IsDatabase(w) /\ report.viewer \in Staff
           /\ g["resolved"] = Select("resolved", report.viewer, report.at, w)
    BY <1>2
  <2>2. g["resolved"] = Cardinality({t \in ReportOn(w) :
                            InWindow(w.ticket[t].clock["RESOLUTION"].stopped, report.at)})
    BY <2>1, SelectedRows DEF Select
  <2> QED
    BY <2>2 DEF Overview, TrueOverview
<1>6. \E w \in seen : Overview(g).unassigned = TrueOverview(w).unassigned
  <2>1. PICK w \in seen :
           /\ IsDatabase(w) /\ report.viewer \in Staff
           /\ g["unassigned"] = Select("unassigned", report.viewer, report.at, w)
    BY <1>2
  <2>2. g["unassigned"] = Cardinality({t \in ReportOn(w) : w.ticket[t].assignee = Nobody})
    BY <2>1, SelectedRows DEF Select
  <2> QED
    BY <2>2 DEF Overview, TrueOverview
<1>7. \E w \in seen : Overview(g).firstResponseSla = TrueOverview(w).firstResponseSla
  <2>1. PICK w \in seen :
           /\ IsDatabase(w) /\ report.viewer \in Staff
           /\ g["byResponse"] = Select("byResponse", report.viewer, report.at, w)
    BY <1>2
  <2>2. g["byResponse"] = GroupBy([t \in Due(ReportOn(w), w, "FIRST_RESPONSE") |->
                                     w.ticket[t].clock["FIRST_RESPONSE"].state])
    BY <2>1, SelectedRows DEF Select
  <2>3. SlaSummary(g["byResponse"]) = TrueSla(w, "FIRST_RESPONSE")
    BY <2>1, <2>2, SlaFigures DEF Target
  <2> QED
    BY <2>3 DEF Overview, TrueOverview
<1>8. \E w \in seen : Overview(g).resolutionSla = TrueOverview(w).resolutionSla
  <2>1. PICK w \in seen :
           /\ IsDatabase(w) /\ report.viewer \in Staff
           /\ g["byResolution"] = Select("byResolution", report.viewer, report.at, w)
    BY <1>2
  <2>2. g["byResolution"] = GroupBy([t \in Due(ReportOn(w), w, "RESOLUTION") |->
                                       w.ticket[t].clock["RESOLUTION"].state])
    BY <2>1, SelectedRows DEF Select
  <2>3. SlaSummary(g["byResolution"]) = TrueSla(w, "RESOLUTION")
    BY <2>1, <2>2, SlaFigures DEF Target
  <2> QED
    BY <2>3 DEF Overview, TrueOverview
<1>9. DOMAIN Overview(g) = {"countsByStatus", "open", "created", "resolved", "unassigned",
                            "firstResponseSla", "resolutionSla"}
  BY DEF Overview
<1> HIDE DEF g
<1>10. \A f \in DOMAIN Overview(g) : \E w \in seen : Overview(g)[f] = TrueOverview(w)[f]
  BY <1>3, <1>4, <1>5, <1>6, <1>7, <1>8, <1>9
<1> QED
  BY <1>10 DEF WasTrue, g

ByTeam(S, w) == GroupBy([t \in S |-> w.ticket[t].team])

\* The groups of the teams sum to the rows.
LEMMA TeamTotal ==
    ASSUME NEW S, IsFiniteSet(S), NEW w
    PROVE  Sum(ByTeam(S, w)) = Cardinality(S)
<1> DEFINE key == [t \in S |-> w.ticket[t].team]
<1>1. DOMAIN key = S
  OBVIOUS
<1> HIDE DEF key
<1>2. Sum(GroupBy(key)) = Cardinality(S)
  BY <1>1, SumOfGroups
<1> QED
  BY <1>2 DEF key, ByTeam

\* When the rows S were created, and their ages.
Births(row, S) == {row[t].created : t \in S}
Ages(row, S, at) == {at - row[t].created : t \in S}

\* The age of the oldest row, or none.
LEMMA AgeFigure ==
    ASSUME NEW S, NEW row, \A t \in S : row[t].created \in Nat, NEW at \in Nat,
           NEW oldest, oldest = Least(Births(row, S))
    PROVE  (IF oldest = NoTime THEN NoTime ELSE at - oldest)
               = IF S = {} THEN NoTime ELSE Max(Ages(row, S, at))
<1> DEFINE C == Births(row, S)
           D == Ages(row, S, at)
<1>1. C \in SUBSET Nat /\ (C = {} <=> S = {}) /\ D = {at - c : c \in C} /\ oldest = Least(C)
  BY DEF Births, Ages
<1> HIDE DEF C, D
<1>2. CASE S = {}
  BY <1>1, <1>2 DEF Least
<1>3. CASE S # {}
  <2>1. oldest = Min(C) /\ at - Min(C) = Max(D)
    BY <1>1, <1>3, OldestIsFurthest DEF Least
  <2>2. Min(C) \in Nat
    <3>1. PICK m \in C : \A c \in C : m <= c
      <4>1. PICK m \in C : \A c \in C : <<c, m>> \notin OpToRel(<, Nat)
        BY <1>1, <1>3, NatLessThanWellFounded, WFMin
      <4>2. \A c \in C : ~(c < m)
        BY <1>1, <4>1 DEF OpToRel
      <4> QED
        BY <1>1, <4>2
    <3> QED
      BY <1>1, <3>1 DEF Min
  <2>3. oldest # NoTime
    BY <2>1, <2>2, RulesAssumption
  <2> QED
    BY <1>3, <2>1, <2>3 DEF D
<1> QED
  BY <1>2, <1>3 DEF D

\* Each figure of the queue report, by its query.
LEMMA QueueTrue ==
    ASSUME ReportInv, Done, report.kind = "queue"
    PROVE  WasTrue(Queue(report.got), TrueQueue)
<1> DEFINE g == report.got
           names == {"openByTeam", "unassignedByTeam", "atRiskByTeam", "breachedByTeam",
                     "openByStatus", "oldest"}
<1>1. Asked /\ names = DOMAIN g
  BY DEF Done, Queries
<1>2. \A q \in names : \E w \in seen :
         IsDatabase(w) /\ report.viewer \in Staff /\ g[q] = Select(q, report.viewer, report.at, w)
  BY <1>1, AloneFound
<1>3. \E w \in seen : Queue(g).open = TrueQueue(w).open
  <2>1. PICK w \in seen :
           /\ IsDatabase(w) /\ report.viewer \in Staff
           /\ g["openByTeam"] = Select("openByTeam", report.viewer, report.at, w)
    BY <1>2
  <2>2. g["openByTeam"] = ByTeam(OpenOf(w), w)
    BY <2>1, SelectedRows DEF Select, ByTeam
  <2>3. Sum(g["openByTeam"]) = Cardinality(OpenOf(w))
    BY <2>1, <2>2, TeamTotal, FiniteRows
  <2> QED
    BY <2>3 DEF Queue, TrueQueue
<1>4. \E w \in seen : Queue(g).unassigned = TrueQueue(w).unassigned
  <2>1. PICK w \in seen :
           /\ IsDatabase(w) /\ report.viewer \in Staff
           /\ g["unassignedByTeam"] = Select("unassignedByTeam", report.viewer, report.at, w)
    BY <1>2
  <2>2. g["unassignedByTeam"] = ByTeam(UnassignedOf(w), w)
    BY <2>1, SelectedRows DEF Select, ByTeam
  <2>3. Sum(g["unassignedByTeam"]) = Cardinality(UnassignedOf(w))
    BY <2>1, <2>2, TeamTotal, FiniteRows
  <2> QED
    BY <2>3 DEF Queue, TrueQueue
<1>5. \E w \in seen : Queue(g).atRisk = TrueQueue(w).atRisk
  <2>1. PICK w \in seen :
           /\ IsDatabase(w) /\ report.viewer \in Staff
           /\ g["atRiskByTeam"] = Select("atRiskByTeam", report.viewer, report.at, w)
    BY <1>2
  <2>2. g["atRiskByTeam"] = ByTeam(TroubledOf(w, "AT_RISK"), w)
    BY <2>1, SelectedRows DEF Select, ByTeam
  <2>3. Sum(g["atRiskByTeam"]) = Cardinality(TroubledOf(w, "AT_RISK"))
    BY <2>1, <2>2, TeamTotal, FiniteRows
  <2> QED
    BY <2>3 DEF Queue, TrueQueue
<1>6. \E w \in seen : Queue(g).breached = TrueQueue(w).breached
  <2>1. PICK w \in seen :
           /\ IsDatabase(w) /\ report.viewer \in Staff
           /\ g["breachedByTeam"] = Select("breachedByTeam", report.viewer, report.at, w)
    BY <1>2
  <2>2. g["breachedByTeam"] = ByTeam(TroubledOf(w, "BREACHED"), w)
    BY <2>1, SelectedRows DEF Select, ByTeam
  <2>3. Sum(g["breachedByTeam"]) = Cardinality(TroubledOf(w, "BREACHED"))
    BY <2>1, <2>2, TeamTotal, FiniteRows
  <2> QED
    BY <2>3 DEF Queue, TrueQueue
<1>7. \E w \in seen : Queue(g).countsByStatus = TrueQueue(w).countsByStatus
  <2>1. PICK w \in seen :
           /\ IsDatabase(w) /\ report.viewer \in Staff
           /\ g["openByStatus"] = Select("openByStatus", report.viewer, report.at, w)
    BY <1>2
  <2>2. g["openByStatus"] = GroupBy([t \in OpenOf(w) |-> w.ticket[t].status])
    BY <2>1, SelectedRows DEF Select
  <2>3. ZeroFilled(g["openByStatus"], Status) = TrueStatuses(OpenOf(w), w)
    BY <2>1, <2>2, StatusFigures, FiniteRows
  <2> QED
    BY <2>3 DEF Queue, TrueQueue
<1>8. \E w \in seen : Queue(g).oldest = TrueQueue(w).oldest
  <2>1. PICK w \in seen :
           /\ IsDatabase(w) /\ report.viewer \in Staff
           /\ g["oldest"] = Select("oldest", report.viewer, report.at, w)
    BY <1>2
  <2>2. g["oldest"] = Least(Births(w.ticket, OpenOf(w)))
    BY <2>1, SelectedRows DEF Select, Births
  <2>3. \A t \in OpenOf(w) : w.ticket[t].created \in Nat
    BY <2>1, FiniteRows DEF IsDatabase, Ticket
  <2>4. report.at \in Nat
    BY <1>1, RulesAssumption DEF ReportInv, ReportTypeOK, Asked
  <2>5. (IF g["oldest"] = NoTime THEN NoTime ELSE report.at - g["oldest"])
            = IF OpenOf(w) = {} THEN NoTime
              ELSE Max(Ages(w.ticket, OpenOf(w), report.at))
    BY <2>2, <2>3, <2>4, AgeFigure
  <2> QED
    BY <2>5 DEF Queue, TrueQueue, Ages
<1>9. DOMAIN Queue(g) = {"open", "unassigned", "atRisk", "breached", "countsByStatus", "oldest"}
  BY DEF Queue
<1> HIDE DEF g
<1>10. \A f \in DOMAIN Queue(g) : \E w \in seen : Queue(g)[f] = TrueQueue(w)[f]
  BY <1>3, <1>4, <1>5, <1>6, <1>7, <1>8, <1>9
<1> QED
  BY <1>10 DEF WasTrue, g

\* Each figure on assignment requests, by its query.
LEMMA RequestsTrue ==
    ASSUME ReportInv, Done, report.kind = "requests"
    PROVE  WasTrue(RequestFigures(report.got), TrueRequests)
<1> DEFINE g == report.got
           names == {"pending", "approved", "rejected", "cancelled", "reviewed", "oldestPending"}
<1>1. Asked /\ names = DOMAIN g
  BY DEF Done, Queries
<1>2. \A q \in names : \E w \in seen :
         IsDatabase(w) /\ report.viewer \in Staff /\ g[q] = Select(q, report.viewer, report.at, w)
  BY <1>1, AloneFound
<1>3. \E w \in seen : RequestFigures(g).pending = TrueRequests(w).pending
  <2>1. PICK w \in seen :
           IsDatabase(w) /\ g["pending"] = Select("pending", report.viewer, report.at, w)
    BY <1>2
  <2>2. g["pending"] = Cardinality(PendingOf(w))
    BY <2>1, SelectedRequests DEF Select
  <2> QED
    BY <2>2 DEF RequestFigures, TrueRequests
<1>4. \E w \in seen : RequestFigures(g).approved = TrueRequests(w).approved
  <2>1. PICK w \in seen :
           IsDatabase(w) /\ g["approved"] = Select("approved", report.viewer, report.at, w)
    BY <1>2
  <2>2. g["approved"] = Cardinality(DecidedOf(w, "APPROVED"))
    BY <2>1, SelectedRequests DEF Select
  <2> QED
    BY <2>2 DEF RequestFigures, TrueRequests
<1>5. \E w \in seen : RequestFigures(g).rejected = TrueRequests(w).rejected
  <2>1. PICK w \in seen :
           IsDatabase(w) /\ g["rejected"] = Select("rejected", report.viewer, report.at, w)
    BY <1>2
  <2>2. g["rejected"] = Cardinality(DecidedOf(w, "REJECTED"))
    BY <2>1, SelectedRequests DEF Select
  <2> QED
    BY <2>2 DEF RequestFigures, TrueRequests
<1>6. \E w \in seen : RequestFigures(g).cancelled = TrueRequests(w).cancelled
  <2>1. PICK w \in seen :
           IsDatabase(w) /\ g["cancelled"] = Select("cancelled", report.viewer, report.at, w)
    BY <1>2
  <2>2. g["cancelled"] = Cardinality(DecidedOf(w, "CANCELLED"))
    BY <2>1, SelectedRequests DEF Select
  <2> QED
    BY <2>2 DEF RequestFigures, TrueRequests
<1>7. \E w \in seen : RequestFigures(g).reviewed = TrueRequests(w).reviewed
  <2>1. PICK w \in seen :
           IsDatabase(w) /\ g["reviewed"] = Select("reviewed", report.viewer, report.at, w)
    BY <1>2
  <2>2. g["reviewed"] = ReviewTimes(w, DecidedOf(w, "APPROVED") \cup DecidedOf(w, "REJECTED"))
    BY <2>1, SelectedRequests DEF Select
  <2> QED
    BY <2>2 DEF RequestFigures, TrueRequests
<1>8. \E w \in seen : RequestFigures(g).oldest = TrueRequests(w).oldest
  <2>1. PICK w \in seen :
           /\ IsDatabase(w)
           /\ g["oldestPending"] = Select("oldestPending", report.viewer, report.at, w)
    BY <1>2
  <2>2. g["oldestPending"] = Least(Births(w.request, PendingOf(w)))
    BY <2>1, SelectedRequests DEF Select, Births
  <2>3. \A i \in PendingOf(w) : w.request[i].created \in Nat
    BY <2>1 DEF IsDatabase, Request, PendingOf, RequestsOf
  <2>4. report.at \in Nat
    BY <1>1, RulesAssumption DEF ReportInv, ReportTypeOK, Asked
  <2>5. (IF g["oldestPending"] = NoTime THEN NoTime ELSE report.at - g["oldestPending"])
            = IF PendingOf(w) = {} THEN NoTime
              ELSE Max(Ages(w.request, PendingOf(w), report.at))
    BY <2>2, <2>3, <2>4, AgeFigure
  <2> QED
    BY <2>5 DEF RequestFigures, TrueRequests, Ages
<1>9. DOMAIN RequestFigures(g)
          = {"pending", "approved", "rejected", "cancelled", "reviewed", "oldest"}
  BY DEF RequestFigures
<1> HIDE DEF g
<1>10. \A f \in DOMAIN RequestFigures(g) : \E w \in seen :
          RequestFigures(g)[f] = TrueRequests(w)[f]
  BY <1>3, <1>4, <1>5, <1>6, <1>7, <1>8, <1>9
<1> QED
  BY <1>10 DEF WasTrue, g

\* Each of a person's own figures, by its query.
LEMMA MeTrue ==
    ASSUME ReportInv, Done, report.kind = "me"
    PROVE  WasTrue(Me(report.got), TrueMe)
<1> DEFINE g == report.got
           v == report.viewer
<1>1. Asked /\ {"mine", "asked", "awaiting"} = DOMAIN g
  BY DEF Done, Queries
<1>2. \A q \in {"mine", "asked", "awaiting"} : \E w \in seen :
         IsDatabase(w) /\ g[q] = Select(q, v, report.at, w)
  BY <1>1, AloneFound
<1>3. \E w \in seen : Me(g).mine = TrueMe(w).mine
  <2>1. PICK w \in seen : g["mine"] = Select("mine", v, report.at, w)
    BY <1>2
  <2>2. AssignedTo({v}, w) = {t \in Live(w) : w.ticket[t].assignee = v}
    BY DEF AssignedTo, Live
  <2>3. Aggregate(g["mine"]) = OwnRow(v, w)
    BY <2>1, <2>2 DEF Select, OwnRow
  <2> QED
    BY <2>3 DEF Me, TrueMe
<1>4. \E w \in seen : Me(g).asked = TrueMe(w).asked
  <2>1. PICK w \in seen : IsDatabase(w) /\ g["asked"] = Select("asked", v, report.at, w)
    BY <1>2
  <2>2. {i \in DOMAIN w.request : /\ w.request[i].by = v /\ w.request[i].status = "PENDING"
                                  /\ ~w.ticket[w.request[i].ticket].deleted}
        = {i \in DOMAIN w.request : /\ w.request[i].by = v /\ w.request[i].status = "PENDING"
                                    /\ w.request[i].ticket \in Live(w)}
    BY <2>1 DEF IsDatabase, Live
  <2>3. g["asked"] = Cardinality({i \in DOMAIN w.request :
                         /\ w.request[i].by = v /\ w.request[i].status = "PENDING"
                         /\ w.request[i].ticket \in Live(w)})
    BY <2>1, <2>2 DEF Select
  <2> QED
    BY <2>3 DEF Me, TrueMe
<1>5. \E w \in seen : Me(g).awaiting = TrueMe(w).awaiting
  <2>1. PICK w \in seen : IsDatabase(w) /\ g["awaiting"] = Select("awaiting", v, report.at, w)
    BY <1>2
  <2>2. g["awaiting"] = IF v \in Agents THEN NoTime ELSE Cardinality(PendingOf(w))
    BY <2>1, SelectedRequests DEF Select
  <2> QED
    BY <2>2 DEF Me, TrueMe
<1>6. DOMAIN Me(g) = {"mine", "asked", "awaiting"}
  BY DEF Me
<1> HIDE DEF g
<1>7. \A f \in DOMAIN Me(g) : \E w \in seen : Me(g)[f] = TrueMe(w)[f]
  BY <1>3, <1>4, <1>5, <1>6
<1> QED
  BY <1>7 DEF WasTrue, g

\* The rows of the agents, in the one database their tickets were found in.
LEMMA AgentRowsFound ==
    ASSUME ReportInv, Done, report.kind = "agents"
    PROVE  /\ \E w \in seen :
                 /\ IsDatabase(w)
                 /\ report.got["tickets"] = Restrict(w.ticket, AssignedTo(report.got["users"], w))
           /\ \E w, x \in seen :
                 /\ IsDatabase(w)
                 /\ report.got["teams"] = x.member[report.viewer]
                 /\ report.got["users"] = ReportedStaff(report.viewer, w, report.got["teams"])
<1>1. Asked /\ {"teams", "users", "tickets"} = DOMAIN report.got
  BY DEF Done, Queries
<1>2. \A q \in DOMAIN report.got : \E w \in seen : IsDatabase(w) /\ report.got[q] = Found(q, w)
  BY <1>1 DEF ReportInv, FoundInSeen, ReportTypeOK
<1>3. PICK w \in seen : IsDatabase(w) /\ report.got["tickets"] = Found("tickets", w)
  BY <1>1, <1>2
<1>4. PICK w1 \in seen : IsDatabase(w1) /\ report.got["users"] = Found("users", w1)
  BY <1>1, <1>2
<1>5. PICK x \in seen : report.got["teams"] = Found("teams", x)
  BY <1>1, <1>2
<1>6. report.got["tickets"] = Restrict(w.ticket, AssignedTo(report.got["users"], w))
  BY <1>3 DEF Found
<1>7. report.got["users"] = ReportedStaff(report.viewer, w1, report.got["teams"])
  BY <1>4 DEF Found
<1>8. report.got["teams"] = x.member[report.viewer]
  BY <1>5 DEF Found, Select
<1> QED
  BY <1>3, <1>4, <1>6, <1>7, <1>8

\* The row of a listed user holds what is theirs in that database.
LEMMA AgentRow ==
    ASSUME NEW w, IsDatabase(w), NEW g, NEW u \in g["users"],
           g["tickets"] = Restrict(w.ticket, AssignedTo(g["users"], w))
    PROVE  AgentRows(g)[u] = OwnRow(u, w)
<1> DEFINE T == {t \in DOMAIN g["tickets"] : g["tickets"][t].assignee = u}
           L == {t \in Live(w) : w.ticket[t].assignee = u}
<1>1. T = L /\ \A t \in T : g["tickets"][t] = w.ticket[t]
  BY DEF Restrict, AssignedTo, Live
<1>2. Restrict(g["tickets"], T) = Restrict(w.ticket, L)
  BY <1>1 DEF Restrict
<1>3. AgentRows(g)[u] = Aggregate(Restrict(g["tickets"], T))
  BY DEF AgentRows
<1> HIDE DEF T
<1> QED
  BY <1>2, <1>3 DEF OwnRow

\* The rows of the agents are all from one moment.
LEMMA AgentsTrue ==
    ASSUME ReportInv, Done, report.kind = "agents"
    PROVE  LET table == AgentRows(report.got)
           IN  /\ \E w \in seen : \A u \in DOMAIN table : table[u] = OwnRow(u, w)
               /\ \A u \in DOMAIN table : \E w, x \in seen : Listed(u, w, x)
<1> DEFINE g == report.got
<1>1. DOMAIN AgentRows(g) = g["users"]
  BY DEF AgentRows
<1>2. \E w \in seen : \A u \in g["users"] : AgentRows(g)[u] = OwnRow(u, w)
  BY AgentRowsFound, AgentRow
<1>3. \A u \in g["users"] : \E w, x \in seen : Listed(u, w, x)
  BY AgentRowsFound DEF ReportedStaff, Listed
<1> QED
  BY <1>1, <1>2, <1>3

(* Every figure of the five reports was right at some moment between the   *)
(* request and its answer, whatever is written meanwhile: in the scope of  *)
(* the viewer for the overview, the queue and the requests, over all       *)
(* tickets of a person for oneself and the agents (ReportsService).        *)
THEOREM FiguresTheorem == ReportSpec => []FiguresWereTrue
<1>1. ReportInv => FiguresWereTrue
  <2> SUFFICES ASSUME ReportInv, Done PROVE FiguresWereTrue
    BY DEF FiguresWereTrue
  <2> QED
    BY OverviewTrue, QueueTrue, RequestsTrue, MeTrue, AgentsTrue DEF FiguresWereTrue
<1> QED
  BY <1>1, ReportsInvariant, PTL

--------------------------------------------------------------------------------
(* A report nobody wrote under adds up *)

\* Without a write the report saw the database there is.
LEMMA QuietSeen ==
    ASSUME ReportInv, Done, Cardinality(seen) = 1
    PROVE  seen = {db} /\ IsDatabase(db) /\ report.viewer \in Staff
<1>1. db \in seen /\ IsFiniteSet(seen) /\ IsDatabase(db) /\ report.viewer \in Staff
  BY DEF ReportInv, ReportTypeOK, Done, Asked
<1>2. PICK x : seen = {x}
  BY <1>1, FS_Singleton
<1> QED
  BY <1>1, <1>2

\* Counted by the teams of all the rows O, the rows S among them add up.
LEMMA TeamColumn ==
    ASSUME NEW O, IsFiniteSet(O), NEW S \in SUBSET O, NEW w
    PROVE  Sum(ZeroFilled(ByTeam(S, w), DOMAIN ByTeam(O, w))) = Cardinality(S)
<1> DEFINE part == [t \in S |-> w.ticket[t].team]
           all == [t \in O |-> w.ticket[t].team]
<1>1. Range(part) \subseteq Range(all) /\ DOMAIN part = S /\ DOMAIN all = O /\ IsFiniteSet(S)
  BY FS_Subset DEF Range
<1> HIDE DEF part, all
<1>2. IsFiniteSet(Range(all))
  BY <1>1, RangeFinite
<1>3. Sum(ZeroFilled(GroupBy(part), Range(all))) = Cardinality(S)
  BY <1>1, <1>2, SumOfGroups
<1>4. DOMAIN GroupBy(all) = Range(all)
  BY DEF GroupBy
<1> QED
  BY <1>3, <1>4 DEF part, all, ByTeam

\* The totals of the queue, and the rows of its teams.
LEMMA QuietQueue ==
    ASSUME ReportInv, Done, Cardinality(seen) = 1, report.kind = "queue"
    PROVE  /\ Assigned(report.got) = Cardinality(OpenOf(db) \ UnassignedOf(db))
           /\ \A c \in {"open", "unassigned", "atRisk", "breached"} :
                 Column(TeamRows(report.got), c) = Queue(report.got)[c]
<1> DEFINE g == report.got
           names == {"openByTeam", "unassignedByTeam", "atRiskByTeam", "breachedByTeam"}
           F == DOMAIN ByTeam(OpenOf(db), db)
<1>1. seen = {db} /\ IsDatabase(db) /\ report.viewer \in Staff
  BY QuietSeen
<1>2. \A q \in names : g[q] = Select(q, report.viewer, report.at, db)
  <2>1. Asked /\ names \subseteq DOMAIN g
    BY DEF Done, Queries
  <2> QED
    BY <1>1, <2>1, AloneFound
<1>3. /\ g["openByTeam"] = ByTeam(OpenOf(db), db)
      /\ g["unassignedByTeam"] = ByTeam(UnassignedOf(db), db)
      /\ g["atRiskByTeam"] = ByTeam(TroubledOf(db, "AT_RISK"), db)
      /\ g["breachedByTeam"] = ByTeam(TroubledOf(db, "BREACHED"), db)
  <2>1. g["openByTeam"] = ByTeam(OpenOf(db), db)
    BY <1>1, <1>2, SelectedRows DEF Select, ByTeam
  <2>2. g["unassignedByTeam"] = ByTeam(UnassignedOf(db), db)
    BY <1>1, <1>2, SelectedRows DEF Select, ByTeam
  <2>3. g["atRiskByTeam"] = ByTeam(TroubledOf(db, "AT_RISK"), db)
    BY <1>1, <1>2, SelectedRows DEF Select, ByTeam
  <2>4. g["breachedByTeam"] = ByTeam(TroubledOf(db, "BREACHED"), db)
    BY <1>1, <1>2, SelectedRows DEF Select, ByTeam
  <2> QED
    BY <2>1, <2>2, <2>3, <2>4
<1>4. /\ IsFiniteSet(OpenOf(db)) /\ IsFiniteSet(UnassignedOf(db))
      /\ \A st : IsFiniteSet(TroubledOf(db, st)) /\ TroubledOf(db, st) \in SUBSET OpenOf(db)
      /\ UnassignedOf(db) \in SUBSET OpenOf(db)
  BY <1>1, FiniteRows DEF UnassignedOf, TroubledOf
<1>5. Assigned(g) = Cardinality(OpenOf(db) \ UnassignedOf(db))
  <2>1. /\ Sum(g["openByTeam"]) = Cardinality(OpenOf(db))
        /\ Sum(g["unassignedByTeam"]) = Cardinality(UnassignedOf(db))
    BY <1>3, <1>4, TeamTotal
  <2>2. PICK O, U : O = OpenOf(db) /\ U = UnassignedOf(db)
    OBVIOUS
  <2>3. Cardinality(O \ U) = Cardinality(O) - Cardinality(O \cap U) /\ O \cap U = U
    BY <1>4, <2>2, FS_Difference
  <2> QED
    BY <2>1, <2>2, <2>3 DEF Assigned
<1>6. DOMAIN g["openByTeam"] = F /\ DOMAIN TeamRows(g) = F
  BY <1>3 DEF TeamRows
<1>7. Column(TeamRows(g), "open") = Sum(g["openByTeam"])
  <2>1. [k \in F |-> TeamRows(g)[k]["open"]] = g["openByTeam"]
    <3>1. g["openByTeam"] = [k \in F |-> g["openByTeam"][k]]
      BY <1>3 DEF ByTeam, GroupBy
    <3>2. \A k \in F : TeamRows(g)[k]["open"] = g["openByTeam"][k]
      BY <1>6 DEF TeamRows
    <3> QED
      BY <3>1, <3>2
  <2> QED
    BY <1>6, <2>1 DEF Column
<1>8. /\ Column(TeamRows(g), "unassigned") = Sum(ZeroFilled(g["unassignedByTeam"], F))
      /\ Column(TeamRows(g), "atRisk") = Sum(ZeroFilled(g["atRiskByTeam"], F))
      /\ Column(TeamRows(g), "breached") = Sum(ZeroFilled(g["breachedByTeam"], F))
  <2>1. /\ [k \in F |-> TeamRows(g)[k]["unassigned"]] = ZeroFilled(g["unassignedByTeam"], F)
        /\ [k \in F |-> TeamRows(g)[k]["atRisk"]] = ZeroFilled(g["atRiskByTeam"], F)
        /\ [k \in F |-> TeamRows(g)[k]["breached"]] = ZeroFilled(g["breachedByTeam"], F)
    BY <1>6 DEF TeamRows, ZeroFilled
  <2> QED
    BY <1>6, <2>1 DEF Column
<1>9. /\ Sum(ZeroFilled(g["unassignedByTeam"], F)) = Sum(g["unassignedByTeam"])
      /\ Sum(ZeroFilled(g["atRiskByTeam"], F)) = Sum(g["atRiskByTeam"])
      /\ Sum(ZeroFilled(g["breachedByTeam"], F)) = Sum(g["breachedByTeam"])
  <2>1. \A S \in SUBSET OpenOf(db) : IsFiniteSet(S) =>
           Sum(ZeroFilled(ByTeam(S, db), F))
               = Sum(ByTeam(S, db))
    BY <1>4, TeamColumn, TeamTotal
  <2> QED
    BY <1>3, <1>4, <2>1
<1>10. /\ Queue(g)["open"] = Sum(g["openByTeam"])
       /\ Queue(g)["unassigned"] = Sum(g["unassignedByTeam"])
       /\ Queue(g)["atRisk"] = Sum(g["atRiskByTeam"])
       /\ Queue(g)["breached"] = Sum(g["breachedByTeam"])
  BY DEF Queue
<1> HIDE DEF g, F
<1>11. \A c \in {"open", "unassigned", "atRisk", "breached"} : Column(TeamRows(g), c) = Queue(g)[c]
  BY <1>7, <1>8, <1>9, <1>10
<1> QED
  BY <1>5, <1>11 DEF g

\* No share exceeds the whole: at most 1000 tenths of a percent.
Share == (0..1000) \cup {NoTime}

LEMMA ShareOfWhole ==
    ASSUME NEW met \in Nat, NEW completed \in Nat, met <= completed
    PROVE  Pct(met, completed) \in Share
<1>1. CASE completed = 0
  BY <1>1 DEF Pct, Share
<1>2. CASE completed # 0
  <2>1. (2000 * met + completed) \div (2 * completed) \in 0..1000
    BY <1>2
  <2> QED
    BY <1>2, <2>1 DEF Pct, Share
<1> QED
  BY <1>1, <1>2

\* A row of aggregateTickets: its open tickets, and its shares.
LEMMA RowFigures ==
    ASSUME NEW r, IsFiniteSet(DOMAIN r)
    PROVE  /\ Aggregate(r).open = Cardinality({t \in DOMAIN r : r[t].status \in OpenStatuses})
           /\ \A g \in Target : Aggregate(r).percent[g] \in Share
<1>1. Aggregate(r).open = Cardinality({t \in DOMAIN r : r[t].status \in OpenStatuses})
  BY DEF Aggregate
<1>2. ASSUME NEW g \in Target
      PROVE  Aggregate(r).percent[g] \in Share
  <2> DEFINE In(sts) == {t \in DOMAIN r : r[t].clock[g].due # NoTime /\ r[t].clock[g].state \in sts}
  <2>1. Aggregate(r).percent[g]
            = Pct(Cardinality(In({"MET"})), Cardinality(In({"MET", "BREACHED"})))
    BY DEF Aggregate
  <2>2. /\ IsFiniteSet(In({"MET"})) /\ IsFiniteSet(In({"MET", "BREACHED"}))
        /\ In({"MET"}) \in SUBSET In({"MET", "BREACHED"})
    BY FS_Subset
  <2> HIDE DEF In
  <2>3. /\ Cardinality(In({"MET"})) \in Nat /\ Cardinality(In({"MET", "BREACHED"})) \in Nat
        /\ Cardinality(In({"MET"})) <= Cardinality(In({"MET", "BREACHED"}))
    BY <2>2, FS_CardinalityType, FS_Subset
  <2>4. Pct(Cardinality(In({"MET"})), Cardinality(In({"MET", "BREACHED"}))) \in Share
    BY <2>3, ShareOfWhole
  <2> QED
    BY <2>1, <2>4
<1> QED
  BY <1>1, <1>2

\* The rows of the agents hold the open tickets of those listed.
LEMMA QuietAgents ==
    ASSUME ReportInv, Done, Cardinality(seen) = 1, report.kind = "agents"
    PROVE  /\ Column(AgentRows(report.got), "open") = Cardinality({t \in Live(db) :
                  /\ db.ticket[t].status \in OpenStatuses
                  /\ db.ticket[t].assignee \in report.got["users"]})
           /\ \A u \in report.got["users"], t \in Target :
                 AgentRows(report.got)[u].percent[t] \in Share
<1> DEFINE g == report.got
           Own(u) == {t \in Live(db) : db.ticket[t].assignee = u}
           D == {t \in Live(db) : db.ticket[t].status \in OpenStatuses}
           key == [t \in D |-> db.ticket[t].assignee]
           f == [u \in g["users"] |-> AgentRows(g)[u]["open"]]
<1>1. seen = {db} /\ IsDatabase(db)
  BY QuietSeen
<1>2. /\ g["tickets"] = Restrict(db.ticket, AssignedTo(g["users"], db))
      /\ g["users"] = ReportedStaff(report.viewer, db, g["teams"])
  BY <1>1, AgentRowsFound
<1>3. IsFiniteSet(g["users"])
  <2>1. g["users"] \in SUBSET Staff
    BY <1>2 DEF ReportedStaff, Staff
  <2> QED
    BY <2>1, ReportsAssumption, FS_Subset
<1>4. IsFiniteSet(Live(db)) /\ IsFiniteSet(D) /\ \A u : IsFiniteSet(Own(u))
  <2>1. IsFiniteSet(Live(db))
    BY <1>1, FiniteRows, FS_Subset DEF Live
  <2> QED
    BY <2>1, FS_Subset
<1>5. ASSUME NEW u \in g["users"]
      PROVE  /\ AgentRows(g)[u]["open"] = Tally(D, key, u)
             /\ \A t \in Target : AgentRows(g)[u].percent[t] \in Share
  <2> DEFINE r == Restrict(db.ticket, Own(u))
  <2>1. AgentRows(g)[u] = Aggregate(r)
    BY <1>1, <1>2, AgentRow DEF OwnRow
  <2>2. DOMAIN r = Own(u) /\ IsFiniteSet(DOMAIN r) /\ \A t \in Own(u) : r[t] = db.ticket[t]
    BY <1>4 DEF Restrict
  <2>3. {t \in DOMAIN r : r[t].status \in OpenStatuses} = {t \in D : key[t] = u}
    BY <2>2
  <2>4. Cardinality({t \in DOMAIN r : r[t].status \in OpenStatuses}) = Tally(D, key, u)
    BY <2>3 DEF Tally
  <2> HIDE DEF r, D, key
  <2> QED
    BY <2>1, <2>2, <2>4, RowFigures
<1>6. TallyIn(D, key, g["users"]) = Cardinality({t \in Live(db) :
          /\ db.ticket[t].status \in OpenStatuses
          /\ db.ticket[t].assignee \in g["users"]})
  <2>1. {t \in D : key[t] \in g["users"]} = {t \in Live(db) :
            /\ db.ticket[t].status \in OpenStatuses
            /\ db.ticket[t].assignee \in g["users"]}
    OBVIOUS
  <2> QED
    BY <2>1 DEF TallyIn
<1>7. Column(AgentRows(g), "open") = Sum(f)
  BY DEF Column, AgentRows
<1>8. Sum(f) = TallyIn(D, key, g["users"])
  <2>1. DOMAIN f = g["users"] /\ \A u \in DOMAIN f : f[u] = Tally(D, key, u)
    BY <1>5
  <2> HIDE DEF f, D, key
  <2> QED
    BY <1>3, <1>4, <2>1, SumOfCounts
<1> HIDE DEF f, D, key
<1>9. Column(AgentRows(g), "open") = Cardinality({t \in Live(db) :
          /\ db.ticket[t].status \in OpenStatuses
          /\ db.ticket[t].assignee \in g["users"]})
  BY <1>6, <1>7, <1>8
<1> QED
  BY <1>5, <1>9

(* A report nobody wrote under adds up: rows to totals, assigned and        *)
(* unassigned to open, and no share exceeds the whole.                      *)
THEOREM QuietTheorem == ReportSpec => []QuietReportAddsUp
<1>1. ReportInv => QuietReportAddsUp
  BY QuietQueue, QuietAgents DEF QuietReportAddsUp, Share
<1> QED
  BY <1>1, ReportsInvariant, PTL
================================================================================
