----------------------------- MODULE RealtimeProofs -----------------------------
(***************************************************************************)
(* Proofs about Realtime: the rooms of the connection, and what the        *)
(* provider remembers, follow the open pages, for any number of rooms,     *)
(* visits and broken connections.                                          *)
(*                                                                         *)
(* The invariant adds the order of the calls on their way: every join of a *)
(* closed page has a leave behind it, and every leave of an open page that *)
(* no earlier visit sent has a join behind it; and what there is without a *)
(* connection.                                                             *)
(***************************************************************************)
EXTENDS Realtime, FiniteSetTheorems, SequenceTheorems, TLAPS

--------------------------------------------------------------------------------
(* Sequences of calls *)

\* A finite set, put in order, is the range of the sequence.
LEMMA SetInOrder ==
    ASSUME NEW S, IsFiniteSet(S)
    PROVE  /\ SetToSeq(S) \in Seq(S)
           /\ \A x \in S : \E i \in 1..Len(SetToSeq(S)) : SetToSeq(S)[i] = x
<1> DEFINE n == Cardinality(S)
           f == SetToSeq(S)
<1>1. n \in Nat /\ ExistsBijection(1..n, S)
  BY FS_CardinalityType
<1>2. \E g \in [1..n -> S] : IsInjective(g)
  BY <1>1 DEF ExistsBijection, Bijection, Injection
<1>3. f \in [1..n -> S] /\ IsInjective(f)
  BY <1>2 DEF SetToSeq
<1>4. f \in Injection(1..n, S)
  BY <1>3 DEF Injection
<1>5. Cardinality(1..n) = Cardinality(S)
  BY <1>1, FS_Interval
<1>6. f \in Surjection(1..n, S)
  BY <1>4, <1>5, FS_Injection
<1>7. \A x \in S : \E i \in 1..n : f[i] = x
  BY <1>6 DEF Surjection
<1> HIDE DEF n, f
<1>8. f \in Seq(S) /\ Len(f) = n
  BY <1>1, <1>3
<1> QED
  BY <1>7, <1>8 DEF f

\* A new connection joins the remembered rooms, and no others.
LEMMA ReplayedCalls ==
    ASSUME NEW R \in SUBSET Rooms
    PROVE  /\ Replayed(R) \in Seq(Call)
           /\ \A i \in 1..Len(Replayed(R)) : \E r \in R : Replayed(R)[i] = Join(r, 0)
           /\ \A r \in R : \E i \in 1..Len(Replayed(R)) : Replayed(R)[i] = Join(r, 0)
<1> DEFINE S == {Join(r, 0) : r \in R}
           f == [r \in R |-> Join(r, 0)]
<1>1. IsFiniteSet(R)
  BY RealtimeAssumption, FS_Subset
<1>2. f \in Surjection(R, S)
  BY DEF Surjection
<1>3. IsFiniteSet(S)
  BY <1>1, <1>2, FS_Surjection
<1>4. S \subseteq Call
  BY DEF Call, Join
<1>5. Replayed(R) = SetToSeq(S)
  BY DEF Replayed
<1> HIDE DEF S
<1>6. /\ Replayed(R) \in Seq(S)
      /\ \A x \in S : \E i \in 1..Len(Replayed(R)) : Replayed(R)[i] = x
  BY <1>3, <1>5, SetInOrder
<1>7. \A i \in 1..Len(Replayed(R)) : Replayed(R)[i] \in S
  BY <1>6, ElementOfSeq
<1>8. Replayed(R) \in Seq(Call)
  BY <1>4, <1>6
<1> QED
  BY <1>6, <1>7, <1>8 DEF S

\* A call put at the end of a queue.
LEMMA QueueEnd ==
    ASSUME NEW q \in Seq(Call), NEW c \in Call
    PROVE  /\ q \o <<c>> \in Seq(Call)
           /\ Len(q) \in Nat /\ DOMAIN q = 1..Len(q)
           /\ DOMAIN (q \o <<c>>) = 1..(Len(q) + 1)
           /\ \A i \in 1..Len(q) : (q \o <<c>>)[i] = q[i]
           /\ (q \o <<c>>)[Len(q) + 1] = c
<1>1. q \o <<c>> = Append(q, c)
  BY AppendIsConcat
<1> QED
  BY <1>1, AppendProperties, LenProperties

\* The call at the head of a queue taken off.
LEMMA QueueHead ==
    ASSUME NEW q \in Seq(Call), q # <<>>
    PROVE  /\ Tail(q) \in Seq(Call)
           /\ Len(q) \in Nat \ {0} /\ DOMAIN q = 1..Len(q)
           /\ DOMAIN Tail(q) = 1..(Len(q) - 1)
           /\ \A i \in 1..(Len(q) - 1) : Tail(q)[i] = q[i + 1]
           /\ Head(q) = q[1] /\ Head(q) \in Call
BY HeadTailProperties, LenProperties, EmptySeq

\* What a longer or shorter queue carries.
LEMMA CarriesEnd ==
    ASSUME NEW q \in Seq(Call), NEW c \in Call, NEW op, NEW r
    PROVE  Carries(q \o <<c>>, op, r) <=> Carries(q, op, r) \/ (c.op = op /\ c.room = r)
<1>1. ASSUME Carries(q \o <<c>>, op, r)
      PROVE  Carries(q, op, r) \/ (c.op = op /\ c.room = r)
  <2>1. PICK i \in 1..(Len(q) + 1) : (q \o <<c>>)[i].op = op /\ (q \o <<c>>)[i].room = r
    BY <1>1, QueueEnd DEF Carries
  <2>2. CASE i = Len(q) + 1
    BY <2>1, <2>2, QueueEnd
  <2>3. CASE i \in 1..Len(q)
    BY <2>1, <2>3, QueueEnd DEF Carries
  <2> QED
    BY <2>2, <2>3, QueueEnd
<1>2. ASSUME Carries(q, op, r)
      PROVE  Carries(q \o <<c>>, op, r)
  <2>1. PICK i \in 1..Len(q) : q[i].op = op /\ q[i].room = r
    BY <1>2, QueueEnd DEF Carries
  <2>2. i \in 1..(Len(q) + 1) /\ (q \o <<c>>)[i] = q[i]
    BY QueueEnd
  <2> QED
    BY <2>1, <2>2, QueueEnd DEF Carries
<1>3. ASSUME c.op = op, c.room = r
      PROVE  Carries(q \o <<c>>, op, r)
  <2>1. Len(q) + 1 \in 1..(Len(q) + 1)
    BY QueueEnd
  <2> QED
    BY <1>3, <2>1, QueueEnd DEF Carries
<1> QED
  BY <1>1, <1>2, <1>3

LEMMA CarriesTail ==
    ASSUME NEW q \in Seq(Call), q # <<>>, NEW op, NEW r, Carries(q, op, r)
    PROVE  Carries(Tail(q), op, r) \/ (Head(q).op = op /\ Head(q).room = r)
<1>1. PICK i \in 1..Len(q) : q[i].op = op /\ q[i].room = r
  BY QueueHead DEF Carries
<1>2. CASE i = 1
  BY <1>1, <1>2, QueueHead
<1>3. CASE i # 1
  <2>1. i - 1 \in 1..(Len(q) - 1) /\ Tail(q)[i - 1] = q[i]
    BY <1>3, QueueHead
  <2> QED
    BY <1>1, <2>1, QueueHead DEF Carries
<1> QED
  BY <1>2, <1>3

--------------------------------------------------------------------------------
(* Types *)

\* Emitting one call keeps the queues typed.
LEMMA EmitType ==
    ASSUME TypeOK, NEW c \in Call, Emit(<<c>>)
    PROVE  waiting' \in Seq(Call) /\ wire' \in Seq(Call)
<1>1. waiting \o <<c>> \in Seq(Call) /\ wire \o <<c>> \in Seq(Call)
  BY QueueEnd DEF TypeOK
<1> QED
  BY <1>1 DEF Emit, TypeOK

LEMMA SettleType ==
    ASSUME TypeOK, NEW v, v \in awaiting, Settle(v)
    PROVE  /\ intended' \subseteq Rooms /\ awaiting' \subseteq Visit
           /\ waiting' \in Seq(Call) /\ wire' \in Seq(Call)
           /\ crossed' \subseteq Rooms
<1>1. v \in Visit /\ Leave(v.room) \in Call
  BY DEF TypeOK, Visit, Leave, Call
<1> QED
  BY <1>1, EmitType DEF Settle, TypeOK

LEMMA BrowseType ==
    ASSUME TypeOK, Browse
    PROVE  TypeOK'
<1>1. ASSUME NEW r \in Rooms, Mount(r)
      PROVE  TypeOK'
  <2>1. mounts[r] + 1 \in Nat
    BY DEF TypeOK
  <2>2. Join(r, mounts[r] + 1) \in Call /\ [room |-> r, visit |-> mounts[r] + 1] \in Visit
    BY <2>1 DEF Join, Call, Visit
  <2>3. waiting' \in Seq(Call) /\ wire' \in Seq(Call)
    BY <1>1, <2>2, EmitType DEF Mount
  <2>4. mounts' \in [Rooms -> Nat]
    BY <1>1, <2>1 DEF Mount, TypeOK
  <2>5. awaiting' \subseteq Visit
    BY <1>1, <2>2 DEF Mount, TypeOK
  <2> QED
    BY <1>1, <2>3, <2>4, <2>5 DEF Mount, TypeOK, server, past
<1>2. ASSUME NEW r \in Rooms, Unmount(r)
      PROVE  TypeOK'
  <2>1. Leave(r) \in Call
    BY DEF Leave, Call
  <2>2. waiting' \in Seq(Call) /\ wire' \in Seq(Call)
    BY <1>2, <2>1, EmitType DEF Unmount
  <2> QED
    BY <1>2, <2>2 DEF Unmount, TypeOK, server
<1> QED
  BY <1>1, <1>2 DEF Browse

LEMMA ProgressType ==
    ASSUME TypeOK, Progress
    PROVE  TypeOK'
<1>1. CASE CreateSocket \/ Handshake
  BY <1>1 DEF CreateSocket, Handshake, TypeOK, client, server, past
<1>2. CASE Connect
  <2>1. Replayed(intended) \in Seq(Call)
    BY ReplayedCalls DEF TypeOK
  <2>2. wire' \in Seq(Call) /\ waiting' \in Seq(Call)
    BY <1>2, <2>1, ConcatProperties, EmptySeq DEF Connect, TypeOK
  <2> QED
    BY <1>2, <2>2 DEF Connect, TypeOK, client, server, past
<1>3. CASE Receive
  <2>1. wire # <<>> /\ wire \in Seq(Call) /\ wire' = Tail(wire)
    BY <1>3 DEF Receive, TypeOK
  <2>2. wire' \in Seq(Call) /\ Head(wire) \in Call
    BY <2>1, QueueHead
  <2>3. [room |-> Head(wire).room, visit |-> Head(wire).visit] \in Visit
    BY <2>2 DEF Call, Visit
  <2>4. deciding' \subseteq Visit /\ acks' \subseteq Visit /\ joined' \subseteq Rooms
    BY <1>3, <2>3 DEF Receive, TypeOK
  <2>5. early' \subseteq Rooms /\ overtaken' \subseteq Visit
    BY <1>3, <2>2 DEF Receive, TypeOK, Call
  <2> QED
    BY <1>3, <2>2, <2>4, <2>5 DEF Receive, TypeOK, client
<1>4. ASSUME NEW v \in Visits, Decide(v)
      PROVE  TypeOK'
  BY <1>4, RealtimeAssumption DEF Decide, TypeOK, client, past
<1>5. ASSUME NEW v \in Visits, Answered(v) \/ TimeOut(v)
      PROVE  TypeOK'
  <2>1. CASE v \in awaiting /\ Settle(v)
    BY <1>5, <2>1, SettleType DEF Answered, TimeOut, TypeOK, server
  <2>2. CASE UNCHANGED <<intended, awaiting, waiting, wire, crossed>>
    BY <1>5, <2>2 DEF Answered, TimeOut, TypeOK, server
  <2> QED
    BY <1>5, <2>1, <2>2 DEF Answered, TimeOut
<1>6. ASSUME NEW r \in Rooms, Refetch(r)
      PROVE  TypeOK'
  BY <1>6 DEF Refetch, TypeOK, client, server, past
<1> QED
  BY <1>1, <1>2, <1>3, <1>4, <1>5, <1>6 DEF Progress

\* A step keeps the types, whatever it is.
LEMMA TypeStep ==
    ASSUME TypeOK, [Next]_vars
    PROVE  TypeOK'
<1>1. CASE Refuse
  BY <1>1, EmptySeq DEF Refuse, TypeOK, client, past
<1>2. CASE Drop
  <2>1. drops' \in 0..MaxDrops
    BY <1>2, RealtimeAssumption DEF Drop, TypeOK
  <2>2. wire' \in Seq(Call)
    BY <1>2, EmptySeq DEF Drop
  <2> QED
    BY <1>2, <2>1, <2>2 DEF Drop, TypeOK, client
<1>3. ASSUME NEW r \in Rooms, Update(r)
      PROVE  TypeOK'
  BY <1>3 DEF Update, TypeOK, client, server, past
<1>4. CASE UNCHANGED vars
  BY <1>4 DEF vars, client, server, past, TypeOK
<1> QED
  BY <1>1, <1>2, <1>3, <1>4, BrowseType, ProgressType DEF Next

LEMMA TypeInit == Init => TypeOK
<1> SUFFICES ASSUME Init PROVE TypeOK
  OBVIOUS
<1>1. waiting \in Seq(Call) /\ wire \in Seq(Call)
  BY EmptySeq DEF Init
<1>2. mounts \in [Rooms -> Nat] /\ drops \in 0..MaxDrops
  BY RealtimeAssumption DEF Init
<1> QED
  BY <1>1, <1>2 DEF Init, TypeOK

(* Every reachable state is typed, whatever joins, leaves, answers and     *)
(* broken connections fall together.                                       *)
THEOREM TypeCorrect == Spec => []TypeOK
<1>1. Init => TypeOK
  BY TypeInit
<1>2. TypeOK /\ [Next]_vars => TypeOK'
  BY TypeStep
<1> QED
  BY <1>1, <1>2, PTL DEF Spec

--------------------------------------------------------------------------------
(* The queues of calls.  The last call of a closed page is a leave, and    *)
(* that of an open page is a join, unless an earlier visit has left it.    *)

\* The pages that are open, and to be left alone.
Held == viewed \ crossed

Follows(q, op, r, i) ==
    \E j \in DOMAIN q : j > i /\ q[j].op = op /\ q[j].room = r

Orderly(q, open, held) ==
    \A i \in DOMAIN q :
        /\ q[i].op = "join" /\ q[i].room \notin open => Follows(q, "leave", q[i].room, i)
        /\ q[i].op = "leave" /\ q[i].room \in held => Follows(q, "join", q[i].room, i)

\* An empty queue is orderly.
LEMMA OrderlyEmpty ==
    ASSUME NEW open, NEW held
    PROVE  Orderly(<<>>, open, held)
BY DEF Orderly

\* A call put at the end settles its room; the others keep theirs.
LEMMA OrderlyEnd ==
    ASSUME NEW q \in Seq(Call), NEW c \in Call, NEW open, NEW held, NEW open2, NEW held2,
           Orderly(q, open, held),
           c.op = "join" => c.room \in open2,
           c.op = "leave" => c.room \notin held2,
           \A r \in Rooms \ {c.room} : (r \in open => r \in open2) /\ (r \in held2 => r \in held)
    PROVE  Orderly(q \o <<c>>, open2, held2)
<1> DEFINE n == Len(q)
           p == q \o <<c>>
<1>1. /\ n \in Nat /\ DOMAIN q = 1..n /\ DOMAIN p = 1..(n + 1)
      /\ \A i \in 1..n : p[i] = q[i]
      /\ p[n + 1] = c
  BY QueueEnd
<1>2. \A i \in 1..n : q[i] \in Call
  BY <1>1, ElementOfSeq
<1> HIDE DEF n, p
<1>3. SUFFICES ASSUME NEW i \in 1..(n + 1)
      PROVE  /\ p[i].op = "join" /\ p[i].room \notin open2 => Follows(p, "leave", p[i].room, i)
             /\ p[i].op = "leave" /\ p[i].room \in held2 => Follows(p, "join", p[i].room, i)
  <2>1. Orderly(p, open2, held2) => Orderly(q \o <<c>>, open2, held2)
    BY DEF p
  <2> QED
    BY <1>1, <2>1 DEF Orderly
<1>4. CASE i = n + 1
  BY <1>1, <1>4
<1>5. CASE i # n + 1
  <2>1. i \in 1..n /\ p[i] = q[i] /\ q[i] \in Call
    BY <1>1, <1>2, <1>3, <1>5
  <2>2. \A op : Follows(q, op, q[i].room, i) => Follows(p, op, q[i].room, i)
    BY <1>1 DEF Follows
  <2>3. CASE q[i].room = c.room
    <3>1. n + 1 \in DOMAIN p /\ n + 1 > i
      BY <1>1, <2>1
    <3>2. Follows(p, c.op, q[i].room, i)
      BY <1>1, <2>3, <3>1 DEF Follows
    <3>3. c.op = "join" \/ c.op = "leave"
      BY DEF Call
    <3> QED
      BY <2>1, <2>3, <3>2, <3>3
  <2>4. CASE q[i].room # c.room
    <3>1. q[i].room \in Rooms
      BY <2>1 DEF Call
    <3>2. /\ q[i].op = "join" /\ q[i].room \notin open => Follows(q, "leave", q[i].room, i)
          /\ q[i].op = "leave" /\ q[i].room \in held => Follows(q, "join", q[i].room, i)
      BY <1>1, <2>1 DEF Orderly
    <3> QED
      BY <2>1, <2>2, <2>4, <3>1, <3>2
  <2> QED
    BY <2>3, <2>4
<1> QED
  BY <1>4, <1>5

\* The head is received: what was to follow it is still there.
LEMMA OrderlyTail ==
    ASSUME NEW q \in Seq(Call), q # <<>>, NEW open, NEW held, Orderly(q, open, held)
    PROVE  /\ Orderly(Tail(q), open, held)
           /\ LET c == Head(q)
              IN  /\ c.op = "join" /\ c.room \notin open => Carries(Tail(q), "leave", c.room)
                  /\ c.op = "leave" /\ c.room \in held => Carries(Tail(q), "join", c.room)
<1> DEFINE n == Len(q) - 1
           p == Tail(q)
<1>1. /\ n \in Nat /\ DOMAIN q = 1..(n + 1) /\ DOMAIN p = 1..n
      /\ \A i \in 1..n : p[i] = q[i + 1] /\ i + 1 \in 1..(n + 1)
      /\ Head(q) = q[1]
      /\ 1 \in 1..(n + 1)
  BY QueueHead
<1> HIDE DEF n, p
<1>2. ASSUME NEW k \in 1..(n + 1), NEW op, NEW r, Follows(q, op, r, k)
      PROVE  \E j \in 1..n : j + 1 > k /\ p[j].op = op /\ p[j].room = r
  <2>1. PICK j \in 1..(n + 1) : j > k /\ q[j].op = op /\ q[j].room = r
    BY <1>1, <1>2 DEF Follows
  <2>2. j - 1 \in 1..n /\ (j - 1) + 1 > k /\ (j - 1) + 1 = j
    BY <1>1, <2>1
  <2>3. p[j - 1] = q[j]
    BY <1>1, <2>2
  <2> QED
    BY <2>1, <2>2, <2>3
<1>3. Orderly(p, open, held)
  <2> SUFFICES ASSUME NEW i \in 1..n
               PROVE  /\ p[i].op = "join" /\ p[i].room \notin open =>
                            Follows(p, "leave", p[i].room, i)
                      /\ p[i].op = "leave" /\ p[i].room \in held =>
                            Follows(p, "join", p[i].room, i)
    BY <1>1 DEF Orderly
  <2>1. p[i] = q[i + 1] /\ i + 1 \in 1..(n + 1) /\ i + 1 \in DOMAIN q
    BY <1>1
  <2>2. ASSUME NEW op, Follows(q, op, p[i].room, i + 1)
        PROVE  Follows(p, op, p[i].room, i)
    <3>1. PICK j \in 1..n : j + 1 > i + 1 /\ p[j].op = op /\ p[j].room = p[i].room
      BY <1>2, <2>1, <2>2
    <3>2. j > i
      BY <1>1, <3>1
    <3> QED
      BY <1>1, <3>1, <3>2 DEF Follows
  <2> QED
    BY <2>1, <2>2 DEF Orderly
<1>4. ASSUME NEW op, NEW r, Follows(q, op, r, 1)
      PROVE  Carries(p, op, r)
  <2>1. PICK j \in 1..n : p[j].op = op /\ p[j].room = r
    BY <1>1, <1>2, <1>4
  <2> QED
    BY <1>1, <2>1 DEF Carries
<1>5. /\ q[1].op = "join" /\ q[1].room \notin open => Carries(p, "leave", q[1].room)
      /\ q[1].op = "leave" /\ q[1].room \in held => Carries(p, "join", q[1].room)
  BY <1>1, <1>4 DEF Orderly
<1> QED
  BY <1>1, <1>3, <1>5 DEF p

\* The replays of open pages come before the calls that waited.
LEMMA OrderlyReplay ==
    ASSUME NEW q \in Seq(Call), NEW R \in SUBSET Rooms, NEW open, R \subseteq open, NEW held,
           Orderly(q, open, held)
    PROVE  /\ Orderly(Replayed(R) \o q, open, held)
           /\ \A r \in R : Carries(Replayed(R) \o q, "join", r)
<1> DEFINE f == Replayed(R)
           m == Len(f)
           n == Len(q)
           p == f \o q
<1>1. /\ f \in Seq(Call)
      /\ \A i \in 1..m : \E r \in R : f[i] = Join(r, 0)
      /\ \A r \in R : \E i \in 1..m : f[i] = Join(r, 0)
  BY ReplayedCalls
<1>2. /\ m \in Nat /\ n \in Nat /\ DOMAIN q = 1..n
      /\ p \in Seq(Call) /\ Len(p) = m + n /\ DOMAIN p = 1..(m + n)
      /\ \A i \in 1..(m + n) : p[i] = IF i <= m THEN f[i] ELSE q[i - m]
  BY <1>1, ConcatProperties, LenProperties
<1>3. \A r : Join(r, 0).op = "join" /\ Join(r, 0).room = r
  BY DEF Join
<1> HIDE DEF f, m, n, p
<1>4. \A i \in 1..m : f[i].op = "join" /\ f[i].room \in open
  BY <1>1, <1>3
<1>5. \A i \in 1..(m + n) : \/ i \in 1..m /\ p[i] = f[i]
                            \/ i - m \in 1..n /\ p[i] = q[i - m]
  BY <1>2
<1>6. Orderly(p, open, held)
  <2> SUFFICES ASSUME NEW i \in 1..(m + n)
               PROVE  /\ p[i].op = "join" /\ p[i].room \notin open =>
                            Follows(p, "leave", p[i].room, i)
                      /\ p[i].op = "leave" /\ p[i].room \in held =>
                            Follows(p, "join", p[i].room, i)
    BY <1>2 DEF Orderly
  <2>1. CASE i \in 1..m /\ p[i] = f[i]
    BY <1>4, <2>1
  <2>2. CASE i - m \in 1..n /\ p[i] = q[i - m]
    <3>1. ASSUME NEW op, NEW r, Follows(q, op, r, i - m)
          PROVE  Follows(p, op, r, i)
      <4>1. PICK j \in 1..n : j > i - m /\ q[j].op = op /\ q[j].room = r
        BY <1>2, <3>1 DEF Follows
      <4>2. m + j \in 1..(m + n) /\ m + j > i /\ ~(m + j <= m) /\ (m + j) - m = j
        BY <1>2, <4>1
      <4>3. p[m + j] = q[j]
        BY <1>2, <4>2
      <4> QED
        BY <1>2, <4>1, <4>2, <4>3 DEF Follows
    <3> QED
      BY <1>2, <2>2, <3>1 DEF Orderly
  <2> QED
    BY <1>5, <2>1, <2>2
<1>7. ASSUME NEW r \in R
      PROVE  Carries(p, "join", r)
  <2>1. PICK i \in 1..m : f[i] = Join(r, 0)
    BY <1>1
  <2>2. i \in 1..(m + n) /\ p[i] = f[i]
    BY <1>2
  <2> QED
    BY <1>2, <1>3, <2>1, <2>2 DEF Carries
<1> QED
  BY <1>6, <1>7 DEF p, f

--------------------------------------------------------------------------------
(* The rooms of a connection *)

\* What there is without a connection, and without a user.
Links ==
    /\ link # "connected" => wire = <<>> /\ joined = {} /\ deciding = {}
    /\ link \in {"none", "connected"} => waiting = <<>>

Queues == Orderly(wire, viewed, Held) /\ Orderly(waiting, viewed, Held)

Remembered == intended = viewed \ crossed /\ crossed \subseteq viewed

\* Without a user there is no lookup and no room.
NobodyYet == ~known => joined = {} /\ deciding = {}

\* A room that is or will be joined for a closed page is left again, or was
\* looked up for nobody.
Sitting ==
    /\ \A r \in joined \ viewed :
          Carries(wire, "leave", r) \/ \E v \in awaiting \cup overtaken : v.room = r
    /\ \A v \in deciding : v.room \notin viewed =>
          Carries(wire, "leave", v.room) \/ \E w \in awaiting \cup overtaken : w.room = v.room

Missing ==
    link = "connected" =>
       \A r \in (viewed \cap MayJoin) \ (joined \cup early \cup crossed) :
          Carries(wire, "join", r) \/ \E v \in deciding : v.room = r

Connection == Links /\ Queues /\ Remembered /\ Sitting /\ Missing

RoomsInv == TypeOK /\ Connection

\* A call is put where calls go, and settles its room.
LEMMA EmitCall ==
    ASSUME RoomsInv, NEW c \in Call, Emit(<<c>>), NEW open2, NEW held2,
           c.op = "join" => c.room \in open2,
           c.op = "leave" => c.room \notin held2,
           \A r \in Rooms \ {c.room} : (r \in viewed => r \in open2) /\ (r \in held2 => r \in Held)
    PROVE  /\ Orderly(wire', open2, held2) /\ Orderly(waiting', open2, held2)
           /\ link # "connected" => wire' = <<>>
           /\ link \in {"none", "connected"} => waiting' = <<>>
           /\ link = "connected" => Carries(wire', c.op, c.room)
           /\ \A op, r : Carries(wire, op, r) => Carries(wire', op, r)
<1>1. wire \in Seq(Call) /\ waiting \in Seq(Call)
  BY DEF RoomsInv, TypeOK
<1>2. /\ link # "connected" => wire = <<>>
      /\ link \in {"none", "connected"} => waiting = <<>>
  BY DEF RoomsInv, Connection, Links
<1>3. Orderly(<<>>, open2, held2)
  BY OrderlyEmpty
<1>4. /\ Orderly(wire \o <<c>>, open2, held2)
      /\ Orderly(waiting \o <<c>>, open2, held2)
  BY <1>1, OrderlyEnd DEF RoomsInv, Connection, Queues
<1>5. \A op, r : Carries(wire \o <<c>>, op, r) <=>
                   Carries(wire, op, r) \/ (c.op = op /\ c.room = r)
  BY <1>1, CarriesEnd
<1>6. CASE link = "none"
  BY <1>2, <1>3, <1>6 DEF Emit
<1>7. CASE link = "connected"
  <2>1. wire' = wire \o <<c>> /\ waiting' = <<>>
    BY <1>2, <1>7 DEF Emit
  <2> QED
    BY <1>3, <1>4, <1>5, <1>7, <2>1
<1>8. CASE link # "none" /\ link # "connected"
  <2>1. waiting' = waiting \o <<c>> /\ wire' = wire /\ wire = <<>>
    BY <1>2, <1>8 DEF Emit
  <2> QED
    BY <1>3, <1>4, <1>8, <2>1
<1> QED
  BY <1>6, <1>7, <1>8

\* A page opens: its join is behind every leave.
LEMMA MountStep ==
    ASSUME RoomsInv, NEW r \in Rooms, Mount(r)
    PROVE  Connection'
<1> DEFINE c == Join(r, mounts[r] + 1)
<1>1. c \in Call /\ c.op = "join" /\ c.room = r
  BY DEF Join, Call, RoomsInv, TypeOK
<1>2. /\ viewed' = viewed \cup {r} /\ intended' = intended \cup {r} /\ r \notin viewed
      /\ Emit(<<c>>) /\ awaiting \subseteq awaiting'
      /\ UNCHANGED <<link, deciding, joined, early, overtaken, crossed>>
  BY DEF Mount, server, past
<1> HIDE DEF c
<1>3. PICK held2 : held2 = Held'
  OBVIOUS
<1>4. \A q \in Rooms \ {r} : q \in held2 => q \in Held
  BY <1>2, <1>3 DEF Held
<1>5. /\ Orderly(wire', viewed', held2) /\ Orderly(waiting', viewed', held2)
      /\ link # "connected" => wire' = <<>>
      /\ link \in {"none", "connected"} => waiting' = <<>>
      /\ link = "connected" => Carries(wire', "join", r)
      /\ \A op, q : Carries(wire, op, q) => Carries(wire', op, q)
  BY <1>1, <1>2, <1>4, EmitCall
<1>6. Links' /\ Queues'
  BY <1>2, <1>3, <1>5 DEF RoomsInv, Connection, Links, Queues
<1>7. Remembered'
  BY <1>2 DEF RoomsInv, Connection, Remembered
<1>8. Sitting'
  BY <1>2, <1>5 DEF RoomsInv, Connection, Sitting
<1>9. Missing'
  BY <1>2, <1>5 DEF RoomsInv, Connection, Missing
<1> QED
  BY <1>6, <1>7, <1>8, <1>9 DEF Connection

\* A page closes: its leave is behind every join.
LEMMA UnmountStep ==
    ASSUME RoomsInv, NEW r \in Rooms, Unmount(r)
    PROVE  Connection'
<1>1. Leave(r) \in Call /\ Leave(r).op = "leave" /\ Leave(r).room = r
  BY DEF Leave, Call
<1>2. /\ viewed' = viewed \ {r} /\ intended' = intended \ {r} /\ crossed' = crossed \ {r}
      /\ Emit(<<Leave(r)>>)
      /\ UNCHANGED <<link, deciding, joined, awaiting, early, overtaken>>
  BY DEF Unmount, server
<1>3. PICK held2 : held2 = Held'
  OBVIOUS
<1>4. r \notin held2 /\ \A q \in Rooms \ {r} : q \in held2 => q \in Held
  BY <1>2, <1>3 DEF Held
<1>5. /\ Orderly(wire', viewed', held2) /\ Orderly(waiting', viewed', held2)
      /\ link # "connected" => wire' = <<>>
      /\ link \in {"none", "connected"} => waiting' = <<>>
      /\ link = "connected" => Carries(wire', "leave", r)
      /\ \A op, q : Carries(wire, op, q) => Carries(wire', op, q)
  BY <1>1, <1>2, <1>4, EmitCall
<1>6. Links' /\ Queues'
  BY <1>2, <1>3, <1>5 DEF RoomsInv, Connection, Links, Queues
<1>7. Remembered'
  BY <1>2 DEF RoomsInv, Connection, Remembered
<1>8. Sitting'
  BY <1>2, <1>5 DEF RoomsInv, Connection, Sitting, Links
<1>9. Missing'
  BY <1>2, <1>5 DEF RoomsInv, Connection, Missing
<1> QED
  BY <1>6, <1>7, <1>8, <1>9 DEF Connection

\* A visit's promise settles: answered or timed out.
LEMMA SettleStep ==
    ASSUME RoomsInv, NEW v, v \in awaiting, Settle(v),
           UNCHANGED <<viewed, link, deciding, joined, early, overtaken>>
    PROVE  Connection'
<1>1. /\ v.room \in Rooms /\ Leave(v.room) \in Call
      /\ Leave(v.room).op = "leave" /\ Leave(v.room).room = v.room
  BY DEF RoomsInv, TypeOK, Visit, Leave, Call
<1>2. awaiting' = awaiting \ {v}
  BY DEF Settle
<1>3. CASE Cancelled(v)
  <2>1. /\ intended' = intended \ {v.room} /\ Emit(<<Leave(v.room)>>)
        /\ crossed' = crossed \cup ({v.room} \cap viewed)
    BY <1>3 DEF Settle
  <2>2. PICK held2 : held2 = Held'
    OBVIOUS
  <2>3. v.room \notin held2 /\ \A q \in Rooms \ {v.room} : q \in held2 => q \in Held
    BY <2>1, <2>2 DEF Held
  <2>4. /\ Orderly(wire', viewed, held2) /\ Orderly(waiting', viewed, held2)
        /\ link # "connected" => wire' = <<>>
        /\ link \in {"none", "connected"} => waiting' = <<>>
        /\ link = "connected" => Carries(wire', "leave", v.room)
        /\ \A op, q : Carries(wire, op, q) => Carries(wire', op, q)
    BY <1>1, <2>1, <2>3, EmitCall
  <2>5. Links' /\ Queues'
    BY <2>2, <2>4 DEF RoomsInv, Connection, Links, Queues
  <2>6. Remembered'
    BY <2>1 DEF RoomsInv, Connection, Remembered
  <2>7. Sitting'
    BY <1>2, <2>4 DEF RoomsInv, Connection, Sitting, Links
  <2>8. Missing'
    BY <2>1, <2>4 DEF RoomsInv, Connection, Missing
  <2> QED
    BY <2>5, <2>6, <2>7, <2>8 DEF Connection
<1>4. CASE ~Cancelled(v)
  <2>1. v.room \in viewed /\ UNCHANGED <<intended, wire, waiting, crossed>>
    BY <1>4 DEF Cancelled, Settle
  <2>2. Links' /\ Queues' /\ Remembered' /\ Missing'
    BY <2>1 DEF RoomsInv, Connection, Links, Queues, Held, Remembered, Missing
  <2>3. Sitting'
    BY <1>2, <2>1 DEF RoomsInv, Connection, Sitting
  <2> QED
    BY <2>2, <2>3 DEF Connection
<1> QED
  BY <1>3, <1>4

\* The gateway takes the first message off the wire: the join of a closed
\* page has its leave behind it, the leave of an open page its join.
LEMMA ReceiveStep ==
    ASSUME RoomsInv, Receive
    PROVE  Connection'
<1> DEFINE m == Head(wire)
           v == [room |-> m.room, visit |-> m.visit]
           late == {w \in deciding \ awaiting : w.room = m.room}
<1>1. /\ link = "connected" /\ wire # <<>> /\ wire' = Tail(wire)
      /\ UNCHANGED <<viewed, intended, link, waiting, awaiting, crossed>>
  BY DEF Receive, client
<1>2. wire \in Seq(Call) /\ m \in Call
  BY <1>1, QueueHead DEF RoomsInv, TypeOK
<1>3. m.op = "join" \/ m.op = "leave"
  BY <1>2 DEF Call
<1>4. v.room = m.room
  OBVIOUS
<1>5. /\ m.op = "join" /\ known => deciding' = deciding \cup {v} /\ early' = early \ {m.room}
      /\ m.op = "join" /\ ~known => deciding' = deciding /\ early' = early \cup {m.room}
      /\ m.op = "join" => UNCHANGED <<joined, overtaken>>
      /\ m.op = "leave" => /\ joined' = joined \ {m.room}
                           /\ overtaken' = {w \in overtaken : w.room # m.room} \cup late
                           /\ UNCHANGED <<deciding, early>>
  BY DEF Receive
<1>6. \A op, r : Carries(wire, op, r) => Carries(Tail(wire), op, r) \/ (m.op = op /\ m.room = r)
  BY <1>1, <1>2, CarriesTail
<1>7. /\ Orderly(Tail(wire), viewed, Held)
      /\ m.op = "join" /\ m.room \notin viewed => Carries(Tail(wire), "leave", m.room)
      /\ m.op = "leave" /\ m.room \in Held => Carries(Tail(wire), "join", m.room)
  BY <1>1, <1>2, OrderlyTail DEF RoomsInv, Connection, Queues
<1>8. waiting = <<>>
  BY <1>1 DEF RoomsInv, Connection, Links
<1>9. \A w \in late : w.room = m.room
  OBVIOUS
<1>10. \A w \in deciding : w.room = m.room => w \in awaiting \/ w \in late
  OBVIOUS
<1> HIDE DEF m, v, late
<1>11. Links' /\ Queues' /\ Remembered'
  BY <1>1, <1>7, <1>8, OrderlyEmpty DEF RoomsInv, Connection, Links, Queues, Held, Remembered
<1>12. CASE m.op = "join"
  <2>1. \A r : Carries(wire, "leave", r) => Carries(Tail(wire), "leave", r)
    BY <1>6, <1>12
  <2>2. Sitting'
    BY <1>1, <1>4, <1>5, <1>7, <1>12, <2>1 DEF RoomsInv, Connection, Sitting
  <2>3. Missing'
    BY <1>1, <1>4, <1>5, <1>6, <1>12 DEF RoomsInv, Connection, Missing
  <2> QED
    BY <1>11, <2>2, <2>3 DEF Connection
<1>13. CASE m.op = "leave"
  <2>1. /\ joined' = joined \ {m.room} /\ UNCHANGED <<deciding, early>>
        /\ overtaken' = {w \in overtaken : w.room # m.room} \cup late
    BY <1>5, <1>13
  <2>2. \A r : r # m.room => (Carries(wire, "leave", r) => Carries(Tail(wire), "leave", r))
    BY <1>6
  <2>3. \A w \in overtaken : w.room # m.room => w \in overtaken'
    BY <2>1
  <2>4. \A r \in joined' \ viewed :
          Carries(wire', "leave", r) \/ \E w \in awaiting \cup overtaken' : w.room = r
    BY <1>1, <2>1, <2>2, <2>3 DEF RoomsInv, Connection, Sitting
  <2>5. ASSUME NEW w \in deciding, w.room \notin viewed
        PROVE  Carries(wire', "leave", w.room)
                 \/ \E u \in awaiting \cup overtaken' : u.room = w.room
    <3>1. CASE w.room = m.room
      BY <1>10, <2>1, <3>1
    <3>2. CASE w.room # m.room
      BY <1>1, <2>2, <2>3, <2>5, <3>2 DEF RoomsInv, Connection, Sitting
    <3> QED
      BY <3>1, <3>2
  <2>6. Sitting'
    BY <1>1, <2>1, <2>4, <2>5 DEF Sitting
  <2>7. \A r : Carries(wire, "join", r) => Carries(Tail(wire), "join", r)
    BY <1>6, <1>13
  <2>8. Missing'
    BY <1>1, <1>7, <1>13, <2>1, <2>7 DEF RoomsInv, Connection, Missing, Held
  <2> QED
    BY <1>11, <2>6, <2>8 DEF Connection
<1> QED
  BY <1>3, <1>12, <1>13

LEMMA DecideStep ==
    ASSUME RoomsInv, NEW v, Decide(v)
    PROVE  Connection'
<1>1. /\ v \in deciding /\ deciding' = deciding \ {v}
      /\ joined' = IF v.room \in MayJoin THEN joined \cup {v.room} ELSE joined
      /\ UNCHANGED <<viewed, intended, link, waiting, wire, awaiting, early, overtaken, crossed>>
  BY DEF Decide, client, past
<1>2. link = "connected"
  BY <1>1 DEF RoomsInv, Connection, Links
<1>3. Links' /\ Queues' /\ Remembered'
  BY <1>1, <1>2 DEF RoomsInv, Connection, Links, Queues, Held, Remembered
<1>4. Sitting' /\ Missing'
  BY <1>1 DEF RoomsInv, Connection, Sitting, Missing
<1> QED
  BY <1>3, <1>4 DEF Connection

\* A new connection carries a join of every room that is remembered.
LEMMA ConnectStep ==
    ASSUME RoomsInv, Connect
    PROVE  Connection'
<1>1. /\ link = "connecting" /\ link' = "connected" /\ waiting' = <<>>
      /\ wire' = Replayed(intended) \o waiting
      /\ UNCHANGED <<viewed, intended, awaiting, deciding, joined, early, overtaken, crossed>>
  BY DEF Connect, client, server, past
<1>2. /\ intended \in SUBSET Rooms /\ waiting \in Seq(Call)
      /\ intended = Held /\ intended \subseteq viewed
      /\ Orderly(waiting, viewed, Held)
      /\ joined = {} /\ deciding = {}
  BY <1>1 DEF RoomsInv, TypeOK, Connection, Remembered, Held, Queues, Links
<1>3. /\ Orderly(wire', viewed, Held)
      /\ \A r \in intended : Carries(wire', "join", r)
  BY <1>1, <1>2, OrderlyReplay
<1>4. Links' /\ Queues' /\ Remembered' /\ Sitting'
  BY <1>1, <1>2, <1>3, OrderlyEmpty
     DEF RoomsInv, Connection, Links, Queues, Held, Remembered, Sitting
<1>5. Missing'
  BY <1>1, <1>2, <1>3 DEF Missing, Held
<1> QED
  BY <1>4, <1>5 DEF Connection

\* The connection breaks, or the server ends it.
LEMMA BreakStep ==
    ASSUME RoomsInv, Drop \/ (Refuse /\ joined = {})
    PROVE  Connection'
<1>1. /\ link = "connected" /\ link' # "connected" /\ link' # "none"
      /\ wire' = <<>> /\ deciding' = {} /\ joined' = {}
      /\ UNCHANGED <<viewed, intended, waiting, awaiting, crossed>>
  BY DEF Drop, Refuse, client, past
<1>2. waiting = <<>>
  BY <1>1 DEF RoomsInv, Connection, Links
<1>3. Links' /\ Queues' /\ Remembered' /\ Sitting' /\ Missing'
  BY <1>1, <1>2, OrderlyEmpty
     DEF RoomsInv, Connection, Links, Queues, Remembered, Sitting, Missing
<1> QED
  BY <1>3 DEF Connection

\* A step that moves no call and changes no room.
LEMMA OtherStep ==
    ASSUME RoomsInv,
           UNCHANGED <<viewed, intended, waiting, wire, awaiting, deciding, joined, past>>,
           UNCHANGED link \/ (link = "none" /\ link' = "connecting")
    PROVE  Connection'
<1>1. Queues' /\ Remembered' /\ Sitting'
  BY DEF RoomsInv, Connection, Queues, Held, Remembered, Sitting, past
<1>2. Links' /\ Missing'
  BY DEF RoomsInv, Connection, Links, Missing, past
<1> QED
  BY <1>1, <1>2 DEF Connection

LEMMA RoomsStep ==
    ASSUME RoomsInv, NobodyYet, [Next]_vars
    PROVE  RoomsInv'
<1>1. TypeOK'
  BY TypeStep DEF RoomsInv
<1> SUFFICES Connection'
  BY <1>1 DEF RoomsInv
<1>2. CASE Browse
  BY <1>2, MountStep, UnmountStep DEF Browse
<1>3. CASE Receive \/ Connect \/ Drop
  BY <1>3, ReceiveStep, ConnectStep, BreakStep
<1>4. CASE Refuse
  BY <1>4, BreakStep DEF Refuse, NobodyYet
<1>5. ASSUME NEW v \in Visits, Decide(v) \/ Answered(v) \/ TimeOut(v)
      PROVE  Connection'
  <2>1. CASE Decide(v)
    BY <2>1, DecideStep
  <2>2. CASE v \in awaiting /\ (Answered(v) \/ TimeOut(v))
    BY <2>2, SettleStep DEF Answered, TimeOut, server
  <2>3. CASE v \notin awaiting /\ (Answered(v) \/ TimeOut(v))
    BY <2>3, OtherStep DEF Answered, TimeOut, server, past
  <2> QED
    BY <1>5, <2>1, <2>2, <2>3
<1>6. CASE CreateSocket \/ Handshake
  BY <1>6, OtherStep DEF CreateSocket, Handshake, client, server
<1>7. ASSUME NEW r \in Rooms, Refetch(r) \/ Update(r)
      PROVE  Connection'
  BY <1>7, OtherStep DEF Refetch, Update, client, server
<1>8. CASE UNCHANGED vars
  BY <1>8, OtherStep DEF vars, client, server
<1> QED
  BY <1>2, <1>3, <1>4, <1>5, <1>6, <1>7, <1>8 DEF Next, Progress

LEMMA NobodyStep ==
    ASSUME NobodyYet, [Next]_vars
    PROVE  NobodyYet'
<1>1. CASE Receive
  BY <1>1 DEF Receive, NobodyYet, client
<1>2. ASSUME NEW v \in Visits, Decide(v) \/ Answered(v) \/ TimeOut(v)
      PROVE  NobodyYet'
  BY <1>2 DEF Decide, Answered, TimeOut, NobodyYet, server
<1>3. CASE Refuse \/ Drop \/ Handshake
  BY <1>3 DEF Refuse, Drop, Handshake, NobodyYet
<1>4. CASE UNCHANGED server
  BY <1>4 DEF NobodyYet, server
<1> QED
  BY <1>1, <1>2, <1>3, <1>4
     DEF Next, Browse, Mount, Unmount, Progress, CreateSocket, Connect, Refetch, Update, vars,
         server

(* The rooms of a connection follow the open pages, and so does what the   *)
(* provider remembers, for any number of rooms, visits and broken          *)
(* connections and without an assumption on what overtakes what: every     *)
(* deviation is one of the three races that are named (the hooks of the    *)
(* ticket pages, the realtime provider and the gateway).                   *)
THEOREM RoomsTheorem == Spec => []RoomsFollowPages
<1>1. Init => RoomsInv /\ NobodyYet
  <2> SUFFICES ASSUME Init PROVE RoomsInv /\ NobodyYet
    OBVIOUS
  <2>1. TypeOK
    BY TypeInit
  <2>2. Links /\ Remembered /\ Sitting /\ Missing /\ NobodyYet
    BY DEF Init, Links, Remembered, Sitting, Missing, NobodyYet
  <2>3. Queues
    BY OrderlyEmpty DEF Init, Queues
  <2> QED
    BY <2>1, <2>2, <2>3 DEF RoomsInv, Connection
<1>2. RoomsInv /\ NobodyYet /\ [Next]_vars => RoomsInv' /\ NobodyYet'
  BY RoomsStep, NobodyStep
<1>3. RoomsInv => RoomsFollowPages
  BY DEF RoomsInv, Connection, Remembered, Sitting, Missing, RoomsFollowPages
<1> QED
  BY <1>1, <1>2, <1>3, PTL DEF Spec

================================================================================
