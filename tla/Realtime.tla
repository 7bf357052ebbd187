-------------------------------- MODULE Realtime --------------------------------
(***************************************************************************)
(* Realtime rooms: the hooks of the pages that are open in one browser,    *)
(* the provider's socket, and the gateway that lets it join and leave.     *)
(*                                                                         *)
(* A hook joins its room when it mounts and leaves when it unmounts, both  *)
(* without waiting; messages of one connection arrive in order, but the    *)
(* gateway looks a ticket up before it joins, and leaves at once, so that  *)
(* a leave may overtake a join.  A connection that comes back has no room, *)
(* and no user until its handshake is over; the provider joins the rooms   *)
(* it remembers again.  A room stands for a ticket's room or its staff     *)
(* room; what events carry is left out, for their receiver only fetches    *)
(* again.                                                                  *)
(***************************************************************************)
EXTENDS Integers, Sequences, SequencesExt

CONSTANTS
    Rooms,
    MayJoin,          \* the rooms of the user's tickets
    Circumstances,    \* what may happen on the way
    MaxMounts,        \* bound: times pages are opened, all together
    MaxDrops          \* bound: times the connection breaks

\* refused: the token is not good; updates: others change the tickets.
CircumstanceName == {"refused", "updates"}

ASSUME RealtimeAssumption ==
    /\ IsFiniteSet(Rooms) /\ MayJoin \subseteq Rooms
    /\ Circumstances \subseteq CircumstanceName
    /\ MaxMounts \in Nat /\ MaxDrops \in Nat

VARIABLES
    viewed,     \* the rooms with a mounted hook
    mounts,     \* how often each was mounted
    intended,   \* the provider's subscribedTicketsRef and subscribedStaffRef
    link,       \* the client's socket
    waiting,    \* calls that wait for a connection
    wire,       \* messages on their way to the gateway
    awaiting,   \* joins whose promise is not settled
    known,      \* the gateway has verified the socket's user
    deciding,   \* joins the gateway looks up
    joined,     \* the rooms the server has the socket in
    acks,       \* answers on their way to the client
    events,     \* ticket events on their way to the client
    stale,      \* rooms whose page shows less than the database has
    drops,
    (* What has happened, for the properties; no action reads it. *)
    early,      \* rooms whose last join came before the gateway knew the user
    overtaken,  \* lookups a leave overtook when nobody waited for them any more
    crossed     \* open pages whose room an earlier visit has left since

client == <<viewed, mounts, intended>>
server == <<known, deciding, joined>>
past == <<early, overtaken, crossed>>
vars == <<viewed, mounts, intended, link, waiting, wire, awaiting,
          known, deciding, joined, acks, events, stale, drops, past>>

--------------------------------------------------------------------------------
(* Types *)

\* `visit' is the mount a join was called by; 0 for leaves and replays.
Call == [op : {"join", "leave"}, room : Rooms, visit : Nat]
Visit == [room : Rooms, visit : Nat]

TypeOK ==
    /\ viewed \subseteq Rooms /\ intended \subseteq Rooms /\ joined \subseteq Rooms
    /\ mounts \in [Rooms -> Nat]
    /\ link \in {"none", "connecting", "connected", "refused"}
    /\ waiting \in Seq(Call) /\ wire \in Seq(Call)
    /\ awaiting \subseteq Visit /\ deciding \subseteq Visit /\ acks \subseteq Visit
    /\ known \in BOOLEAN
    /\ events \subseteq Rooms /\ stale \subseteq Rooms
    /\ drops \in 0..MaxDrops
    /\ early \subseteq Rooms /\ overtaken \subseteq Visit /\ crossed \subseteq Rooms

Init ==
    /\ viewed = {} /\ intended = {} /\ joined = {}
    /\ mounts = [r \in Rooms |-> 0]
    /\ link = "none"
    /\ waiting = <<>> /\ wire = <<>>
    /\ awaiting = {} /\ deciding = {} /\ acks = {}
    /\ known = FALSE
    /\ events = {} /\ stale = {}
    /\ drops = 0
    /\ early = {} /\ overtaken = {} /\ crossed = {}

--------------------------------------------------------------------------------
(* The client *)

\* emitWithAck: no socket, no message; otherwise it waits for a connection.
Emit(calls) ==
    CASE link = "none"      -> UNCHANGED <<waiting, wire>>
      [] link = "connected" -> wire' = wire \o calls /\ UNCHANGED waiting
      [] OTHER              -> waiting' = waiting \o calls /\ UNCHANGED wire

Leave(r) == [op |-> "leave", room |-> r, visit |-> 0]
Join(r, n) == [op |-> "join", room |-> r, visit |-> n]

\* Mounting fetches the ticket and joins its room.
Mount(r) ==
    /\ r \notin viewed /\ FoldFunction(+, 0, mounts) < MaxMounts
    /\ viewed' = viewed \cup {r}
    /\ mounts' = [mounts EXCEPT ![r] = @ + 1]
    /\ intended' = intended \cup {r}
    /\ stale' = stale \ {r}
    /\ Emit(<<Join(r, mounts[r] + 1)>>)
    /\ awaiting' = IF link = "none" THEN awaiting
                   ELSE awaiting \cup {[room |-> r, visit |-> mounts[r] + 1]}
    /\ UNCHANGED <<link, server, acks, events, drops, past>>

\* Mutant: unmounting leaves the room, and the provider goes on remembering it.
UnmountRemembered(r) ==
    /\ r \in viewed
    /\ viewed' = viewed \ {r}
    /\ Emit(<<Leave(r)>>)
    /\ crossed' = crossed \ {r}
    /\ UNCHANGED <<mounts, intended, link, awaiting, server, acks, events, stale, drops,
                   early, overtaken>>

Unmount(r) ==
    /\ r \in viewed
    /\ viewed' = viewed \ {r}
    /\ intended' = intended \ {r}
    /\ Emit(<<Leave(r)>>)
    /\ crossed' = crossed \ {r}
    /\ UNCHANGED <<mounts, link, awaiting, server, acks, events, stale, drops,
                   early, overtaken>>

\* The effect of the provider, once the user is known.
CreateSocket ==
    /\ link = "none"
    /\ link' = "connecting"
    /\ UNCHANGED <<client, waiting, wire, awaiting, server, acks, events, stale, drops, past>>

\* Mutant: the server is trusted to remember the rooms of a connection.
NothingReplayed(rooms) == <<>>

\* handleConnect joins the remembered rooms.
Replayed(rooms) == SetToSeq({Join(r, 0) : r \in rooms})

\* Calls that waited follow the replays: their listeners were added later.
Connect ==
    /\ link = "connecting"
    /\ link' = "connected"
    /\ wire' = Replayed(intended) \o waiting
    /\ waiting' = <<>>
    /\ UNCHANGED <<client, awaiting, server, acks, events, stale, drops, past>>

Cancelled(v) == ~(v.room \in viewed /\ v.visit = mounts[v.room])

\* Mutant: an unmounted hook does nothing when its join is answered.
SettleOnly(v) ==
    /\ awaiting' = awaiting \ {v}
    /\ UNCHANGED <<intended, waiting, wire, crossed>>

\* The `then' of the hook: who has unmounted meanwhile leaves once more, and
\* the provider forgets the room, also when the page is open again.
Settle(v) ==
    /\ awaiting' = awaiting \ {v}
    /\ IF Cancelled(v)
       THEN /\ intended' = intended \ {v.room} /\ Emit(<<Leave(v.room)>>)
            /\ crossed' = crossed \cup ({v.room} \cap viewed)
       ELSE UNCHANGED <<intended, waiting, wire, crossed>>

Answered(v) ==
    /\ v \in acks
    /\ acks' = acks \ {v}
    /\ IF v \in awaiting THEN Settle(v)
                         ELSE UNCHANGED <<intended, awaiting, waiting, wire, crossed>>
    /\ UNCHANGED <<viewed, mounts, link, server, events, stale, drops, early, overtaken>>

\* Five seconds after the join was sent, whatever became of it.
TimeOut(v) ==
    /\ v \in awaiting
    /\ \A i \in DOMAIN waiting : waiting[i] # Join(v.room, v.visit)
    /\ Settle(v)
    /\ UNCHANGED <<viewed, mounts, link, server, acks, events, stale, drops, early, overtaken>>

\* Every ticket event makes the client fetch again.
Refetch(r) ==
    /\ r \in events
    /\ events' = events \ {r}
    /\ stale' = stale \ {r}
    /\ UNCHANGED <<client, link, waiting, wire, awaiting, server, acks, drops, past>>

--------------------------------------------------------------------------------
(* The gateway *)

Handshake ==
    /\ link = "connected" /\ ~known
    /\ known' = TRUE
    /\ UNCHANGED <<client, link, waiting, wire, awaiting, deciding, joined, acks, events,
                   stale, drops, past>>

\* A client the server has disconnected does not come back.
Refuse ==
    /\ "refused" \in Circumstances
    /\ link = "connected" /\ ~known
    /\ link' = "refused"
    /\ wire' = <<>>
    /\ acks' = {} /\ deciding' = {} /\ events' = {}
    /\ UNCHANGED <<client, waiting, awaiting, known, joined, stale, drops, past>>

\* handleConnection is not waited for: a join that comes before it knows the
\* user is denied, and only calls are told.
Receive ==
    LET m      == Head(wire)
        v      == [room |-> m.room, visit |-> m.visit]
        looks  == m.op = "join" /\ known
        denied == m.op = "join" /\ ~known
        leaves == m.op = "leave"
        late   == {w \in deciding \ awaiting : w.room = m.room}
    IN  /\ link = "connected" /\ wire # <<>>
        /\ wire' = Tail(wire)
        /\ deciding' = IF looks THEN deciding \cup {v} ELSE deciding
        /\ joined' = IF leaves THEN joined \ {m.room} ELSE joined
        /\ acks' = IF denied /\ m.visit # 0 THEN acks \cup {v} ELSE acks
        /\ early' = IF denied THEN early \cup {m.room}
                    ELSE IF looks THEN early \ {m.room} ELSE early
        /\ overtaken' = IF leaves THEN {w \in overtaken : w.room # m.room} \cup late
                        ELSE overtaken
        /\ UNCHANGED <<client, link, waiting, awaiting, known, events, stale, drops, crossed>>

\* resolveVisibility, then client.join.
Decide(v) ==
    /\ v \in deciding
    /\ deciding' = deciding \ {v}
    /\ joined' = IF v.room \in MayJoin THEN joined \cup {v.room} ELSE joined
    /\ acks' = IF v.visit = 0 THEN acks ELSE acks \cup {v}
    /\ UNCHANGED <<client, link, waiting, wire, awaiting, known, events, stale, drops, past>>

--------------------------------------------------------------------------------
\* The connection breaks, with all that was on it; the client connects again.
Drop ==
    /\ link = "connected" /\ drops < MaxDrops
    /\ drops' = drops + 1
    /\ link' = "connecting"
    /\ wire' = <<>> /\ acks' = {} /\ events' = {}
    /\ known' = FALSE /\ deciding' = {} /\ joined' = {}
    /\ early' = {} /\ overtaken' = {}
    /\ UNCHANGED <<client, waiting, awaiting, stale, crossed>>

\* Somebody changes the ticket: emitTicketUpdated to the room.
Update(r) ==
    /\ "updates" \in Circumstances
    /\ stale' = stale \cup ({r} \cap viewed)
    /\ events' = events \cup ({r} \cap joined)
    /\ UNCHANGED <<client, link, waiting, wire, awaiting, server, acks, drops, past>>

Visits == acks \cup awaiting \cup deciding

Browse == \E r \in Rooms : Mount(r) \/ Unmount(r)

Progress ==
    \/ CreateSocket \/ Connect \/ Handshake \/ Receive
    \/ \E v \in Visits : Decide(v) \/ Answered(v) \/ TimeOut(v)
    \/ \E r \in Rooms : Refetch(r)

Next == Browse \/ Progress \/ Refuse \/ Drop \/ \E r \in Rooms : Update(r)

\* Messages arrive, promises settle, the socket connects again; users browse
\* as they like.  Each join is decided, whatever else arrives.
Fairness ==
    /\ WF_vars(CreateSocket) /\ WF_vars(Connect) /\ WF_vars(Handshake) /\ WF_vars(Receive)
    /\ \A r \in Rooms :
         /\ WF_vars(Refetch(r))
         /\ \A n \in 0..MaxMounts :
              LET v == [room |-> r, visit |-> n]
              IN  WF_vars(Decide(v)) /\ WF_vars(Answered(v)) /\ WF_vars(TimeOut(v))
Spec == Init /\ [][Next]_vars /\ Fairness

--------------------------------------------------------------------------------
(* Properties *)

Carries(calls, op, r) == \E i \in DOMAIN calls : calls[i].op = op /\ calls[i].room = r

(* The rooms of a connection follow the open pages, however joins, leaves, *)
(* lookups, late answers and broken connections fall together, but for     *)
(* three races.  The provider forgets the room of an open page only when   *)
(* an earlier visit settled behind its back.  The connection sits in the   *)
(* room of a closed page only while a leave is on the wire or a visit of   *)
(* that page is to be settled, or when a leave overtook a lookup nobody    *)
(* waited for any more.  It is missing from the room of an open page only  *)
(* while a join is on the wire or looked up, or when the last join came    *)
(* before the handshake was over, or an earlier visit left the room.       *)
RoomsFollowPages ==
    /\ intended = viewed \ crossed
    /\ \A r \in joined \ viewed :
          \/ Carries(wire, "leave", r)
          \/ \E v \in awaiting \cup overtaken : v.room = r
    /\ link = "connected" =>
          \A r \in (viewed \cap MayJoin) \ (joined \cup early \cup crossed) :
             Carries(wire, "join", r) \/ \E v \in deciding : v.room = r

(* A page that stays open gets into its room, also when it was opened      *)
(* before the socket existed, or the connection broke on the way, unless   *)
(* its join comes before the gateway knows the user, an earlier visit      *)
(* leaves the room, or the socket is refused.                              *)
OpenRoomsAreJoined ==
    \A r \in MayJoin :
       r \in viewed ~> r \in joined \cup early \cup crossed \/ r \notin viewed \/ link = "refused"

(* The socket gets out of the room of a page that stays closed, and stays  *)
(* out, although a leave may overtake the join before it, unless nobody    *)
(* waits for that join any more.                                           *)
ClosedRoomsAreLeft ==
    \A r \in Rooms :
       <>[](r \notin viewed) => <>[](r \in joined => \E v \in overtaken : v.room = r)

--------------------------------------------------------------------------------
(* What the comments say and the code does not do; checked by no run.      *)

\* `replay these on connect to restore ticket/staff subscriptions' (the
\* provider): a replay that outruns the handshake is denied, for good.
RoomsAreRestored ==
    \A r \in MayJoin : r \in viewed ~> r \in joined \/ r \notin viewed \/ link = "refused"

\* `Rooms the client currently intends to be in': not when a page was opened
\* again before its last visit settled.
RemembersOpenRooms == intended = viewed

================================================================================
