------------------------------ MODULE RadioRooms ------------------------------
(***************************************************************************)
(* Which rooms a socket is in: the one of its channel, the public channel  *)
(* it keeps while it talks in a private one, and the channels it listens   *)
(* to as important; and who each channel is told is present.               *)
(* channel:join and channel:listen-important await the database before     *)
(* they change anything, so they overlap with everything else, themselves  *)
(* included.                                                               *)
(***************************************************************************)
EXTENDS FiniteSets, Naturals

CONSTANTS
    Sockets, Users, None,
    UserOf,      \* the user each socket authenticates as
    Public,      \* the channels of the database
    Private,     \* the rooms private:<conversation>
    MaxCalls     \* a bound: the lookups a socket has under way at once

ASSUME UserOfAssumption == UserOf \in [Sockets -> Users]
ASSUME NoneAssumption == None \notin Public \cup Private
ASSUME ChannelsAssumption == Public \cap Private = {}
ASSUME MaxCallsAssumption == MaxCalls \in Nat

Channels == Public \cup Private

VARIABLES
    conn,          \* life of each socket
    chan,          \* client.data.channelId
    public,        \* client.data.radioPublicChannelId
    rooms,         \* the rooms channel:<id> of each socket
    ids,           \* client.data.importantChannelIds
    ears,          \* the rooms radio-important:<id> of each socket
    joining,       \* the channel:join of each socket that await the database
    subscribing,   \* its channel:listen-important that do
    shown          \* the last channel:presence sent to each channel

vars == <<conn, chan, public, rooms, ids, ears, joining, subscribing, shown>>

TypeOK ==
    /\ conn \in [Sockets -> {"new", "on", "off"}]
    /\ chan \in [Sockets -> Channels \cup {None}]
    /\ public \in [Sockets -> Public \cup {None}]
    /\ rooms \in [Sockets -> SUBSET Channels]
    /\ ids \in [Sockets -> SUBSET Public]
    /\ ears \in [Sockets -> SUBSET Public]
    /\ joining \in [Sockets -> SUBSET Channels]
    /\ subscribing \in [Sockets -> SUBSET Public]
    /\ shown \in [Channels -> SUBSET Users]

Init ==
    /\ conn = [s \in Sockets |-> "new"]
    /\ chan = [s \in Sockets |-> None]
    /\ public = [s \in Sockets |-> None]
    /\ rooms = [s \in Sockets |-> {}]
    /\ ids = [s \in Sockets |-> {}]
    /\ ears = [s \in Sockets |-> {}]
    /\ joining = [s \in Sockets |-> {}]
    /\ subscribing = [s \in Sockets |-> {}]
    /\ shown = [c \in Channels |-> {}]

-----------------------------------------------------------------------------
Online(s) == conn[s] = "on"

(* The users of the sockets in a room, where r gives the rooms of each. *)
Present(r, c) == {UserOf[s] : s \in {t \in Sockets : c \in r[t]}}

(* emitPresence of the channels C, given the rooms they then have. *)
Announce(r, C) ==
    shown' = [c \in Channels |-> IF c \in C THEN Present(r, c) ELSE shown[c]]

(* Mutant of Leaves: entering a private room leaves the public one too. *)
LeavesAll(s, c) == rooms[s] \ {c}

(* The rooms that entering channel c leaves: a private one keeps the       *)
(* public channel.                                                         *)
Leaves(s, c) == {d \in rooms[s] \ {c} : c \in Private => d \in Private}

(* The public channel a socket keeps when it enters channel c. *)
Keeps(s, c) == IF c \in Private THEN public[s] ELSE c

Connect(s) ==
    /\ conn[s] = "new"
    /\ conn' = [conn EXCEPT ![s] = "on"]
    /\ UNCHANGED <<chan, public, rooms, ids, ears, joining, subscribing, shown>>

(* A socket calls again before its earlier calls are answered. *)
MayCall(s) == Cardinality(joining[s]) + Cardinality(subscribing[s]) < MaxCalls

(* channel:join up to its lookup *)
JoinStart(s, c) ==
    /\ Online(s)
    /\ MayCall(s)
    /\ joining' = [joining EXCEPT ![s] = @ \cup {c}]
    /\ UNCHANGED <<conn, chan, public, rooms, ids, ears, subscribing, shown>>

(* Mutant of JoinDone: the channel stays important. *)
JoinDoneTwice(s, c) ==
    /\ c \in joining[s]
    /\ joining' = [joining EXCEPT ![s] = @ \ {c}]
    /\ Online(s)
    /\ rooms' = [rooms EXCEPT ![s] = (@ \ Leaves(s, c)) \cup {c}]
    /\ chan' = [chan EXCEPT ![s] = c]
    /\ public' = [public EXCEPT ![s] = Keeps(s, c)]
    /\ Announce(rooms', {c} \cup Leaves(s, c))
    /\ UNCHANGED <<conn, subscribing, ids, ears>>

(* The lookup allows it: the socket changes rooms, stops listening to its  *)
(* new channel as important, and the channels entered and left are told.   *)
JoinDone(s, c) ==
    /\ c \in joining[s]
    /\ joining' = [joining EXCEPT ![s] = @ \ {c}]
    /\ Online(s)
    /\ rooms' = [rooms EXCEPT ![s] = (@ \ Leaves(s, c)) \cup {c}]
    /\ ears' = [ears EXCEPT ![s] = IF c \in ids[s] THEN @ \ {c} ELSE @]
    /\ ids' = [ids EXCEPT ![s] = @ \ {c}]
    /\ chan' = [chan EXCEPT ![s] = c]
    /\ public' = [public EXCEPT ![s] = Keeps(s, c)]
    /\ Announce(rooms', {c} \cup Leaves(s, c))
    /\ UNCHANGED <<conn, subscribing>>

(* It is refused, or the socket has gone: then it is in no room and enters *)
(* none, and the channel is told again who is in it.                       *)
JoinLost(s, c) ==
    /\ c \in joining[s]
    /\ joining' = [joining EXCEPT ![s] = @ \ {c}]
    /\ IF Online(s) THEN UNCHANGED shown ELSE Announce(rooms, {c})
    /\ UNCHANGED <<conn, chan, public, rooms, ids, ears, subscribing>>

(* channel:leave, of any channel *)
Leave(s, c) ==
    /\ Online(s)
    /\ rooms' = [rooms EXCEPT ![s] = @ \ {c}]
    /\ chan' = [chan EXCEPT ![s] = IF @ = c THEN None ELSE @]
    /\ public' = [public EXCEPT ![s] = IF @ = c THEN None ELSE @]
    /\ Announce(rooms', {c})
    /\ UNCHANGED <<conn, ids, ears, joining, subscribing>>

(* channel:listen-important up to its lookups *)
ListenStart(s, c) ==
    /\ Online(s)
    /\ MayCall(s)
    /\ subscribing' = [subscribing EXCEPT ![s] = @ \cup {c}]
    /\ UNCHANGED <<conn, chan, public, rooms, ids, ears, joining, shown>>

(* The channel is active: it is listened to in its important room, except  *)
(* by a socket that is in it now.                                          *)
ListenDone(s, c) ==
    /\ c \in subscribing[s]
    /\ subscribing' = [subscribing EXCEPT ![s] = @ \ {c}]
    /\ Online(s)
    /\ ears' = [ears EXCEPT ![s] = IF chan[s] = c THEN @ ELSE @ \cup {c}]
    /\ ids' = [ids EXCEPT ![s] = @ \cup {c}]
    /\ UNCHANGED <<conn, chan, public, rooms, joining, shown>>

ListenLost(s, c) ==
    /\ c \in subscribing[s]
    /\ subscribing' = [subscribing EXCEPT ![s] = @ \ {c}]
    /\ UNCHANGED <<conn, chan, public, rooms, ids, ears, joining, shown>>

(* channel:unlisten-important, of one channel or of all there are *)
Unlisten(s, C) ==
    /\ Online(s)
    /\ ears' = [ears EXCEPT ![s] = @ \ C]
    /\ ids' = [ids EXCEPT ![s] = @ \ C]
    /\ UNCHANGED <<conn, chan, public, rooms, joining, subscribing, shown>>

(* Mutant of Affected: the public channel kept in the background is not    *)
(* told.                                                                   *)
AffectedOne(s) == {chan[s]}

(* The channels whose presence handleDisconnect sends anew. *)
Affected(s) == {chan[s], public[s]}

(* handleDisconnect: the socket has left its rooms by then. *)
Disconnect(s) ==
    /\ Online(s)
    /\ conn' = [conn EXCEPT ![s] = "off"]
    /\ rooms' = [rooms EXCEPT ![s] = {}]
    /\ ears' = [ears EXCEPT ![s] = {}]
    /\ ids' = [ids EXCEPT ![s] = {}]
    /\ chan' = [chan EXCEPT ![s] = None]
    /\ public' = [public EXCEPT ![s] = None]
    /\ Announce(rooms', Affected(s))
    /\ UNCHANGED <<joining, subscribing>>

Next ==
    \/ \E s \in Sockets : Connect(s) \/ Disconnect(s) \/ \E c \in Public : Unlisten(s, {c})
    \/ \E s \in Sockets : Unlisten(s, ids[s])
    \/ \E s \in Sockets, c \in Channels :
          JoinStart(s, c) \/ JoinDone(s, c) \/ JoinLost(s, c) \/ Leave(s, c)
    \/ \E s \in Sockets, c \in Public :
          ListenStart(s, c) \/ ListenDone(s, c) \/ ListenLost(s, c)

Spec == Init /\ [][Next]_vars

-----------------------------------------------------------------------------
(* client.data and the rooms of the server never part: a socket is in the  *)
(* room of its channel and in that of the public channel it keeps, and in  *)
(* no other, in whatever order its joins and leaves are answered.          *)
RoomsTracked ==
    \A s \in Sockets : rooms[s] = {chan[s], public[s]} \ {None}

(* What a channel was last told of its presence is who is in it. *)
PresenceExact == \A c \in Channels : shown[c] = Present(rooms, c)

(* A socket hears as important only the channels it subscribes to: after   *)
(* channel:unlisten-important it hears nothing more of them.               *)
EarsAreSubscribed == \A s \in Sockets : ears[s] \subseteq ids[s]

(* The channel a socket talks in is not also listened to as important:     *)
(* each chunk of ptt:audio goes to both rooms, and it would hear it twice. *)
HeardOnce == \A s \in Sockets : chan[s] \notin ears[s]
=============================================================================
