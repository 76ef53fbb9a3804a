----------------------------- MODULE RadioFloor -----------------------------
(***************************************************************************)
(* Turns to talk (push-to-talk, half duplex): RadioFloorService driven by  *)
(* the socket handlers of RadioGateway.  One process, in-memory state; a   *)
(* handler runs to its end without interruption except where it awaits the *)
(* database, so onPttRelease on a public channel is two steps with the     *)
(* floor already passed on between them.                                   *)
(***************************************************************************)
EXTENDS FloorService

CONSTANTS
    Public,      \* public channels: a release is recorded in the database
    Private,     \* private conversations (id "private:..."): it is not
    Releases,    \* onPttRelease handlers that may be in flight at a time
    DbMayFail    \* whether recordTransmission may throw

Channels == Public \cup Private

ASSUME ChannelsAssumption == Public \cap Private = {} /\ None \notin Channels
ASSUME DbMayFailAssumption == DbMayFail \in BOOLEAN

VARIABLES
    conn,        \* life of each socket: an id is used once
    chan,        \* client.data.channelId
    rooms,       \* the `channel:` rooms the socket is in
    floor,       \* RadioFloorService.channels
    releasing,   \* the onPttRelease that await the database
    told,        \* the current speaker's socket, once it was sent its turn
    announced    \* whom the channel last heard is talking (speaking / ended)

vars == <<conn, chan, rooms, floor, releasing, told, announced>>

Idle == [chan |-> None, next |-> None]

TypeOK ==
    /\ conn \in [Sockets -> {"new", "on", "off"}]
    /\ chan \in [Sockets -> Channels \cup {None}]
    /\ rooms \in [Sockets -> SUBSET Channels]
    /\ floor \in [Channels -> Floors]
    /\ releasing \in [Releases -> [chan : Public \cup {None},
                                   next : Sockets \cup {None}]]
    /\ told \in [Channels -> Sockets \cup {None}]
    /\ announced \in [Channels -> Users \cup {None}]

Init ==
    /\ conn = [s \in Sockets |-> "new"]
    /\ chan = [s \in Sockets |-> None]
    /\ rooms = [s \in Sockets |-> {}]
    /\ floor = [c \in Channels |-> FreeFloor]
    /\ releasing = [r \in Releases |-> Idle]
    /\ told = [c \in Channels |-> None]
    /\ announced = [c \in Channels |-> None]

-----------------------------------------------------------------------------
Online(s) == conn[s] = "on"

(* Mutant of HandOver: a channel that falls silent is not told so. *)
HandOverToSomebody(c, f) ==
    /\ floor' = [floor EXCEPT ![c] = f]
    /\ told' = [told EXCEPT ![c] = f.current]
    /\ announced' = [announced EXCEPT ![c] = IF f.current = None THEN @
                                             ELSE SpeakerOf(f)]

(***************************************************************************)
(* What ptt:ended followed by grantFloor leaves behind when the floor of c *)
(* becomes f: the new speaker, if any, has been told, and so has the       *)
(* channel.                                                                *)
(***************************************************************************)
HandOver(c, f) ==
    /\ floor' = [floor EXCEPT ![c] = f]
    /\ told' = [told EXCEPT ![c] = f.current]
    /\ announced' = [announced EXCEPT ![c] = SpeakerOf(f)]

Connect(s) ==
    /\ conn[s] = "new"
    /\ conn' = [conn EXCEPT ![s] = "on"]
    /\ UNCHANGED <<chan, rooms, floor, releasing, told, announced>>

(* Everything onJoin changes comes after its database check.  A private    *)
(* channel keeps the public room; the floors of the rooms left stay as     *)
(* they are.                                                               *)
Join(s, c) ==
    /\ Online(s)
    /\ chan' = [chan EXCEPT ![s] = c]
    /\ rooms' = [rooms EXCEPT ![s] =
                    {c} \cup (IF c \in Private THEN @ \ Private ELSE {})]
    /\ UNCHANGED <<conn, floor, releasing, told, announced>>

(* channel:leave of any channel: release, then leave the queue, then the   *)
(* room.                                                                   *)
Leave(s, c) ==
    LET u == UserOf[s]
        after == Cancel(Release(floor[c], u), u)
    IN  /\ Online(s)
        /\ IF IsSpeaker(floor[c], u) THEN HandOver(c, after)
           ELSE /\ floor' = [floor EXCEPT ![c] = after]
                /\ UNCHANGED <<told, announced>>
        /\ chan' = [chan EXCEPT ![s] = IF @ = c THEN None ELSE @]
        /\ rooms' = [rooms EXCEPT ![s] = @ \ {c}]
        /\ UNCHANGED <<conn, releasing>>

(* ptt:request: a granted request answers its own socket and the channel.  *)
RequestFloor(s, c) ==
    LET after == Request(floor[c], s)
    IN  /\ Online(s)
        /\ chan[s] = c
        /\ IF after.current = s THEN HandOver(c, after)
           ELSE /\ floor' = [floor EXCEPT ![c] = after]
                /\ UNCHANGED <<told, announced>>
        /\ UNCHANGED <<conn, chan, rooms, releasing>>

CanRelease(s, c) ==
    /\ Online(s)
    /\ chan[s] = c
    /\ IsSpeaker(floor[c], UserOf[s])

(* ptt:release of a private conversation: no await. *)
PttReleasePrivate(s, c) ==
    /\ c \in Private
    /\ CanRelease(s, c)
    /\ HandOver(c, Release(floor[c], UserOf[s]))
    /\ UNCHANGED <<conn, chan, rooms, releasing>>

(* A handler that has read who comes next awaits recordTransmission. *)
Awaits(release) ==
    \E r \in Releases :
        /\ releasing[r] = Idle
        /\ releasing' = [releasing EXCEPT ![r] = release]

(* Mutant of PttReleaseStart: who comes next is not kept. *)
PttReleaseForgets(s, c) ==
    /\ c \in Public
    /\ CanRelease(s, c)
    /\ floor' = [floor EXCEPT ![c] = Release(@, UserOf[s])]
    /\ Awaits([chan |-> c, next |-> None])
    /\ told' = [told EXCEPT ![c] = None]
    /\ UNCHANGED <<conn, chan, rooms, announced>>

(* ptt:release of a public channel up to `await recordTransmission`: the   *)
(* floor is already the next one's, who has not heard of it.               *)
PttReleaseStart(s, c) ==
    LET after == Release(floor[c], UserOf[s])
    IN  /\ c \in Public
        /\ CanRelease(s, c)
        /\ floor' = [floor EXCEPT ![c] = after]
        /\ Awaits([chan |-> c, next |-> after.current])
        /\ told' = [told EXCEPT ![c] = None]
        /\ UNCHANGED <<conn, chan, rooms, announced>>

(* The rest of the handler: ptt:ended, then grantFloor to the `next` that  *)
(* was read before the await, whoever has the floor by now.                *)
PttReleaseDone(r) ==
    LET c == releasing[r].chan
        next == releasing[r].next
    IN  /\ c # None
        /\ releasing' = [releasing EXCEPT ![r] = Idle]
        /\ told' = [told EXCEPT ![c] =
                       IF next # None /\ floor[c].current = next THEN next
                       ELSE @]
        /\ announced' = [announced EXCEPT ![c] =
                            IF next = None THEN None ELSE UserOf[next]]
        /\ UNCHANGED <<conn, chan, rooms, floor>>

(* recordTransmission throws: nothing after the await runs. *)
PttReleaseFails(r) ==
    /\ DbMayFail
    /\ releasing[r] # Idle
    /\ releasing' = [releasing EXCEPT ![r] = Idle]
    /\ UNCHANGED <<conn, chan, rooms, floor, told, announced>>

(* ptt:cancel asks for no membership of the channel. *)
PttCancel(s, c) ==
    /\ Online(s)
    /\ floor' = [floor EXCEPT ![c] = Cancel(@, UserOf[s])]
    /\ UNCHANGED <<conn, chan, rooms, releasing, told, announced>>

(* The floor is dropped by USER: any of their sockets that goes takes the  *)
(* user out of every channel.  A release that awaits the database goes on. *)
(* The data of a dead socket is read by nobody: it is reset.               *)
Disconnect(s) ==
    LET u == UserOf[s]
        after == [c \in Channels |-> Drop(floor[c], u)]
        passed == {c \in Channels : IsSpeaker(floor[c], u)}
    IN  /\ Online(s)
        /\ conn' = [conn EXCEPT ![s] = "off"]
        /\ chan' = [chan EXCEPT ![s] = None]
        /\ rooms' = [rooms EXCEPT ![s] = {}]
        /\ floor' = after
        /\ told' = [c \in Channels |-> IF c \in passed THEN after[c].current
                                       ELSE told[c]]
        /\ announced' = [c \in Channels |-> IF c \in passed
                                            THEN SpeakerOf(after[c])
                                            ELSE announced[c]]
        /\ UNCHANGED releasing

ChannelStep(s, c) ==
    \/ Join(s, c)
    \/ Leave(s, c)
    \/ RequestFloor(s, c)
    \/ PttReleasePrivate(s, c)
    \/ PttReleaseStart(s, c)
    \/ PttCancel(s, c)

Next ==
    \/ \E s \in Sockets : Connect(s) \/ Disconnect(s)
    \/ \E s \in Sockets, c \in Channels : ChannelStep(s, c)
    \/ \E r \in Releases : PttReleaseDone(r) \/ PttReleaseFails(r)

Spec == Init /\ [][Next]_vars

-----------------------------------------------------------------------------
(* Fairness.  A release that awaits the database gets its answer.  Nothing *)
(* in the program takes the word from a speaker: that a person who holds   *)
(* it lets go (or leaves the channel) is assumed of them, provided they    *)
(* have been told that they have it.                                       *)
LetGo(s, c) ==
    /\ floor[c].current = s
    /\ told[c] = s
    /\ \/ PttReleasePrivate(s, c)
       \/ PttReleaseStart(s, c)
       \/ Leave(s, c)

Fairness ==
    /\ \A r \in Releases : WF_vars(PttReleaseDone(r))
    /\ \A c \in Channels : WF_vars(\E s \in Sockets : LetGo(s, c))

FairSpec == Spec /\ Fairness

-----------------------------------------------------------------------------
(* In every channel a user is in the floor once (OnceInFloor), whatever    *)
(* devices they ask, leave, cancel and disconnect with.                    *)
FloorWellFormed == \A c \in Channels : OnceInFloor(floor[c])

(* handleDisconnect leaves no trace of a socket that went: every entry, of *)
(* the speaker and of those who wait, is a socket that is online, so the   *)
(* word is never handed to nobody.                                         *)
EntriesOnline == \A c \in Channels : \A s \in Entries(floor[c]) : Online(s)

(* Whoever has the word has been told so, or a release in flight is about  *)
(* to tell them (grantFloor: "Notifica al nuevo hablante").                *)
SpeakerTold ==
    \A c \in Channels : floor[c].current # None =>
        \/ told[c] = floor[c].current
        \/ \E r \in Releases :
              releasing[r] = [chan |-> c, next |-> floor[c].current]

(* In a private conversation what the channel last heard is the truth:     *)
(* every way the floor changes hands announces it in the same step.        *)
PrivateAnnounced ==
    \A c \in Private : announced[c] = SpeakerOf(floor[c])

(* The people of a floor, without their sockets. *)
QueueUsers(f) == [i \in DOMAIN f.queue |-> UserOf[f.queue[i]]]

(* The floor implements the line of people of TurnQueue: whatever sockets  *)
(* people come with, reconnect with or lose, the word goes to the one who  *)
(* asked first and has neither left nor disconnected.                      *)
Turns == INSTANCE TurnQueue WITH
            holder <- [c \in Channels |-> SpeakerOf(floor[c])],
            waiting <- [c \in Channels |-> QueueUsers(floor[c])]

TurnsInOrder == Turns!Spec

(* If speakers who know of it let go, whoever waits gets out of the queue  *)
(* (by getting the word, or by leaving): nobody is passed over for ever,   *)
(* and the line never stops at a speaker who was not told.                 *)
EveryTurnComes ==
    \A c \in Channels : \A u \in Users :
        Waits(floor[c], u) ~> ~Waits(floor[c], u)

=============================================================================
