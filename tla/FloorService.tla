---------------------------- MODULE FloorService ----------------------------
(***************************************************************************)
(* The pure part of RadioFloorService (src/radio/radio-floor.service.ts):  *)
(* the floor of ONE channel is who has the word and who waits for it.  The *)
(* code stores FloorUser = {socketId, user}; a socket belongs to one user  *)
(* for its whole life, so an entry is its socket and the user is UserOf.   *)
(***************************************************************************)
EXTENDS Naturals, Sequences, SequencesExt

CONSTANTS Sockets, Users, None

(* The user a socket authenticated as (handleConnection, client.data.user). *)
CONSTANT UserOf

ASSUME UserOfAssumption == UserOf \in [Sockets -> Users]
ASSUME NoneAssumption == None \notin Sockets /\ None \notin Users

Floors == [current : Sockets \cup {None}, queue : Seq(Sockets)]

FreeFloor == [current |-> None, queue |-> <<>>]

SpeakerOf(f) == IF f.current = None THEN None ELSE UserOf[f.current]

IsSpeaker(f, u) == f.current # None /\ UserOf[f.current] = u

(* Where user u waits in a queue. *)
Places(q, u) == {i \in DOMAIN q : UserOf[q[i]] = u}

Waits(f, u) == Places(f.queue, u) # {}

(* Mutant of Promote: the last who came is served first. *)
PromoteLast(f) ==
    IF f.queue = <<>> THEN FreeFloor
    ELSE [current |-> Last(f.queue), queue |-> Front(f.queue)]

(* queue.shift() ?? null *)
Promote(f) ==
    IF f.queue = <<>> THEN FreeFloor
    ELSE [current |-> Head(f.queue), queue |-> Tail(f.queue)]

(***************************************************************************)
(* queue.filter(q => q.user.id !== u).  The queue holds at most one entry  *)
(* per user (FloorWellFormed of RadioFloor), so the filter takes out that   *)
(* entry and closes the gap.                                               *)
(***************************************************************************)
Without(q, u) ==
    IF Places(q, u) = {} THEN q
    ELSE RemoveAt(q, CHOOSE i \in Places(q, u) : TRUE)

(* Mutant of Request: no look for a place the user already has. *)
RequestAppends(f, s) ==
    IF f.current = None \/ IsSpeaker(f, UserOf[s]) THEN [f EXCEPT !.current = s]
    ELSE [f EXCEPT !.queue = Append(@, s)]

(* request(): the word if it is free or already this user's; else a place. *)
Request(f, s) ==
    LET u == UserOf[s] IN
    IF f.current = None \/ IsSpeaker(f, u) THEN [f EXCEPT !.current = s]
    ELSE IF Waits(f, u)
         THEN [f EXCEPT !.queue =
                 [i \in DOMAIN f.queue |->
                    IF i \in Places(f.queue, u) THEN s ELSE f.queue[i]]]
         ELSE [f EXCEPT !.queue = Append(@, s)]

Release(f, u) == IF IsSpeaker(f, u) THEN Promote(f) ELSE f

Cancel(f, u) == [f EXCEPT !.queue = Without(@, u)]

(* Mutant of Drop: only the speaker is looked at. *)
DropSpeaker(f, u) == IF IsSpeaker(f, u) THEN Promote(f) ELSE f

(* handleDisconnect() on one channel: the queue is only filtered when the  *)
(* user is not the speaker.                                                *)
Drop(f, u) == IF IsSpeaker(f, u) THEN Promote(f) ELSE Cancel(f, u)

-----------------------------------------------------------------------------
(* A user is in a floor once: they do not wait twice, nor wait while they  *)
(* speak, and nobody waits for a free floor (request and handleDisconnect  *)
(* rely on it: the one tests the speaker only, the other does not filter   *)
(* the queue of the channel the user was speaking in).                     *)
OnceInFloor(f) ==
    /\ \A i, j \in DOMAIN f.queue :
          UserOf[f.queue[i]] = UserOf[f.queue[j]] => i = j
    /\ \A i \in DOMAIN f.queue : UserOf[f.queue[i]] # SpeakerOf(f)
    /\ f.current = None => f.queue = <<>>

(* The sockets that have or wait for the word. *)
Entries(f) == {f.queue[i] : i \in DOMAIN f.queue} \cup ({f.current} \ {None})
=============================================================================
