----------------------------- MODULE PrivateCalls -----------------------------
(***************************************************************************)
(* Private radio calls: a user calls another, whose sessions ring for 30   *)
(* seconds; the call is answered, declined, cancelled or ended, and        *)
(* outlives a network drop of either party for a grace window of 60        *)
(* seconds.  RadioGateway keeps the calls and the grace timers; a call is  *)
(* placed only after a database lookup, during which anything may happen.  *)
(* What each client believes of its call is kept too: it follows the       *)
(* events it is sent.                                                      *)
(***************************************************************************)
EXTENDS FiniteSets, Naturals

CONSTANTS
    Sockets, Users, None,
    UserOf,          \* the user each socket authenticates as
    CallIds,         \* chosen by the clients
    Lookups,         \* private-radio:call handlers that may await the database
    CallerMayDrop,   \* whether a socket may drop while its call is looked up
    SelfCalls        \* whether somebody calls themselves, which is not refused

ASSUME UserOfAssumption == UserOf \in [Sockets -> Users]
ASSUME NoneAssumption == None \notin Users /\ None \notin CallIds /\ None \notin Sockets
ASSUME CallerMayDropAssumption == CallerMayDrop \in BOOLEAN
ASSUME SelfCallsAssumption == SelfCalls \in BOOLEAN

VARIABLES
    sock,      \* life of each socket
    tuned,     \* sockets whose client.data.channelId is a public channel
    placing,   \* what each handler in flight looks up
    calls,     \* privateCalls
    armed,     \* the calls whose 30 s timeout is running
    grace,     \* users whose privateCallDisconnectTimers runs
    view       \* what the client of each socket was told of its call

vars == <<sock, tuned, placing, calls, armed, grace, view>>

NoCall == [caller |-> None, target |-> None, state |-> "NONE"]
NotPlacing == [sock |-> None, id |-> None, target |-> None]
NoView == [id |-> None, phase |-> "NONE"]

TypeOK ==
    /\ sock \in [Sockets -> {"new", "on", "off"}]
    /\ tuned \subseteq Sockets
    /\ placing \in [Lookups -> {NotPlacing} \cup
                               [sock : Sockets, id : CallIds, target : Users]]
    /\ calls \in [CallIds -> [caller : Users \cup {None}, target : Users \cup {None},
                              state : {"NONE", "RINGING", "ACTIVE"}]]
    /\ armed \subseteq CallIds
    /\ grace \subseteq Users
    /\ view \in [Sockets -> [id : CallIds \cup {None},
                             phase : {"NONE", "OUTGOING", "INCOMING", "ACTIVE"}]]

Init ==
    /\ sock = [s \in Sockets |-> "new"]
    /\ tuned = {}
    /\ placing = [l \in Lookups |-> NotPlacing]
    /\ calls = [i \in CallIds |-> NoCall]
    /\ armed = {}
    /\ grace = {}
    /\ view = [s \in Sockets |-> NoView]

-----------------------------------------------------------------------------
Online(s) == sock[s] = "on"

Sessions(u) == {s \in Sockets : Online(s) /\ UserOf[s] = u}

Live(i) == calls[i].state # "NONE"

Party(u, i) == Live(i) /\ u \in {calls[i].caller, calls[i].target}

InCall(u) == \E i \in CallIds : Party(u, i)

Placing(s) == \E l \in Lookups : placing[l].sock = s

(* What private-radio:resumed tells a session of u about the call i. *)
Resumed(u, i) ==
    [id |-> i, phase |-> IF calls[i].state = "ACTIVE" THEN "ACTIVE"
                         ELSE IF u = calls[i].caller THEN "OUTGOING"
                         ELSE "INCOMING"]

(* The views after an event that tells every session of the users U v. *)
Told(U, v) ==
    [s \in Sockets |-> IF Online(s) /\ UserOf[s] \in U THEN v ELSE view[s]]

(* finishPrivateCall of the calls I: their timeouts are cleared and every  *)
(* session of their parties is told.  Nobody believes in a call whose end  *)
(* it was told of.                                                         *)
Finish(I) ==
    /\ calls' = [i \in CallIds |-> IF i \in I THEN NoCall ELSE calls[i]]
    /\ armed' = armed \ I
    /\ view' = [s \in Sockets |->
                  IF Online(s) /\ view[s].id \in I /\ Party(UserOf[s], view[s].id)
                  THEN NoView ELSE view[s]]

(* Mutant of Connect: the grace timer of the user goes on. *)
ConnectKeepsTimer(s) ==
    /\ sock[s] = "new"
    /\ sock' = [sock EXCEPT ![s] = "on"]
    /\ IF InCall(UserOf[s])
       THEN \E i \in CallIds : /\ Party(UserOf[s], i)
                               /\ view' = [view EXCEPT ![s] = Resumed(UserOf[s], i)]
       ELSE UNCHANGED view
    /\ UNCHANGED <<tuned, placing, calls, armed, grace>>

(* handleConnection: the grace window closes, and the session is told of   *)
(* the user's call.                                                        *)
Connect(s) ==
    /\ sock[s] = "new"
    /\ sock' = [sock EXCEPT ![s] = "on"]
    /\ grace' = grace \ {UserOf[s]}
    /\ IF InCall(UserOf[s])
       THEN \E i \in CallIds : /\ Party(UserOf[s], i)
                               /\ view' = [view EXCEPT ![s] = Resumed(UserOf[s], i)]
       ELSE UNCHANGED view
    /\ UNCHANGED <<tuned, placing, calls, armed>>

(* channel:join of a public channel; of a private one, or channel:leave. *)
Tune(s) ==
    /\ Online(s)
    /\ tuned' \in {tuned \cup {s}, tuned \ {s}}
    /\ UNCHANGED <<sock, placing, calls, armed, grace, view>>

(* private-radio:call up to the lookup of the conversation.  A socket may  *)
(* call again while a call of its own is looked up.                        *)
CallStart(s, l, i, u) ==
    /\ Online(s)
    /\ s \in tuned
    /\ placing[l] = NotPlacing
    /\ SelfCalls \/ u # UserOf[s]
    /\ placing' = [placing EXCEPT ![l] = [sock |-> s, id |-> i, target |-> u]]
    /\ UNCHANGED <<sock, tuned, calls, armed, grace, view>>

(* Mutant of Vacant: only the one called must be free. *)
VacantTarget(caller, target) ==
    \A i \in CallIds : Live(i) => target \notin {calls[i].caller, calls[i].target}

(* Neither of the two is in a call. *)
Vacant(caller, target) == ~InCall(caller) /\ ~InCall(target)

(* The lookup has answered and the target is connected: both must be free  *)
(* now.  That the caller still is connected is not looked at.  The target's*)
(* sessions ring; of the caller's only the one that called learns of it.   *)
CallDone(l) ==
    LET s == placing[l].sock
        i == placing[l].id
        caller == UserOf[s]
        target == placing[l].target
    IN  /\ placing[l] # NotPlacing
        /\ Sessions(target) # {}
        /\ Vacant(caller, target)
        /\ ~Live(i)
        /\ placing' = [placing EXCEPT ![l] = NotPlacing]
        /\ calls' = [calls EXCEPT ![i] =
                       [caller |-> caller, target |-> target, state |-> "RINGING"]]
        /\ armed' = armed \cup {i}
        /\ view' = [t \in Sockets |->
                      CASE t = s /\ Online(s) -> [id |-> i, phase |-> "OUTGOING"]
                        [] t \in Sessions(target) -> [id |-> i, phase |-> "INCOMING"]
                        [] OTHER -> view[t]]
        /\ UNCHANGED <<sock, tuned, grace>>

(* There is no such conversation, the target has gone, one of the two is   *)
(* in a call, or the database fails.                                       *)
CallRefused(l) ==
    /\ placing[l] # NotPlacing
    /\ placing' = [placing EXCEPT ![l] = NotPlacing]
    /\ UNCHANGED <<sock, tuned, calls, armed, grace, view>>

(* Mutant of Accept: only the one who called is told. *)
AcceptTellsCaller(s, i) ==
    /\ Online(s)
    /\ calls[i].state = "RINGING"
    /\ calls[i].target = UserOf[s]
    /\ calls' = [calls EXCEPT ![i].state = "ACTIVE"]
    /\ armed' = armed \ {i}
    /\ view' = Told({calls[i].caller}, [id |-> i, phase |-> "ACTIVE"])
    /\ UNCHANGED <<sock, tuned, placing, grace>>

(* private-radio:answer, from any session of the one called *)
Accept(s, i) ==
    /\ Online(s)
    /\ calls[i].state = "RINGING"
    /\ calls[i].target = UserOf[s]
    /\ calls' = [calls EXCEPT ![i].state = "ACTIVE"]
    /\ armed' = armed \ {i}
    /\ view' = Told({calls[i].caller, calls[i].target}, [id |-> i, phase |-> "ACTIVE"])
    /\ UNCHANGED <<sock, tuned, placing, grace>>

Decline(s, i) ==
    /\ Online(s)
    /\ calls[i].state = "RINGING"
    /\ calls[i].target = UserOf[s]
    /\ Finish({i})
    /\ UNCHANGED <<sock, tuned, placing, grace>>

(* private-radio:end, from any session of either party, ringing or not *)
End(s, i) ==
    /\ Online(s)
    /\ Party(UserOf[s], i)
    /\ Finish({i})
    /\ UNCHANGED <<sock, tuned, placing, grace>>

(* private-radio:cancel *)
Cancel(s, i) ==
    /\ Online(s)
    /\ calls[i].state = "RINGING"
    /\ calls[i].caller = UserOf[s]
    /\ Finish({i})
    /\ UNCHANGED <<sock, tuned, placing, grace>>

(* Mutant of RingTimeout: it fires and ends nothing. *)
RingTimeoutLost(i) ==
    /\ i \in armed
    /\ armed' = armed \ {i}
    /\ UNCHANGED <<sock, tuned, placing, calls, grace, view>>

RingTimeout(i) ==
    /\ i \in armed
    /\ Finish({i})
    /\ UNCHANGED <<sock, tuned, placing, grace>>

(* Mutant of GraceFires: an active call goes on. *)
GraceFiresRinging(u) ==
    /\ u \in grace
    /\ grace' = grace \ {u}
    /\ IF Sessions(u) = {}
       THEN Finish({i \in CallIds : Party(u, i) /\ i \in armed})
       ELSE UNCHANGED <<calls, armed, view>>
    /\ UNCHANGED <<sock, tuned, placing>>

(* The grace window closes: the calls of a user who is back go on. *)
GraceFires(u) ==
    /\ u \in grace
    /\ grace' = grace \ {u}
    /\ IF Sessions(u) = {}
       THEN Finish({i \in CallIds : Party(u, i)})
       ELSE UNCHANGED <<calls, armed, view>>
    /\ UNCHANGED <<sock, tuned, placing>>

(* handleDisconnect: the last session of a user in a call opens, or opens  *)
(* anew, the grace window.                                                 *)
Disconnect(s) ==
    /\ Online(s)
    /\ CallerMayDrop \/ ~Placing(s)
    /\ sock' = [sock EXCEPT ![s] = "off"]
    /\ tuned' = tuned \ {s}
    /\ view' = [view EXCEPT ![s] = NoView]
    /\ grace' = IF Sessions(UserOf[s]) = {s} /\ InCall(UserOf[s])
                THEN grace \cup {UserOf[s]} ELSE grace
    /\ UNCHANGED <<placing, calls, armed>>

SocketStep(s) ==
    \/ Connect(s)
    \/ Tune(s)
    \/ Disconnect(s)

CallStep(s, i) ==
    \/ \E l \in Lookups, u \in Users : CallStart(s, l, i, u)
    \/ Accept(s, i)
    \/ Decline(s, i)
    \/ End(s, i)
    \/ Cancel(s, i)

Next ==
    \/ \E s \in Sockets : SocketStep(s)
    \/ \E s \in Sockets, i \in CallIds : CallStep(s, i)
    \/ \E l \in Lookups : CallDone(l) \/ CallRefused(l)
    \/ \E i \in CallIds : RingTimeout(i)
    \/ \E u \in Users : GraceFires(u)

Spec == Init /\ [][Next]_vars

(* Armed timers of the process fire. *)
FairSpec ==
    /\ Spec
    /\ \A i \in CallIds : WF_vars(RingTimeout(i))
    /\ \A u \in Users : WF_vars(GraceFires(u))

-----------------------------------------------------------------------------
(* A user is in one call at a time, whoever calls whom while the lookups   *)
(* are under way ("Uno de los usuarios ya está en una llamada privada.").  *)
OneCallPerUser ==
    \A u \in Users : \A i, j \in CallIds : Party(u, i) /\ Party(u, j) => i = j

(* The 30 s timeout runs for the ringing calls and no other: an answered   *)
(* call is not cut, an id used again is not ended by an old timeout, and   *)
(* no call rings for ever.                                                 *)
RingsAreTimed == \A i \in CallIds : i \in armed <=> calls[i].state = "RINGING"

(* A grace window is open only for a user with no session: reconnecting    *)
(* closes it, so that the next drop gets the whole window again.           *)
GraceMeansGone == \A u \in grace : Sessions(u) = {}

(* Grace window for temporary drops: a party of a call with no session has *)
(* its window running.  It is what ends the call if they do not come back. *)
AbsentHasGrace ==
    \A u \in Users : InCall(u) /\ Sessions(u) = {} => u \in grace

(* The sessions agree with the server: a client believes only in a call of *)
(* its user that exists, in its phase; every session of the one called     *)
(* knows of the ringing, and every session of both that a call is active,  *)
(* those that connected in the middle of it included.                      *)
SessionsAgree ==
    /\ \A s \in Sockets : view[s] # NoView =>
           /\ Party(UserOf[s], view[s].id)
           /\ view[s] = Resumed(UserOf[s], view[s].id)
    /\ \A i \in CallIds, s \in Sockets :
           /\ Online(s)
           /\ \/ calls[i].state = "RINGING" /\ UserOf[s] = calls[i].target
              \/ calls[i].state = "ACTIVE" /\ Party(UserOf[s], i)
           => view[s].id = i

(* The call that u is in.  It is one only by OneCallPerUser. *)
LineOf(u) ==
    LET mine == {i \in CallIds : Party(u, i)}
    IN  IF mine = {} THEN NoCall ELSE calls[CHOOSE i \in mine : TRUE]

UserLines == [u \in Users |-> LineOf(u)]

Lines == INSTANCE PhoneLines WITH line <- UserLines

(* The calls implement the lines of PhoneLines: however lookups, drops,    *)
(* identifiers used again and timers interleave, a call is only ever made  *)
(* between people who are free, and its end frees both and no other.       *)
LinesOfTwo == Lines!Spec

(* No call rings for ever. *)
RingingEnds ==
    \A i \in CallIds : (calls[i].state = "RINGING") ~> (calls[i].state # "RINGING")

(* A call does not outlive for ever a party who does not come back.        *)
GoneCallsEnd ==
    \A u \in Users :
        (InCall(u) /\ Sessions(u) = {}) ~> (~InCall(u) \/ Sessions(u) # {})
=============================================================================
