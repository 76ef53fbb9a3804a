-------------------------- MODULE RadioRooms_proofs --------------------------
(***************************************************************************)
(* Proofs about RadioRooms, for any sockets, users and channels.           *)
(***************************************************************************)
EXTENDS RadioRooms, TLAPS

LEMMA PresentFacts ==
    ASSUME NEW r \in [Sockets -> SUBSET Channels], NEW c
    PROVE  Present(r, c) \subseteq Users
  BY UserOfAssumption DEF Present

LEMMA AnnounceFacts ==
    ASSUME TypeOK, NEW r \in [Sockets -> SUBSET Channels], NEW C, Announce(r, C)
    PROVE  /\ shown' \in [Channels -> SUBSET Users]
           /\ \A c \in Channels :
                 shown'[c] = IF c \in C THEN Present(r, c) ELSE shown[c]
<1>1. shown' = [c \in Channels |-> IF c \in C THEN Present(r, c) ELSE shown[c]]
  BY DEF Announce
<1>2. \A c \in Channels : Present(r, c) \in SUBSET Users
  BY PresentFacts
<1> QED BY <1>1, <1>2 DEF TypeOK

LEMMA TypeInit == Init => TypeOK
  BY DEF Init, TypeOK

(* What a join does to the variables. *)
LEMMA JoinDoneFacts ==
    ASSUME TypeOK, NEW s \in Sockets, NEW c \in Channels, JoinDone(s, c)
    PROVE  /\ rooms' \in [Sockets -> SUBSET Channels]
           /\ rooms' = [rooms EXCEPT ![s] = (@ \ Leaves(s, c)) \cup {c}]
           /\ chan' = [chan EXCEPT ![s] = c]
           /\ public' = [public EXCEPT ![s] = Keeps(s, c)]
           /\ Keeps(s, c) \in Public \cup {None}
           /\ Announce(rooms', {c} \cup Leaves(s, c))
<1>1. rooms' = [rooms EXCEPT ![s] = (@ \ Leaves(s, c)) \cup {c}]
  BY DEF JoinDone
<1>2. (rooms[s] \ Leaves(s, c)) \cup {c} \in SUBSET Channels
  BY DEF TypeOK
<1>3. rooms' \in [Sockets -> SUBSET Channels]
  BY <1>1, <1>2 DEF TypeOK
<1>4. Keeps(s, c) \in Public \cup {None}
  BY DEF Keeps, TypeOK, Channels
<1> QED BY <1>1, <1>3, <1>4 DEF JoinDone

LEMMA TypeNext == TypeOK /\ [Next]_vars => TypeOK'
<1> SUFFICES ASSUME TypeOK, [Next]_vars PROVE TypeOK'
  OBVIOUS
<1>1. ASSUME NEW s \in Sockets, Connect(s) PROVE TypeOK'
  BY <1>1 DEF Connect, TypeOK
<1>2. ASSUME NEW s \in Sockets, NEW c \in Channels, JoinStart(s, c) PROVE TypeOK'
  BY <1>2 DEF JoinStart, TypeOK
<1>3. ASSUME NEW s \in Sockets, NEW c \in Channels, JoinDone(s, c) PROVE TypeOK'
  <2>0. /\ rooms' \in [Sockets -> SUBSET Channels]
        /\ chan' = [chan EXCEPT ![s] = c]
        /\ public' = [public EXCEPT ![s] = Keeps(s, c)]
        /\ Keeps(s, c) \in Public \cup {None}
        /\ Announce(rooms', {c} \cup Leaves(s, c))
    BY <1>3, JoinDoneFacts
  <2>1. shown' \in [Channels -> SUBSET Users]
    BY <2>0, AnnounceFacts
  <2>2. chan' \in [Sockets -> Channels \cup {None}] /\ public' \in [Sockets -> Public \cup {None}]
    BY <2>0 DEF TypeOK
  <2>3. /\ ears' \in [Sockets -> SUBSET Public] /\ ids' \in [Sockets -> SUBSET Public]
        /\ joining' \in [Sockets -> SUBSET Channels]
    BY <1>3 DEF JoinDone, TypeOK
  <2> QED BY <1>3, <2>0, <2>1, <2>2, <2>3 DEF JoinDone, TypeOK
<1>4. ASSUME NEW s \in Sockets, NEW c \in Channels, JoinLost(s, c) PROVE TypeOK'
  <2>1. shown' \in [Channels -> SUBSET Users]
    BY <1>4, AnnounceFacts DEF JoinLost, TypeOK
  <2> QED BY <1>4, <2>1 DEF JoinLost, TypeOK
<1>5. ASSUME NEW s \in Sockets, NEW c \in Channels, Leave(s, c) PROVE TypeOK'
  <2>1. rooms' \in [Sockets -> SUBSET Channels] /\ Announce(rooms', {c})
    BY <1>5 DEF Leave, TypeOK
  <2>2. shown' \in [Channels -> SUBSET Users]
    BY <2>1, AnnounceFacts
  <2> QED BY <1>5, <2>1, <2>2 DEF Leave, TypeOK
<1>6. ASSUME NEW s \in Sockets, NEW c \in Public,
             ListenStart(s, c) \/ ListenDone(s, c) \/ ListenLost(s, c)
      PROVE  TypeOK'
  BY <1>6 DEF ListenStart, ListenDone, ListenLost, TypeOK
<1>7. ASSUME NEW s \in Sockets, NEW C, Unlisten(s, C) PROVE TypeOK'
  BY <1>7 DEF Unlisten, TypeOK
<1>8. ASSUME NEW s \in Sockets, Disconnect(s) PROVE TypeOK'
  <2>1. rooms' \in [Sockets -> SUBSET Channels] /\ Announce(rooms', Affected(s))
    BY <1>8 DEF Disconnect, TypeOK
  <2>2. shown' \in [Channels -> SUBSET Users]
    BY <2>1, AnnounceFacts
  <2> QED BY <1>8, <2>1, <2>2 DEF Disconnect, TypeOK
<1>9. CASE UNCHANGED vars
  BY <1>9 DEF vars, TypeOK
<1> QED BY <1>1, <1>2, <1>3, <1>4, <1>5, <1>6, <1>7, <1>8, <1>9 DEF Next

(* Every variable of the rooms keeps to its type. *)
THEOREM RoomTypes == Spec => []TypeOK
  BY TypeInit, TypeNext, PTL DEF Spec

-----------------------------------------------------------------------------
(* Steps that touch neither the rooms nor the channels of a socket. *)
LEMMA RoomSteps ==
    ASSUME [Next]_vars
    PROVE  \/ \E s \in Sockets, c \in Channels : JoinDone(s, c) \/ Leave(s, c)
           \/ \E s \in Sockets : Disconnect(s)
           \/ UNCHANGED <<chan, public, rooms>>
  BY DEF Next, Connect, JoinStart, JoinLost, ListenStart, ListenDone, ListenLost,
         Unlisten, vars

(* A socket whose channel is public keeps that one and no other.           *)
KeptIsCurrent == \A s \in Sockets : chan[s] \in Public => chan[s] = public[s]

Tracked == RoomsTracked /\ KeptIsCurrent

LEMMA TrackedNext == TypeOK /\ Tracked /\ [Next]_vars => Tracked'
<1> SUFFICES ASSUME TypeOK, Tracked, [Next]_vars, NEW t \in Sockets
             PROVE  /\ rooms'[t] = {chan'[t], public'[t]} \ {None}
                    /\ chan'[t] \in Public => chan'[t] = public'[t]
  BY DEF Tracked, RoomsTracked, KeptIsCurrent
<1>0. /\ rooms[t] = {chan[t], public[t]} \ {None}
      /\ chan[t] \in Public => chan[t] = public[t]
  BY DEF Tracked, RoomsTracked, KeptIsCurrent
<1>1. ASSUME NEW s \in Sockets, NEW c \in Channels, JoinDone(s, c)
      PROVE  /\ rooms'[t] = {chan'[t], public'[t]} \ {None}
             /\ chan'[t] \in Public => chan'[t] = public'[t]
  <2>0. /\ rooms' = [rooms EXCEPT ![s] = (@ \ Leaves(s, c)) \cup {c}]
        /\ chan' = [chan EXCEPT ![s] = c]
        /\ public' = [public EXCEPT ![s] = Keeps(s, c)]
    BY <1>1, JoinDoneFacts
  <2>1. CASE s # t
    BY <1>0, <2>0, <2>1 DEF TypeOK
  <2>2. CASE s = t
    <3>1. /\ rooms'[t] = (rooms[t] \ Leaves(t, c)) \cup {c}
          /\ chan'[t] = c /\ public'[t] = Keeps(t, c)
      BY <2>0, <2>2 DEF TypeOK
    <3>2. c # None /\ chan[t] \in Channels \cup {None} /\ public[t] \in Public \cup {None}
      BY NoneAssumption DEF TypeOK, Channels
    <3>3. CASE c \in Private
      BY <1>0, <3>1, <3>2, <3>3, NoneAssumption, ChannelsAssumption
         DEF Leaves, Keeps, Channels
    <3>4. CASE c \notin Private
      <4>1. Leaves(t, c) = rooms[t] \ {c}
        BY <3>4 DEF Leaves
      <4> QED BY <3>1, <3>2, <3>4, <4>1 DEF Keeps
    <3> QED BY <3>3, <3>4
  <2> QED BY <2>1, <2>2
<1>2. ASSUME NEW s \in Sockets, NEW c \in Channels, Leave(s, c)
      PROVE  /\ rooms'[t] = {chan'[t], public'[t]} \ {None}
             /\ chan'[t] \in Public => chan'[t] = public'[t]
  <2>1. CASE s # t
    BY <1>0, <1>2, <2>1 DEF Leave, TypeOK
  <2>2. CASE s = t
    BY <1>0, <1>2, <2>2, NoneAssumption DEF Leave, TypeOK, Channels
  <2> QED BY <2>1, <2>2
<1>3. ASSUME NEW s \in Sockets, Disconnect(s)
      PROVE  /\ rooms'[t] = {chan'[t], public'[t]} \ {None}
             /\ chan'[t] \in Public => chan'[t] = public'[t]
  BY <1>0, <1>3, NoneAssumption DEF Disconnect, TypeOK, Channels
<1>4. CASE UNCHANGED <<chan, public, rooms>>
  BY <1>0, <1>4
<1> QED BY <1>1, <1>2, <1>3, <1>4, RoomSteps

LEMMA TrackedInit == Init => Tracked
  BY NoneAssumption DEF Init, Tracked, RoomsTracked, KeptIsCurrent, Channels

(* The rooms of a socket are those its data names, in whatever order its   *)
(* joins and leaves are answered.                                          *)
THEOREM DataTracksRooms == Spec => []RoomsTracked
<1>1. Tracked => RoomsTracked
  BY DEF Tracked
<1> QED BY <1>1, TrackedInit, TrackedNext, TypeInit, TypeNext, PTL DEF Spec

-----------------------------------------------------------------------------
(* A socket that is offline is in no room. *)
LEMMA PresentSame ==
    ASSUME TypeOK, NEW s \in Sockets, NEW S, NEW c,
           rooms' = [rooms EXCEPT ![s] = S], c \in rooms[s] <=> c \in S
    PROVE  Present(rooms', c) = Present(rooms, c)
<1>1. {t \in Sockets : c \in rooms'[t]} = {t \in Sockets : c \in rooms[t]}
  BY DEF TypeOK
<1> QED BY <1>1 DEF Present

LEMMA PresenceNext == TypeOK /\ Tracked /\ PresenceExact /\ [Next]_vars => PresenceExact'
<1> SUFFICES ASSUME TypeOK, Tracked, PresenceExact, [Next]_vars, NEW d \in Channels
             PROVE  shown'[d] = Present(rooms', d)
  BY DEF PresenceExact
<1>0. shown[d] = Present(rooms, d)
  BY DEF PresenceExact
<1>1. ASSUME NEW s \in Sockets, NEW c \in Channels, JoinDone(s, c)
      PROVE  shown'[d] = Present(rooms', d)
  <2>1. shown'[d] = IF d \in {c} \cup Leaves(s, c) THEN Present(rooms', d) ELSE shown[d]
    <3>1. /\ rooms' \in [Sockets -> SUBSET Channels]
          /\ Announce(rooms', {c} \cup Leaves(s, c))
      BY <1>1, JoinDoneFacts
    <3> QED BY <3>1, AnnounceFacts
  <2>2. CASE d \notin {c} \cup Leaves(s, c)
    <3>1. d \in rooms[s] <=> d \in (rooms[s] \ Leaves(s, c)) \cup {c}
      BY <2>2
    <3>2. rooms' = [rooms EXCEPT ![s] = (rooms[s] \ Leaves(s, c)) \cup {c}]
      BY <1>1, JoinDoneFacts
    <3>3. Present(rooms', d) = Present(rooms, d)
      BY <3>1, <3>2, PresentSame
    <3> QED BY <1>0, <2>1, <2>2, <3>3
  <2> QED BY <2>1, <2>2
<1>2. ASSUME NEW s \in Sockets, NEW c \in Channels, JoinLost(s, c)
      PROVE  shown'[d] = Present(rooms', d)
  <2>1. rooms' = rooms
    BY <1>2 DEF JoinLost
  <2>2. shown'[d] = shown[d] \/ shown'[d] = Present(rooms, d)
    BY <1>2, AnnounceFacts DEF JoinLost, TypeOK
  <2> QED BY <1>0, <2>1, <2>2
<1>3. ASSUME NEW s \in Sockets, NEW c \in Channels, Leave(s, c)
      PROVE  shown'[d] = Present(rooms', d)
  <2>1. rooms' \in [Sockets -> SUBSET Channels] /\ Announce(rooms', {c})
    BY <1>3 DEF Leave, TypeOK
  <2>2. shown'[d] = IF d \in {c} THEN Present(rooms', d) ELSE shown[d]
    BY <2>1, AnnounceFacts
  <2>3. CASE d # c
    <3>1. d \in rooms[s] <=> d \in rooms[s] \ {c}
      BY <2>3
    <3>2. rooms' = [rooms EXCEPT ![s] = rooms[s] \ {c}]
      BY <1>3 DEF Leave
    <3>3. Present(rooms', d) = Present(rooms, d)
      BY <3>1, <3>2, PresentSame
    <3> QED BY <1>0, <2>2, <2>3, <3>3
  <2> QED BY <2>2, <2>3
<1>4. ASSUME NEW s \in Sockets, Disconnect(s) PROVE shown'[d] = Present(rooms', d)
  <2>1. rooms' \in [Sockets -> SUBSET Channels] /\ Announce(rooms', Affected(s))
    BY <1>4 DEF Disconnect, TypeOK
  <2>2. shown'[d] = IF d \in Affected(s) THEN Present(rooms', d) ELSE shown[d]
    BY <2>1, AnnounceFacts
  <2>3. CASE d \notin Affected(s)
    <3>1. d \in rooms[s] <=> d \in {}
      BY <2>3 DEF Affected, Tracked, RoomsTracked
    <3>2. rooms' = [rooms EXCEPT ![s] = {}]
      BY <1>4 DEF Disconnect
    <3>3. Present(rooms', d) = Present(rooms, d)
      BY <3>1, <3>2, PresentSame
    <3> QED BY <1>0, <2>2, <2>3, <3>3
  <2> QED BY <2>2, <2>3
<1>5. CASE UNCHANGED <<rooms, shown>>
  BY <1>0, <1>5
<1> QED
  BY <1>1, <1>2, <1>3, <1>4, <1>5
     DEF Next, Connect, JoinStart, ListenStart, ListenDone, ListenLost, Unlisten, vars

(* The presence a channel was last told of is exact: handleDisconnect,     *)
(* which no longer sees the rooms, finds in the data all that the socket   *)
(* was in.                                                                 *)
THEOREM PresenceIsExact == Spec => []PresenceExact
<1>1. Init => PresenceExact
  BY DEF Init, PresenceExact, Present
<1> QED
  BY <1>1, TrackedInit, TrackedNext, PresenceNext, TypeInit, TypeNext, PTL DEF Spec

(* After channel:unlisten-important a socket hears nothing of the channel. *)
THEOREM EarsSubscribed == Spec => []EarsAreSubscribed
<1>1. Init => EarsAreSubscribed
  BY DEF Init, EarsAreSubscribed
<1>2. TypeOK /\ EarsAreSubscribed /\ [Next]_vars => EarsAreSubscribed'
  <2> SUFFICES ASSUME TypeOK, EarsAreSubscribed, [Next]_vars, NEW t \in Sockets
               PROVE  ears'[t] \subseteq ids'[t]
    BY DEF EarsAreSubscribed
  <2>0. ears[t] \subseteq ids[t]
    BY DEF EarsAreSubscribed
  <2>1. ASSUME NEW s \in Sockets, NEW c \in Channels, JoinDone(s, c)
        PROVE  ears'[t] \subseteq ids'[t]
    BY <2>0, <2>1 DEF JoinDone, TypeOK
  <2>2. ASSUME NEW s \in Sockets, NEW c \in Public, ListenDone(s, c)
        PROVE  ears'[t] \subseteq ids'[t]
    BY <2>0, <2>2 DEF ListenDone, TypeOK
  <2>3. ASSUME NEW s \in Sockets, NEW C, Unlisten(s, C) PROVE ears'[t] \subseteq ids'[t]
    BY <2>0, <2>3 DEF Unlisten, TypeOK
  <2>4. ASSUME NEW s \in Sockets, Disconnect(s) PROVE ears'[t] \subseteq ids'[t]
    BY <2>0, <2>4 DEF Disconnect, TypeOK
  <2>5. CASE UNCHANGED <<ears, ids>>
    BY <2>0, <2>5
  <2> QED
    BY <2>1, <2>2, <2>3, <2>4, <2>5
       DEF Next, Connect, JoinStart, JoinLost, Leave, ListenStart, ListenLost, vars
<1> QED BY <1>1, <1>2, TypeInit, TypeNext, PTL DEF Spec

(* Listening to the channel one talks in does not enter its important      *)
(* room, and moving to a channel leaves that room.                         *)
LEMMA HeardNext ==
    TypeOK /\ EarsAreSubscribed /\ HeardOnce /\ [Next]_vars => HeardOnce'
<1> SUFFICES ASSUME TypeOK, EarsAreSubscribed, HeardOnce, [Next]_vars,
                    NEW t \in Sockets
             PROVE  chan'[t] \notin ears'[t]
  BY DEF HeardOnce
<1>0. chan[t] \notin ears[t] /\ ears[t] \subseteq ids[t]
  BY DEF HeardOnce, EarsAreSubscribed
<1>n. None \notin ears[t]
  BY NoneAssumption DEF TypeOK
<1>1. ASSUME NEW s \in Sockets, NEW c \in Channels, JoinDone(s, c)
      PROVE  chan'[t] \notin ears'[t]
  BY <1>0, <1>1 DEF JoinDone, TypeOK
<1>2. ASSUME NEW s \in Sockets, NEW c \in Public, ListenDone(s, c)
      PROVE  chan'[t] \notin ears'[t]
  BY <1>0, <1>2 DEF ListenDone, TypeOK
<1>3. ASSUME NEW s \in Sockets, NEW c \in Channels, Leave(s, c)
      PROVE  chan'[t] \notin ears'[t]
  BY <1>0, <1>n, <1>3 DEF Leave, TypeOK
<1>4. ASSUME NEW s \in Sockets, NEW C, Unlisten(s, C)
      PROVE  chan'[t] \notin ears'[t]
  BY <1>0, <1>4 DEF Unlisten, TypeOK
<1>5. ASSUME NEW s \in Sockets, Disconnect(s) PROVE chan'[t] \notin ears'[t]
  BY <1>0, <1>5 DEF Disconnect, TypeOK
<1>6. CASE UNCHANGED <<chan, ears>>
  BY <1>0, <1>6
<1> QED
  BY <1>1, <1>2, <1>3, <1>4, <1>5, <1>6
     DEF Next, Connect, JoinStart, JoinLost, ListenStart, ListenLost, vars

(* No socket is a listener of the channel it talks in, in whatever order   *)
(* its joins and subscriptions are answered.                               *)
THEOREM NobodyHearsTwice == Spec => []HeardOnce
<1>1. Init => HeardOnce
  BY DEF Init, HeardOnce
<1> QED
  BY <1>1, HeardNext, EarsSubscribed, TypeInit, TypeNext, PTL DEF Spec
=============================================================================
