------------------------- MODULE PrivateCalls_proofs -------------------------
(***************************************************************************)
(* Proofs about PrivateCalls, for any sockets, users and calls.            *)
(***************************************************************************)
EXTENDS PrivateCalls, TLAPS

CallRecords ==
    [caller : Users \cup {None}, target : Users \cup {None},
     state : {"NONE", "RINGING", "ACTIVE"}]

ViewRecords ==
    [id : CallIds \cup {None}, phase : {"NONE", "OUTGOING", "INCOMING", "ACTIVE"}]

PlacingRecords == [sock : Sockets, id : CallIds, target : Users]

LEMMA RecordFacts ==
    /\ NoCall \in CallRecords /\ NoCall.state = "NONE"
    /\ NotPlacing \notin PlacingRecords /\ NotPlacing.sock = None
    /\ NoView \in ViewRecords /\ NoView.id = None /\ NoView.phase = "NONE"
  BY NoneAssumption DEF NoCall, NotPlacing, NoView, CallRecords, ViewRecords, PlacingRecords

LEMMA ResumedFacts ==
    ASSUME NEW u, NEW i \in CallIds
    PROVE  /\ Resumed(u, i) \in ViewRecords
           /\ Resumed(u, i).id = i /\ Resumed(u, i).phase # "NONE"
  BY DEF Resumed, ViewRecords

(* finishPrivateCall of the calls I. *)
LEMMA FinishFacts ==
    ASSUME TypeOK, NEW I, Finish(I)
    PROVE  /\ calls' \in [CallIds -> CallRecords]
           /\ view' \in [Sockets -> ViewRecords]
           /\ armed' = armed \ I
           /\ \A i \in CallIds : calls'[i] = IF i \in I THEN NoCall ELSE calls[i]
           /\ \A s \in Sockets : view'[s] =
                  IF Online(s) /\ view[s].id \in I /\ Party(UserOf[s], view[s].id)
                  THEN NoView ELSE view[s]
  BY RecordFacts DEF Finish, TypeOK, CallRecords, ViewRecords

(* The call that CallDone(l) makes. *)
Made(l) ==
    [caller |-> UserOf[placing[l].sock], target |-> placing[l].target, state |-> "RINGING"]

(* A handler in flight looks up a call of a socket. *)
LEMMA PlacingFacts ==
    ASSUME TypeOK, NEW l \in Lookups, placing[l] # NotPlacing
    PROVE  /\ placing[l].sock \in Sockets /\ placing[l].id \in CallIds
           /\ placing[l].target \in Users /\ UserOf[placing[l].sock] \in Users
           /\ Placing(placing[l].sock)
<1>1. placing[l] \in PlacingRecords
  BY DEF TypeOK, PlacingRecords
<1> QED BY <1>1, UserOfAssumption DEF PlacingRecords, Placing

LEMMA CallDoneFacts ==
    ASSUME TypeOK, NEW l \in Lookups, CallDone(l)
    PROVE  /\ placing[l].sock \in Sockets
           /\ placing[l].id \in CallIds /\ placing[l].target \in Users
           /\ Placing(placing[l].sock)
           /\ Made(l) \in CallRecords
           /\ ~Live(placing[l].id)
           /\ \A i \in CallIds :
                 calls'[i] = IF i = placing[l].id THEN Made(l) ELSE calls[i]
           /\ calls' \in [CallIds -> CallRecords]
           /\ armed' = armed \cup {placing[l].id}
           /\ placing' = [placing EXCEPT ![l] = NotPlacing]
           /\ view' \in [Sockets -> ViewRecords]
           /\ UNCHANGED <<sock, tuned, grace>>
<1> DEFINE i == placing[l].id
           target == placing[l].target
<1>1. /\ placing[l].sock \in Sockets /\ Placing(placing[l].sock)
      /\ i \in CallIds /\ target \in Users
  BY PlacingFacts DEF CallDone
<1>2. ~Live(i)
  BY DEF CallDone
<1>3. Made(l) \in CallRecords
  BY <1>1, UserOfAssumption DEF Made, CallRecords
<1>4. calls' = [calls EXCEPT ![i] = Made(l)]
  BY DEF CallDone, Made
<1>5. calls' \in [CallIds -> CallRecords] /\ \A j \in CallIds :
         calls'[j] = IF j = i THEN Made(l) ELSE calls[j]
  BY <1>1, <1>3, <1>4 DEF TypeOK, CallRecords
<1>6. /\ [id |-> i, phase |-> "OUTGOING"] \in ViewRecords
      /\ [id |-> i, phase |-> "INCOMING"] \in ViewRecords
  BY <1>1 DEF ViewRecords
<1>7. view' \in [Sockets -> ViewRecords]
  BY <1>6 DEF CallDone, TypeOK, ViewRecords
<1> QED
  BY <1>1, <1>2, <1>3, <1>5, <1>7 DEF CallDone

LEMMA AcceptFacts ==
    ASSUME TypeOK, NEW s \in Sockets, NEW i \in CallIds, Accept(s, i)
    PROVE  /\ calls' \in [CallIds -> CallRecords]
           /\ view' \in [Sockets -> ViewRecords]
           /\ \A j \in CallIds :
                 /\ calls'[j].caller = calls[j].caller
                 /\ calls'[j].target = calls[j].target
                 /\ calls'[j].state = IF j = i THEN "ACTIVE" ELSE calls[j].state
<1>1. [id |-> i, phase |-> "ACTIVE"] \in ViewRecords
  BY DEF ViewRecords
<1>2. view' \in [Sockets -> ViewRecords]
  BY <1>1 DEF Accept, Told, TypeOK, ViewRecords
<1>3. calls' = [calls EXCEPT ![i].state = "ACTIVE"]
  BY DEF Accept
<1>4. calls \in [CallIds -> CallRecords]
  BY DEF TypeOK, CallRecords
<1>5. [calls[i] EXCEPT !.state = "ACTIVE"] \in CallRecords
  BY <1>4 DEF CallRecords
<1>6. calls' \in [CallIds -> CallRecords]
  BY <1>3, <1>4, <1>5
<1> QED BY <1>2, <1>3, <1>4, <1>6 DEF CallRecords

-----------------------------------------------------------------------------
LEMMA TypeInit == Init => TypeOK
  BY RecordFacts DEF Init, TypeOK, CallRecords, ViewRecords

LEMMA TypeNext == TypeOK /\ [Next]_vars => TypeOK'
<1> SUFFICES ASSUME TypeOK, [Next]_vars PROVE TypeOK'
  OBVIOUS
<1>1. ASSUME NEW s \in Sockets, Connect(s) PROVE TypeOK'
  <2>1. view' \in [Sockets -> ViewRecords]
    BY <1>1, ResumedFacts DEF Connect, TypeOK, ViewRecords
  <2>2. sock' \in [Sockets -> {"new", "on", "off"}] /\ grace' \subseteq Users
    BY <1>1 DEF Connect, TypeOK
  <2> QED BY <1>1, <2>1, <2>2 DEF Connect, TypeOK, ViewRecords
<1>2. ASSUME NEW s \in Sockets, Tune(s) PROVE TypeOK'
  BY <1>2 DEF Tune, TypeOK
<1>3. ASSUME NEW s \in Sockets, NEW l \in Lookups, NEW i \in CallIds, NEW u \in Users,
             CallStart(s, l, i, u)
      PROVE  TypeOK'
  <2>1. [sock |-> s, id |-> i, target |-> u] \in PlacingRecords
    BY DEF PlacingRecords
  <2> QED BY <1>3, <2>1 DEF CallStart, TypeOK, PlacingRecords
<1>4. ASSUME NEW l \in Lookups, CallDone(l) PROVE TypeOK'
  <2>1. /\ calls' \in [CallIds -> CallRecords]
        /\ view' \in [Sockets -> ViewRecords]
        /\ armed' \subseteq CallIds
        /\ UNCHANGED <<sock, tuned, grace>>
    BY <1>4, CallDoneFacts DEF TypeOK
  <2>2. placing' \in [Lookups -> {NotPlacing} \cup PlacingRecords]
    BY <1>4, CallDoneFacts DEF TypeOK, PlacingRecords
  <2> QED BY <2>1, <2>2 DEF TypeOK, CallRecords, ViewRecords, PlacingRecords
<1>5. ASSUME NEW l \in Lookups, CallRefused(l) PROVE TypeOK'
  BY <1>5 DEF CallRefused, TypeOK
<1>6. ASSUME NEW s \in Sockets, NEW i \in CallIds, Accept(s, i) PROVE TypeOK'
  <2>1. armed' \subseteq CallIds /\ UNCHANGED <<sock, tuned, placing, grace>>
    BY <1>6 DEF Accept, TypeOK
  <2> QED BY <1>6, <2>1, AcceptFacts DEF TypeOK, CallRecords, ViewRecords
<1>7. ASSUME NEW I, Finish(I), UNCHANGED <<sock, tuned, placing>>, grace' \subseteq grace
      PROVE  TypeOK'
  BY <1>7, FinishFacts DEF TypeOK, CallRecords, ViewRecords
<1>8. ASSUME NEW s \in Sockets, NEW i \in CallIds, Decline(s, i) \/ End(s, i) \/ Cancel(s, i)
      PROVE  TypeOK'
  BY <1>7, <1>8 DEF Decline, End, Cancel
<1>9. ASSUME NEW i \in CallIds, RingTimeout(i) PROVE TypeOK'
  BY <1>7, <1>9 DEF RingTimeout
<1>10. ASSUME NEW u \in Users, GraceFires(u) PROVE TypeOK'
  <2>1. CASE Sessions(u) = {}
    BY <1>7, <1>10, <2>1 DEF GraceFires
  <2>2. CASE Sessions(u) # {}
    BY <1>10, <2>2 DEF GraceFires, TypeOK
  <2> QED BY <2>1, <2>2
<1>11. ASSUME NEW s \in Sockets, Disconnect(s) PROVE TypeOK'
  <2>1. view' \in [Sockets -> ViewRecords]
    BY <1>11, RecordFacts DEF Disconnect, TypeOK, ViewRecords
  <2>2. /\ sock' \in [Sockets -> {"new", "on", "off"}]
        /\ tuned' \subseteq Sockets
        /\ grace' \subseteq Users
    BY <1>11, UserOfAssumption DEF Disconnect, TypeOK
  <2> QED BY <1>11, <2>1, <2>2 DEF Disconnect, TypeOK, ViewRecords
<1>12. CASE UNCHANGED vars
  BY <1>12 DEF vars, TypeOK
<1> QED
  BY <1>1, <1>2, <1>3, <1>4, <1>5, <1>6, <1>8, <1>9, <1>10, <1>11, <1>12
     DEF Next, SocketStep, CallStep

(* Every variable of the calls keeps to its type. *)
THEOREM CallTypes == Spec => []TypeOK
  BY TypeInit, TypeNext, PTL DEF Spec

-----------------------------------------------------------------------------
(* What a step does to the calls: one is made, one is accepted, some are   *)
(* finished and their timeouts cleared, or none changes.                   *)
LEMMA StepKinds ==
    ASSUME TypeOK, [Next]_vars
    PROVE  \/ \E l \in Lookups : CallDone(l)
           \/ \E s \in Sockets, i \in CallIds : Accept(s, i)
           \/ \E I : Finish(I)
           \/ UNCHANGED <<calls, armed>>
<1>1. ASSUME NEW s \in Sockets, NEW i \in CallIds, Decline(s, i) \/ End(s, i) \/ Cancel(s, i)
      PROVE  Finish({i})
  BY <1>1 DEF Decline, End, Cancel
<1>2. ASSUME NEW i \in CallIds, RingTimeout(i) PROVE Finish({i})
  BY <1>2 DEF RingTimeout
<1>3. ASSUME NEW u \in Users, GraceFires(u)
      PROVE  (\E I : Finish(I)) \/ UNCHANGED <<calls, armed>>
  BY <1>3 DEF GraceFires
<1>4. ASSUME NEW s \in Sockets, Connect(s) \/ Tune(s) \/ Disconnect(s)
      PROVE  UNCHANGED <<calls, armed>>
  BY <1>4 DEF Connect, Tune, Disconnect
<1>5. ASSUME NEW s \in Sockets, NEW l \in Lookups, NEW i \in CallIds, NEW u \in Users,
             CallStart(s, l, i, u)
      PROVE  UNCHANGED <<calls, armed>>
  BY <1>5 DEF CallStart
<1>6. ASSUME NEW l \in Lookups, CallRefused(l) PROVE UNCHANGED <<calls, armed>>
  BY <1>6 DEF CallRefused
<1>7. CASE UNCHANGED vars
  BY <1>7 DEF vars
<1> QED
  BY <1>1, <1>2, <1>3, <1>4, <1>5, <1>6, <1>7 DEF Next, SocketStep, CallStep

LEMMA OneCallNext == TypeOK /\ OneCallPerUser /\ [Next]_vars => OneCallPerUser'
<1> SUFFICES ASSUME TypeOK, OneCallPerUser, [Next]_vars,
                    NEW u \in Users, NEW i \in CallIds, NEW j \in CallIds,
                    Party(u, i)', Party(u, j)'
             PROVE  i = j
  BY DEF OneCallPerUser
<1>1. CASE \E l \in Lookups : CallDone(l)
  <2> PICK l \in Lookups : CallDone(l)
    BY <1>1
  <2> PICK m \in CallIds : m = placing[l].id
    BY CallDoneFacts
  <2>1. \A k \in CallIds \ {m} : Party(u, k)' => Party(u, k)
    BY CallDoneFacts DEF Party, Live
  <2>2. Party(u, m)' => u \in {UserOf[placing[l].sock], placing[l].target}
    <3>1. calls'[m] = Made(l)
      BY CallDoneFacts
    <3> QED BY <3>1 DEF Party, Made
  <2>3. ~InCall(UserOf[placing[l].sock]) /\ ~InCall(placing[l].target)
    BY DEF CallDone, Vacant
  <2> QED BY <2>1, <2>2, <2>3 DEF InCall, OneCallPerUser
<1>2. CASE \E s \in Sockets, k \in CallIds : Accept(s, k)
  <2> PICK s \in Sockets, k \in CallIds : Accept(s, k)
    BY <1>2
  <2>1. \A l \in CallIds : Party(u, l)' => Party(u, l)
    BY AcceptFacts DEF Party, Live, Accept
  <2> QED BY <2>1 DEF OneCallPerUser
<1>3. CASE \E I : Finish(I)
  <2>1. \A k \in CallIds : Party(u, k)' => Party(u, k)
    BY <1>3, FinishFacts, RecordFacts DEF Party, Live
  <2> QED BY <2>1 DEF OneCallPerUser
<1>4. CASE UNCHANGED <<calls, armed>>
  BY <1>4 DEF OneCallPerUser, Party, Live
<1> QED BY <1>1, <1>2, <1>3, <1>4, StepKinds

(* A user is never in two calls, however many lookups are under way.       *)
THEOREM OneCall == Spec => []OneCallPerUser
<1>1. Init => OneCallPerUser
  BY RecordFacts DEF Init, OneCallPerUser, Party, Live
<1> QED BY <1>1, OneCallNext, TypeInit, TypeNext, PTL DEF Spec

LEMMA RingsNext == TypeOK /\ RingsAreTimed /\ [Next]_vars => RingsAreTimed'
<1> SUFFICES ASSUME TypeOK, RingsAreTimed, [Next]_vars PROVE RingsAreTimed'
  OBVIOUS
<1>1. CASE \E l \in Lookups : CallDone(l)
  <2> PICK l \in Lookups : CallDone(l)
    BY <1>1
  <2> PICK m \in CallIds : m = placing[l].id
    BY CallDoneFacts
  <2>1. calls'[m].state = "RINGING" /\ armed' = armed \cup {m}
    <3>1. calls'[m] = Made(l) /\ armed' = armed \cup {m}
      BY CallDoneFacts
    <3> QED BY <3>1 DEF Made
  <2>2. \A k \in CallIds \ {m} : calls'[k] = calls[k]
    BY CallDoneFacts
  <2> QED BY <2>1, <2>2 DEF RingsAreTimed
<1>2. CASE \E s \in Sockets, k \in CallIds : Accept(s, k)
  <2> PICK s \in Sockets, k \in CallIds : Accept(s, k)
    BY <1>2
  <2>1. armed' = armed \ {k}
    BY DEF Accept
  <2> QED BY <2>1, AcceptFacts DEF RingsAreTimed
<1>3. CASE \E I : Finish(I)
  BY <1>3, FinishFacts, RecordFacts DEF RingsAreTimed
<1>4. CASE UNCHANGED <<calls, armed>>
  BY <1>4 DEF RingsAreTimed
<1> QED BY <1>1, <1>2, <1>3, <1>4, StepKinds

(* The timeout runs for exactly the calls that ring.                       *)
THEOREM RingsTimed == Spec => []RingsAreTimed
<1>1. Init => RingsAreTimed
  BY RecordFacts DEF Init, RingsAreTimed
<1> QED BY <1>1, RingsNext, TypeInit, TypeNext, PTL DEF Spec

-----------------------------------------------------------------------------
(* Connecting adds a session of one user, disconnecting takes it away.     *)
LEMMA SessionsFacts ==
    ASSUME TypeOK, NEW u \in Users
    PROVE  /\ \A s \in Sockets : Connect(s) =>
                 Sessions(u)' = IF UserOf[s] = u THEN Sessions(u) \cup {s} ELSE Sessions(u)
           /\ \A s \in Sockets : Disconnect(s) => Sessions(u)' = Sessions(u) \ {s}
           /\ UNCHANGED sock => Sessions(u)' = Sessions(u)
<1>1. ASSUME NEW s \in Sockets, Connect(s)
      PROVE  Sessions(u)' = IF UserOf[s] = u THEN Sessions(u) \cup {s} ELSE Sessions(u)
  BY <1>1 DEF Connect, Sessions, Online, TypeOK
<1>2. ASSUME NEW s \in Sockets, Disconnect(s) PROVE Sessions(u)' = Sessions(u) \ {s}
  BY <1>2 DEF Disconnect, Sessions, Online, TypeOK
<1>3. UNCHANGED sock => Sessions(u)' = Sessions(u)
  BY DEF Sessions, Online
<1> QED BY <1>1, <1>2, <1>3

(* No other step changes the life of a socket, or opens a grace window.    *)
LEMMA OtherSteps ==
    ASSUME [Next]_vars, ~ \E s \in Sockets : Connect(s) \/ Disconnect(s)
    PROVE  UNCHANGED sock /\ grace' \subseteq grace
  BY DEF Next, SocketStep, CallStep, Tune, CallStart, CallDone, CallRefused,
         Accept, Decline, End, Cancel, RingTimeout, GraceFires, vars

LEMMA GraceNext == TypeOK /\ GraceMeansGone /\ [Next]_vars => GraceMeansGone'
<1> SUFFICES ASSUME TypeOK, GraceMeansGone, [Next]_vars, NEW u \in Users, u \in grace'
             PROVE  Sessions(u)' = {}
  BY TypeNext DEF GraceMeansGone, TypeOK
<1>1. ASSUME NEW s \in Sockets, Connect(s) PROVE Sessions(u)' = {}
  BY <1>1, SessionsFacts DEF Connect, GraceMeansGone
<1>2. ASSUME NEW s \in Sockets, Disconnect(s) PROVE Sessions(u)' = {}
  <2>1. Sessions(u) = {} \/ Sessions(u) = {s}
    BY <1>2 DEF Disconnect, GraceMeansGone
  <2> QED BY <1>2, <2>1, SessionsFacts
<1>3. CASE ~ \E s \in Sockets : Connect(s) \/ Disconnect(s)
  BY <1>3, OtherSteps, SessionsFacts DEF GraceMeansGone
<1> QED BY <1>1, <1>2, <1>3

(* Reconnecting always closes the window.                                  *)
THEOREM WindowMeansGone == Spec => []GraceMeansGone
<1>1. Init => GraceMeansGone
  BY DEF Init, GraceMeansGone
<1> QED BY <1>1, GraceNext, TypeInit, TypeNext, PTL DEF Spec

(* Whose call is being looked up is connected, if nobody drops then.       *)
PlacersOnline == \A s \in Sockets : Placing(s) => Online(s)

LEMMA PlacersNext ==
    ASSUME ~CallerMayDrop
    PROVE  TypeOK /\ PlacersOnline /\ [Next]_vars => PlacersOnline'
<1> SUFFICES ASSUME TypeOK, PlacersOnline, [Next]_vars, NEW t \in Sockets, Placing(t)'
             PROVE  Online(t)'
  BY DEF PlacersOnline
<1>1. ASSUME NEW s \in Sockets, Connect(s) \/ Disconnect(s) PROVE Online(t)'
  BY <1>1 DEF Connect, Disconnect, Online, Placing, PlacersOnline, TypeOK
<1>2. ASSUME NEW s \in Sockets, NEW l \in Lookups, NEW i \in CallIds, NEW u \in Users,
             CallStart(s, l, i, u)
      PROVE  Online(t)'
  BY <1>2 DEF CallStart, Online, Placing, PlacersOnline, TypeOK
<1>3. ASSUME NEW l \in Lookups, CallDone(l) \/ CallRefused(l) PROVE Online(t)'
  <2>1. placing' = [placing EXCEPT ![l] = NotPlacing] /\ UNCHANGED sock
    BY <1>3 DEF CallDone, CallRefused
  <2> QED
    BY <2>1, RecordFacts, NoneAssumption DEF Online, Placing, PlacersOnline, TypeOK
<1>4. CASE UNCHANGED <<sock, placing>>
  BY <1>4 DEF Online, Placing, PlacersOnline
<1> QED
  BY <1>1, <1>2, <1>3, <1>4
     DEF Next, SocketStep, CallStep, Tune, Accept, Decline, End, Cancel,
         RingTimeout, GraceFires, vars

(* No step but CallDone puts a user into a call.                           *)
LEMMA InCallBefore ==
    ASSUME TypeOK, [Next]_vars, NEW u \in Users, InCall(u)'
    PROVE  InCall(u) \/ \E l \in Lookups : CallDone(l)
<1>1. ASSUME NEW s \in Sockets, NEW k \in CallIds, Accept(s, k) PROVE InCall(u)
  BY <1>1, AcceptFacts DEF InCall, Party, Live, Accept
<1>2. CASE \E I : Finish(I)
  BY <1>2, FinishFacts, RecordFacts DEF InCall, Party, Live
<1>3. CASE UNCHANGED <<calls, armed>>
  BY <1>3 DEF InCall, Party, Live
<1> QED BY <1>1, <1>2, <1>3, StepKinds

LEMMA AbsentNext ==
    ASSUME ~CallerMayDrop
    PROVE  TypeOK /\ PlacersOnline /\ AbsentHasGrace /\ [Next]_vars => AbsentHasGrace'
<1> SUFFICES ASSUME TypeOK, PlacersOnline, AbsentHasGrace, [Next]_vars,
                    NEW u \in Users, InCall(u)', Sessions(u)' = {}
             PROVE  u \in grace'
  BY DEF AbsentHasGrace
<1>1. ASSUME NEW l \in Lookups, CallDone(l) PROVE u \in grace'
  <2> PICK m \in CallIds : m = placing[l].id
    BY <1>1, CallDoneFacts
  <2>1. Sessions(u) = {} /\ UNCHANGED grace
    BY <1>1, SessionsFacts DEF CallDone
  <2>2. \A k \in CallIds \ {m} : Party(u, k)' => Party(u, k)
    BY <1>1, CallDoneFacts DEF Party, Live
  <2>3. Party(u, m)' => u \in {UserOf[placing[l].sock], placing[l].target}
    <3>1. calls'[m] = Made(l)
      BY <1>1, CallDoneFacts
    <3> QED BY <3>1 DEF Party, Made
  <2>4. u # UserOf[placing[l].sock] /\ u # placing[l].target
    <3>1. placing[l].sock \in Sockets /\ Online(placing[l].sock)
      BY <1>1, CallDoneFacts DEF PlacersOnline
    <3>2. Sessions(placing[l].target) # {}
      BY <1>1 DEF CallDone
    <3> QED BY <2>1, <3>1, <3>2 DEF Sessions
  <2>5. InCall(u)
    BY <2>2, <2>3, <2>4 DEF InCall
  <2> QED BY <2>1, <2>5 DEF AbsentHasGrace
<1>2. ASSUME InCall(u), NEW s \in Sockets, Disconnect(s) PROVE u \in grace'
  <2>1. Sessions(u) = {} \/ Sessions(u) = {s}
    BY <1>2, SessionsFacts
  <2>2. CASE Sessions(u) = {s}
    BY <1>2, <2>2 DEF Disconnect, Sessions
  <2> QED BY <1>2, <2>1, <2>2 DEF Disconnect, AbsentHasGrace
<1>3. ASSUME InCall(u), NEW s \in Sockets, Connect(s) PROVE u \in grace'
  <2>1. UserOf[s] # u /\ Sessions(u) = {}
    BY <1>3, SessionsFacts
  <2> QED BY <1>3, <2>1 DEF Connect, AbsentHasGrace
<1>4. ASSUME InCall(u), NEW v \in Users, GraceFires(v) PROVE u \in grace'
  <2>1. Sessions(u) = {} /\ u \in grace
    BY <1>4, SessionsFacts DEF GraceFires, AbsentHasGrace
  <2>2. u # v
    <3> SUFFICES ASSUME u = v PROVE FALSE
      OBVIOUS
    <3>1. Finish({i \in CallIds : Party(u, i)})
      BY <1>4, <2>1 DEF GraceFires
    <3>2. \A i \in CallIds : ~Party(u, i)'
      BY <3>1, FinishFacts, RecordFacts DEF Party, Live
    <3> QED BY <3>2 DEF InCall
  <2> QED BY <1>4, <2>1, <2>2 DEF GraceFires
<1>5. CASE InCall(u) /\ UNCHANGED <<sock, grace>>
  BY <1>5, SessionsFacts DEF AbsentHasGrace
<1> QED
  BY <1>1, <1>2, <1>3, <1>4, <1>5, InCallBefore
     DEF Next, SocketStep, CallStep, Tune, CallStart, CallRefused, Accept,
         Decline, End, Cancel, RingTimeout, vars

(* A party with no session has its grace window open, if no caller drops   *)
(* while its call is looked up; a run shows that one who does has none.    *)
THEOREM AbsentHaveWindow == ASSUME ~CallerMayDrop PROVE Spec => []AbsentHasGrace
<1>1. Init => PlacersOnline /\ AbsentHasGrace
  BY RecordFacts, NoneAssumption
     DEF Init, PlacersOnline, AbsentHasGrace, Placing, InCall, Party, Live
<1>2. TypeOK /\ PlacersOnline /\ [Next]_vars => PlacersOnline'
  BY PlacersNext
<1>3. TypeOK /\ PlacersOnline /\ AbsentHasGrace /\ [Next]_vars => AbsentHasGrace'
  BY AbsentNext
<1> QED BY <1>1, <1>2, <1>3, TypeInit, TypeNext, PTL DEF Spec

-----------------------------------------------------------------------------
(* What the client of a session believes, and what it must know.           *)
Believes(s) ==
    view[s] # NoView => /\ Online(s)
                        /\ view[s].id \in CallIds
                        /\ Party(UserOf[s], view[s].id)
                        /\ view[s] = Resumed(UserOf[s], view[s].id)

MustKnow(s, i) ==
    \/ calls[i].state = "RINGING" /\ UserOf[s] = calls[i].target
    \/ calls[i].state = "ACTIVE" /\ Party(UserOf[s], i)

Knows(s, i) == Online(s) /\ MustKnow(s, i) => view[s].id = i

(* Nobody calls themselves. *)
TwoParties ==
    /\ \A l \in Lookups :
           placing[l] # NotPlacing => placing[l].target # UserOf[placing[l].sock]
    /\ \A i \in CallIds : Live(i) => calls[i].caller # calls[i].target

Agreement ==
    /\ \A s \in Sockets : Believes(s)
    /\ \A s \in Sockets, i \in CallIds : Knows(s, i)

LEMMA TwoPartiesNext ==
    ASSUME ~SelfCalls PROVE TypeOK /\ TwoParties /\ [Next]_vars => TwoParties'
<1> SUFFICES ASSUME TypeOK, TwoParties, [Next]_vars PROVE TwoParties'
  OBVIOUS
<1>1. ASSUME NEW k \in Lookups, (placing[k] # NotPlacing)'
      PROVE  (placing[k].target # UserOf[placing[k].sock])'
  <2>1. ASSUME NEW l \in Lookups, CallDone(l) \/ CallRefused(l)
        PROVE  (placing[k].target # UserOf[placing[k].sock])'
    <3>1. placing' = [placing EXCEPT ![l] = NotPlacing]
      BY <2>1 DEF CallDone, CallRefused
    <3> QED BY <1>1, <3>1 DEF TwoParties, TypeOK
  <2>2. ASSUME NEW s \in Sockets, NEW l \in Lookups, NEW i \in CallIds, NEW u \in Users,
               CallStart(s, l, i, u)
        PROVE  (placing[k].target # UserOf[placing[k].sock])'
    BY <1>1, <2>2 DEF CallStart, TwoParties, TypeOK
  <2>3. CASE UNCHANGED placing
    BY <1>1, <2>3 DEF TwoParties
  <2> QED
    BY <2>1, <2>2, <2>3
       DEF Next, SocketStep, CallStep, Connect, Tune, Accept, Decline, End,
           Cancel, RingTimeout, GraceFires, Disconnect, vars
<1>2. ASSUME NEW j \in CallIds, Live(j)' PROVE (calls[j].caller # calls[j].target)'
  <2>1. ASSUME NEW l \in Lookups, CallDone(l) PROVE (calls[j].caller # calls[j].target)'
    <3>1. placing[l].target # UserOf[placing[l].sock]
      BY <2>1 DEF CallDone, TwoParties
    <3>2. CASE j = placing[l].id
      <4>1. calls'[j] = Made(l)
        BY <2>1, <3>2, CallDoneFacts
      <4> QED BY <3>1, <4>1 DEF Made
    <3>3. CASE j # placing[l].id
      <4>1. calls'[j] = calls[j]
        BY <2>1, <3>3, CallDoneFacts
      <4> QED BY <1>2, <4>1 DEF Live, TwoParties
    <3> QED BY <3>2, <3>3
  <2>2. ASSUME NEW s \in Sockets, NEW k \in CallIds, Accept(s, k)
        PROVE  (calls[j].caller # calls[j].target)'
    BY <1>2, <2>2, AcceptFacts DEF Live, Accept, TwoParties
  <2>3. CASE \E I : Finish(I)
    BY <1>2, <2>3, FinishFacts, RecordFacts DEF Live, TwoParties
  <2>4. CASE UNCHANGED <<calls, armed>>
    BY <1>2, <2>4 DEF Live, TwoParties
  <2> QED BY <2>1, <2>2, <2>3, <2>4, StepKinds
<1> QED BY <1>1, <1>2 DEF TwoParties

(* A call whose record a step leaves alone means the same after it.        *)
LEMMA SameCall ==
    ASSUME NEW i \in CallIds, calls'[i] = calls[i], NEW u
    PROVE  /\ Party(u, i)' <=> Party(u, i)
           /\ Resumed(u, i)' = Resumed(u, i)
  BY DEF Party, Live, Resumed

LEMMA AgreementNext ==
    TypeOK /\ TwoParties /\ OneCallPerUser /\ Agreement /\ [Next]_vars => Agreement'
<1> SUFFICES ASSUME TypeOK, TwoParties, OneCallPerUser, Agreement, [Next]_vars,
                    NEW t \in Sockets
             PROVE  Believes(t)' /\ \A j \in CallIds : Knows(t, j)'
  BY DEF Agreement
<1>0. Believes(t) /\ \A j \in CallIds : Knows(t, j)
  BY DEF Agreement
<1>1. ASSUME NEW l \in Lookups, CallDone(l)
      PROVE  Believes(t)' /\ \A j \in CallIds : Knows(t, j)'
  <2> PICK m \in CallIds : m = placing[l].id
    BY <1>1, CallDoneFacts
  <2> PICK s \in Sockets : s = placing[l].sock
    BY <1>1, CallDoneFacts
  <2> PICK x \in Users : x = placing[l].target
    BY <1>1, CallDoneFacts
  <2>1. /\ calls'[m] = [caller |-> UserOf[s], target |-> x, state |-> "RINGING"]
        /\ \A j \in CallIds \ {m} : calls'[j] = calls[j]
        /\ ~Live(m)
        /\ UNCHANGED sock
    BY <1>1, CallDoneFacts DEF Made
  <2>2. x # UserOf[s] /\ ~InCall(UserOf[s]) /\ ~InCall(x)
    BY <1>1 DEF CallDone, Vacant, TwoParties
  <2>3. CASE t = s /\ Online(s)
    <3>1. view'[t] = [id |-> m, phase |-> "OUTGOING"]
      BY <1>1, <2>2, <2>3 DEF CallDone, Sessions
    <3>2. Believes(t)'
      BY <2>1, <2>3, <3>1 DEF Believes, Party, Live, Resumed, Online
    <3>3. ASSUME NEW j \in CallIds \ {m} PROVE ~MustKnow(t, j)'
      BY <2>1, <2>2, <2>3 DEF MustKnow, InCall, Party, Live
    <3> QED BY <3>1, <3>2, <3>3 DEF Knows
  <2>4. CASE t \in Sessions(x)
    <3>1. view'[t] = [id |-> m, phase |-> "INCOMING"] /\ UserOf[t] = x /\ Online(t)
      BY <1>1, <2>2, <2>4 DEF CallDone, Sessions
    <3>2. Believes(t)'
      BY <2>1, <2>2, <3>1 DEF Believes, Party, Live, Resumed, Online
    <3>3. ASSUME NEW j \in CallIds \ {m} PROVE ~MustKnow(t, j)'
      BY <2>1, <2>2, <3>1 DEF MustKnow, InCall, Party, Live
    <3> QED BY <3>1, <3>2, <3>3 DEF Knows
  <2>5. CASE ~(t = s /\ Online(s)) /\ t \notin Sessions(x)
    <3>1. view'[t] = view[t]
      BY <1>1, <2>5 DEF CallDone
    <3>2. view[t] # NoView => view[t].id # m
      BY <1>0, <2>1 DEF Believes, Party
    <3>3. Believes(t)'
      BY <1>0, <2>1, <3>1, <3>2, SameCall DEF Believes, Online
    <3>4. Knows(t, m)'
      BY <2>1, <2>5 DEF Knows, MustKnow, Sessions, Online
    <3>5. ASSUME NEW j \in CallIds \ {m} PROVE Knows(t, j)'
      BY <1>0, <2>1, <3>1 DEF Knows, MustKnow, Party, Live, Online
    <3> QED BY <3>3, <3>4, <3>5
  <2> QED BY <2>3, <2>4, <2>5
<1>2. ASSUME NEW s \in Sockets, NEW m \in CallIds, Accept(s, m)
      PROVE  Believes(t)' /\ \A j \in CallIds : Knows(t, j)'
  <2> DEFINE told == Online(t) /\ UserOf[t] \in {calls[m].caller, calls[m].target}
  <2>1. /\ \A j \in CallIds \ {m} : calls'[j] = calls[j]
        /\ calls'[m].caller = calls[m].caller
        /\ calls'[m].target = calls[m].target
        /\ calls'[m].state = "ACTIVE"
        /\ calls[m].state = "RINGING"
        /\ UNCHANGED sock
    <3>1. calls' = [calls EXCEPT ![m].state = "ACTIVE"]
      BY <1>2 DEF Accept
    <3> QED BY <1>2, <3>1, AcceptFacts DEF Accept, TypeOK
  <2>2. CASE told
    <3>1. view'[t] = [id |-> m, phase |-> "ACTIVE"]
      BY <1>2, <2>2 DEF Accept, Told
    <3>2. Believes(t)'
      BY <2>1, <2>2, <3>1 DEF Believes, Party, Live, Resumed, Online
    <3>3. ASSUME NEW j \in CallIds \ {m} PROVE ~MustKnow(t, j)'
      <4>1. ~Party(UserOf[t], j)
        BY <2>1, <2>2, UserOfAssumption DEF OneCallPerUser, Party, Live
      <4> QED BY <2>1, <4>1 DEF MustKnow, Party, Live
    <3> QED BY <3>1, <3>2, <3>3 DEF Knows
  <2>3. CASE ~told
    <3>1. view'[t] = view[t]
      BY <1>2, <2>3 DEF Accept, Told
    <3>2. view[t] # NoView => view[t].id # m
      BY <1>0, <2>3 DEF Believes, Party
    <3>3. Believes(t)'
      BY <1>0, <2>1, <3>1, <3>2, SameCall DEF Believes, Online
    <3>4. Knows(t, m)'
      BY <2>1, <2>3 DEF Knows, MustKnow, Party, Online
    <3>5. ASSUME NEW j \in CallIds \ {m} PROVE Knows(t, j)'
      BY <1>0, <2>1, <3>1 DEF Knows, MustKnow, Party, Live, Online
    <3> QED BY <3>3, <3>4, <3>5
  <2> QED BY <2>2, <2>3
<1>3. ASSUME NEW I, Finish(I), UNCHANGED sock
      PROVE  Believes(t)' /\ \A j \in CallIds : Knows(t, j)'
  <2>1. /\ \A j \in CallIds : calls'[j] = IF j \in I THEN NoCall ELSE calls[j]
        /\ view'[t] = IF Online(t) /\ view[t].id \in I /\ Party(UserOf[t], view[t].id)
                      THEN NoView ELSE view[t]
    BY <1>3, FinishFacts
  <2>2. Believes(t)'
    <3> SUFFICES ASSUME view'[t] # NoView PROVE Believes(t)'
      BY DEF Believes
    <3>1. view'[t] = view[t] /\ view[t].id \in CallIds \ I
      BY <1>0, <2>1 DEF Believes
    <3>2. calls'[view[t].id] = calls[view[t].id]
      BY <2>1, <3>1
    <3> QED BY <1>0, <1>3, <3>1, <3>2, SameCall DEF Believes, Online
  <2>3. ASSUME NEW j \in CallIds PROVE Knows(t, j)'
    <3>1. CASE j \in I
      BY <2>1, <3>1, RecordFacts DEF Knows, MustKnow
    <3>2. CASE j \notin I
      <4>1. calls'[j] = calls[j]
        BY <2>1, <3>2
      <4>2. MustKnow(t, j)' <=> MustKnow(t, j)
        BY <4>1 DEF MustKnow, Party, Live
      <4>3. Online(t)' <=> Online(t)
        BY <1>3 DEF Online
      <4> QED BY <1>0, <2>1, <3>2, <4>2, <4>3 DEF Knows
    <3> QED BY <3>1, <3>2
  <2> QED BY <2>2, <2>3
<1>4. ASSUME NEW s \in Sockets, Connect(s)
      PROVE  Believes(t)' /\ \A j \in CallIds : Knows(t, j)'
  <2>1. /\ \A j \in CallIds : calls'[j] = calls[j]
        /\ s # t => sock'[t] = sock[t] /\ view'[t] = view[t]
    BY <1>4 DEF Connect, TypeOK
  <2>2. CASE s # t
    <3>1. Believes(t)'
      BY <1>0, <2>1, <2>2, SameCall DEF Believes, Online
    <3>2. ASSUME NEW j \in CallIds PROVE Knows(t, j)'
      BY <1>0, <2>1, <2>2 DEF Knows, MustKnow, Party, Live, Online
    <3> QED BY <3>1, <3>2
  <2>3. CASE s = t /\ InCall(UserOf[s])
    <3>1. PICK i \in CallIds : Party(UserOf[t], i) /\ view'[t] = Resumed(UserOf[t], i)
      BY <1>4, <2>3 DEF Connect, TypeOK
    <3>2. Online(t)'
      BY <1>4, <2>3 DEF Connect, Online, TypeOK
    <3>3. view'[t].id = i
      BY <3>1, ResumedFacts
    <3>4. Believes(t)'
      BY <2>1, <3>1, <3>2, <3>3, SameCall DEF Believes
    <3>5. ASSUME NEW j \in CallIds, MustKnow(t, j)' PROVE j = i
      <4>1. Party(UserOf[t], j)
        BY <2>1, <3>5 DEF MustKnow, Party, Live
      <4> QED BY <3>1, <4>1, UserOfAssumption DEF OneCallPerUser
    <3> QED BY <3>3, <3>4, <3>5 DEF Knows
  <2>4. CASE s = t /\ ~InCall(UserOf[s])
    <3>1. view'[t] = view[t] /\ view[t] = NoView
      BY <1>0, <1>4, <2>4 DEF Connect, Believes, Online
    <3>2. Believes(t)'
      BY <3>1 DEF Believes, NoView
    <3>3. ASSUME NEW j \in CallIds PROVE ~MustKnow(t, j)'
      BY <2>1, <2>4 DEF MustKnow, InCall, Party, Live
    <3> QED BY <3>2, <3>3 DEF Knows
  <2> QED BY <2>2, <2>3, <2>4
<1>5. ASSUME NEW s \in Sockets, Disconnect(s)
      PROVE  Believes(t)' /\ \A j \in CallIds : Knows(t, j)'
  <2>1. /\ \A j \in CallIds : calls'[j] = calls[j]
        /\ s # t => sock'[t] = sock[t] /\ view'[t] = view[t]
        /\ s = t => sock'[t] = "off" /\ view'[t] = NoView
    BY <1>5 DEF Disconnect, TypeOK
  <2>2. CASE s # t
    <3>1. Believes(t)'
      BY <1>0, <2>1, <2>2, SameCall DEF Believes, Online
    <3>2. ASSUME NEW j \in CallIds PROVE Knows(t, j)'
      BY <1>0, <2>1, <2>2 DEF Knows, MustKnow, Party, Live, Online
    <3> QED BY <3>1, <3>2
  <2>3. CASE s = t
    BY <2>1, <2>3 DEF Believes, Knows, Online, NoView
  <2> QED BY <2>2, <2>3
<1>6. CASE UNCHANGED <<sock, calls, view>>
  <2>1. Believes(t)'
    BY <1>0, <1>6 DEF Believes, Online, Party, Live, Resumed
  <2>2. ASSUME NEW j \in CallIds PROVE Knows(t, j)'
    BY <1>0, <1>6 DEF Knows, MustKnow, Party, Live, Online
  <2> QED BY <2>1, <2>2
<1> QED
  BY <1>1, <1>2, <1>3, <1>4, <1>5, <1>6
     DEF Next, SocketStep, CallStep, Tune, CallStart, CallRefused, Decline, End,
         Cancel, RingTimeout, GraceFires, vars

(* Clients and server never disagree about a call: nobody stays on a call  *)
(* that has ended, and every session learns of one that concerns it.  If   *)
(* somebody calls themselves, they do: one of their sessions is called by  *)
(* another.                                                                *)
THEOREM ClientsAgree == ASSUME ~SelfCalls PROVE Spec => []SessionsAgree
<1>1. Init => OneCallPerUser /\ TwoParties /\ Agreement
  BY RecordFacts
     DEF Init, OneCallPerUser, TwoParties, Agreement, Believes, Knows, MustKnow,
         Placing, Party, Live
<1>2. OneCallPerUser /\ Agreement => SessionsAgree
  BY DEF Agreement, SessionsAgree, Believes, Knows, MustKnow
<1> QED
  BY <1>1, <1>2, TypeInit, TypeNext, OneCallNext, TwoPartiesNext, AgreementNext,
     PTL DEF Spec

-----------------------------------------------------------------------------
(* PrivateCalls implements PhoneLines.  The line of a user is the one call *)
(* the user is in; a step that touches a call touches the lines of its two *)
(* parties and no other.                                                   *)
PartiesAreUsers ==
    \A i \in CallIds : Live(i) => calls[i].caller \in Users /\ calls[i].target \in Users

PhoneInv ==
    /\ TypeOK
    /\ RingsAreTimed
    /\ OneCallPerUser
    /\ PartiesAreUsers

(* The parties of a call are users, not the null value.                    *)
LEMMA PartiesNext == TypeOK /\ PartiesAreUsers /\ [Next]_vars => PartiesAreUsers'
<1> SUFFICES ASSUME TypeOK, PartiesAreUsers, [Next]_vars, NEW j \in CallIds, Live(j)'
             PROVE  (calls[j].caller \in Users /\ calls[j].target \in Users)'
  BY DEF PartiesAreUsers
<1>1. ASSUME NEW l \in Lookups, CallDone(l)
      PROVE  (calls[j].caller \in Users /\ calls[j].target \in Users)'
  <2>1. CASE j = placing[l].id
    <3>1. calls'[j] = Made(l) /\ placing[l].target \in Users
      BY <1>1, <2>1, CallDoneFacts
    <3> QED BY <1>1, <3>1, CallDoneFacts, UserOfAssumption DEF Made
  <2>2. CASE j # placing[l].id
    <3>1. calls'[j] = calls[j]
      BY <1>1, <2>2, CallDoneFacts
    <3> QED BY <3>1 DEF Live, PartiesAreUsers
  <2> QED BY <2>1, <2>2
<1>2. ASSUME NEW s \in Sockets, NEW k \in CallIds, Accept(s, k)
      PROVE  (calls[j].caller \in Users /\ calls[j].target \in Users)'
  BY <1>2, AcceptFacts DEF Live, Accept, PartiesAreUsers
<1>3. CASE \E I : Finish(I)
  BY <1>3, FinishFacts, RecordFacts DEF Live, PartiesAreUsers
<1>4. CASE UNCHANGED <<calls, armed>>
  BY <1>4 DEF Live, PartiesAreUsers
<1> QED BY <1>1, <1>2, <1>3, <1>4, StepKinds

(* The line of a user who is in a call, before and after a step.           *)
LEMMA LineWithin ==
    ASSUME NEW u \in Users, NEW i \in CallIds
    PROVE  /\ OneCallPerUser /\ Party(u, i) => UserLines[u] = calls[i]
           /\ OneCallPerUser' /\ Party(u, i)' => UserLines'[u] = calls'[i]
<1>1. ASSUME OneCallPerUser, Party(u, i) PROVE UserLines[u] = calls[i]
  <2>1. {j \in CallIds : Party(u, j)} = {i}
    BY <1>1 DEF OneCallPerUser
  <2> QED BY <2>1 DEF LineOf, UserLines
<1>2. ASSUME OneCallPerUser', Party(u, i)' PROVE UserLines'[u] = calls'[i]
  <2>1. {j \in CallIds : Party(u, j)'} = {i}
    BY <1>2 DEF OneCallPerUser
  <2> QED BY <2>1 DEF LineOf, UserLines
<1> QED BY <1>1, <1>2

(* The line of a user who is in none.                                      *)
LEMMA LineWithout ==
    ASSUME NEW u \in Users
    PROVE  /\ ~InCall(u) => UserLines[u] = NoCall
           /\ ~InCall(u)' => UserLines'[u] = NoCall
  BY DEF LineOf, InCall, UserLines, NoCall

(* What a step does to the lines if the only call it touches is m: the     *)
(* parties that m has, before or after, get what becomes of m.             *)
LEMMA OneCallMoves ==
    ASSUME OneCallPerUser, OneCallPerUser', NEW m \in CallIds, NEW U,
           \A j \in CallIds \ {m} : calls'[j] = calls[j],
           \A u \in Users : Party(u, m) \/ Party(u, m)' => u \in U,
           \A u \in Users : u \in U /\ Live(m)' => Party(u, m)',
           \A u \in Users : u \in U /\ ~Live(m)' => Party(u, m),
           ~Live(m)' => calls'[m] = NoCall
    PROVE  Lines!Become(U, calls'[m])
<1> SUFFICES ASSUME NEW u \in Users
             PROVE  UserLines'[u] = IF u \in U THEN calls'[m] ELSE UserLines[u]
  BY DEF Lines!Become
<1>1. CASE u \in U /\ Live(m)'
  BY <1>1, LineWithin
<1>2. CASE u \in U /\ ~Live(m)'
  <2>1. \A j \in CallIds \ {m} : ~Party(u, j)
    BY <1>2 DEF OneCallPerUser
  <2>2. \A j \in CallIds \ {m} : ~Party(u, j)'
    BY <2>1, SameCall
  <2>3. ~Party(u, m)'
    BY <1>2 DEF Party
  <2>4. ~InCall(u)'
    BY <2>2, <2>3 DEF InCall
  <2> QED BY <1>2, <2>4, LineWithout
<1>3. CASE u \notin U /\ InCall(u)
  <2>1. PICK i \in CallIds \ {m} : Party(u, i)
    BY <1>3 DEF InCall
  <2>2. Party(u, i)' /\ calls'[i] = calls[i]
    BY <2>1, SameCall
  <2> QED BY <1>3, <2>1, <2>2, LineWithin
<1>4. CASE u \notin U /\ ~InCall(u)
  <2>1. \A j \in CallIds : ~Party(u, j)'
    BY <1>4, SameCall DEF InCall
  <2>2. ~InCall(u)'
    BY <2>1 DEF InCall
  <2> QED BY <1>4, <2>2, LineWithout
<1> QED BY <1>1, <1>2, <1>3, <1>4

(* Calling takes two free lines.                                           *)
LEMMA CallDoneRings ==
    ASSUME PhoneInv, OneCallPerUser', NEW l \in Lookups, CallDone(l)
    PROVE  Lines!Next
<1> PICK m \in CallIds : m = placing[l].id
  BY CallDoneFacts DEF PhoneInv
<1> PICK a \in Users : a = UserOf[placing[l].sock]
  BY CallDoneFacts, UserOfAssumption DEF PhoneInv
<1> PICK b \in Users : b = placing[l].target
  BY CallDoneFacts DEF PhoneInv
<1>1. ~InCall(a) /\ ~InCall(b)
  BY DEF CallDone, Vacant
<1>2. /\ ~Live(m)
      /\ \A j \in CallIds \ {m} : calls'[j] = calls[j]
      /\ calls'[m] = [caller |-> a, target |-> b, state |-> "RINGING"]
  BY CallDoneFacts DEF PhoneInv, Made
<1>3. UserLines[a] = NoCall /\ UserLines[b] = NoCall
  BY <1>1, LineWithout
<1>4. /\ Live(m)'
      /\ \A u \in Users : Party(u, m)' <=> u \in {a, b}
      /\ \A u \in Users : ~Party(u, m)
  BY <1>2 DEF Party, Live
<1>5. Lines!Become({a, b}, calls'[m])
  BY <1>2, <1>4, OneCallMoves DEF PhoneInv
<1>6. Lines!Ring(a, b)
  BY <1>2, <1>3, <1>5 DEF Lines!Ring, Lines!Free, NoCall
<1>7. UserLines'[a] # UserLines[a]
  BY <1>2, <1>3, <1>5 DEF Lines!Become, NoCall
<1> QED BY <1>6, <1>7 DEF Lines!Next, Lines!Does

(* Answering makes the call of both lines active.                          *)
LEMMA AcceptAnswers ==
    ASSUME PhoneInv, OneCallPerUser', NEW s \in Sockets, NEW m \in CallIds, Accept(s, m)
    PROVE  Lines!Next
<1>1. calls[m].state = "RINGING" /\ Live(m)
  BY DEF Accept, Live
<1> PICK a \in Users : a = calls[m].target
  BY <1>1 DEF PhoneInv, PartiesAreUsers
<1> PICK b \in Users : b = calls[m].caller
  BY <1>1 DEF PhoneInv, PartiesAreUsers
<1>2. calls' = [calls EXCEPT ![m].state = "ACTIVE"]
  BY DEF Accept
<1>3. /\ \A j \in CallIds \ {m} : calls'[j] = calls[j]
      /\ calls'[m] = [calls[m] EXCEPT !.state = "ACTIVE"]
      /\ calls'[m].state = "ACTIVE" /\ calls'[m].caller = b /\ calls'[m].target = a
  BY <1>2, AcceptFacts DEF PhoneInv, TypeOK
<1>4. /\ Live(m)'
      /\ \A u \in Users : Party(u, m)' <=> u \in {b, a}
      /\ \A u \in Users : Party(u, m) <=> u \in {b, a}
  BY <1>1, <1>3 DEF Party, Live
<1>5. Lines!Become({b, a}, calls'[m])
  BY <1>3, <1>4, OneCallMoves DEF PhoneInv
<1>6. UserLines[a] = calls[m]
  BY <1>4, LineWithin DEF PhoneInv
<1>7. Lines!Answer(a)
  BY <1>1, <1>3, <1>5, <1>6 DEF Lines!Answer
<1>8. UserLines'[a] # UserLines[a]
  BY <1>1, <1>3, <1>5, <1>6 DEF Lines!Become
<1> QED BY <1>7, <1>8 DEF Lines!Next, Lines!Does

(* The end of a call frees the lines of its two parties.                   *)
LEMMA FinishHangsUp ==
    ASSUME PhoneInv, OneCallPerUser', NEW m \in CallIds, Live(m), Finish({m})
    PROVE  Lines!Next
<1> PICK a \in Users : a = calls[m].caller
  BY DEF PhoneInv, PartiesAreUsers
<1> PICK b \in Users : b = calls[m].target
  BY DEF PhoneInv, PartiesAreUsers
<1>1. (\A j \in CallIds \ {m} : calls'[j] = calls[j]) /\ calls'[m] = NoCall
  BY FinishFacts DEF PhoneInv
<1>2. /\ ~Live(m)'
      /\ \A u \in Users : ~Party(u, m)'
      /\ \A u \in Users : Party(u, m) <=> u \in {a, b}
  BY <1>1, RecordFacts DEF Party, Live
<1>3. Lines!Become({a, b}, calls'[m])
  BY <1>1, <1>2, OneCallMoves DEF PhoneInv
<1>4. UserLines[a] = calls[m] /\ calls[m] # NoCall
  BY <1>2, LineWithin, RecordFacts DEF PhoneInv, Live
<1>5. Lines!HangUp(a)
  BY <1>1, <1>3, <1>4 DEF Lines!HangUp, Lines!Free, NoCall
<1>6. UserLines'[a] # UserLines[a]
  BY <1>1, <1>3, <1>4 DEF Lines!Become
<1> QED BY <1>5, <1>6 DEF Lines!Next, Lines!Does

(* Every step is one of PhoneLines, or changes no line.  What ends at once *)
(* when a grace window closes is one call, by OneCallPerUser.              *)
LEMMA LinesNext ==
    ASSUME PhoneInv, OneCallPerUser', [Next]_vars
    PROVE  [Lines!Next]_UserLines
<1>0. ASSUME calls' = calls PROVE UNCHANGED UserLines
  BY <1>0 DEF UserLines, LineOf, Party, Live
<1>1. ASSUME NEW l \in Lookups, CallDone(l) PROVE Lines!Next
  BY <1>1, CallDoneRings
<1>2. ASSUME NEW s \in Sockets, NEW i \in CallIds, Accept(s, i) PROVE Lines!Next
  BY <1>2, AcceptAnswers
<1>3. ASSUME NEW s \in Sockets, NEW i \in CallIds, Decline(s, i) \/ End(s, i) \/ Cancel(s, i)
      PROVE  Lines!Next
  <2>1. Live(i) /\ Finish({i})
    BY <1>3 DEF Decline, End, Cancel, Party, Live
  <2> QED BY <2>1, FinishHangsUp
<1>4. ASSUME NEW i \in CallIds, RingTimeout(i) PROVE Lines!Next
  <2>1. Live(i) /\ Finish({i})
    BY <1>4 DEF RingTimeout, PhoneInv, RingsAreTimed, Live
  <2> QED BY <2>1, FinishHangsUp
<1>5. ASSUME NEW u \in Users, GraceFires(u) PROVE [Lines!Next]_UserLines
  <2>1. CASE Sessions(u) # {}
    BY <1>0, <1>5, <2>1 DEF GraceFires
  <2>2. CASE Sessions(u) = {} /\ InCall(u)
    <3>1. PICK m \in CallIds : Party(u, m)
      BY <2>2 DEF InCall
    <3>2. {i \in CallIds : Party(u, i)} = {m}
      BY <3>1 DEF PhoneInv, OneCallPerUser
    <3>3. Finish({m})
      BY <1>5, <2>2, <3>2 DEF GraceFires
    <3> QED BY <3>1, <3>3, FinishHangsUp DEF Party
  <2>3. CASE Sessions(u) = {} /\ ~InCall(u)
    <3>1. {i \in CallIds : Party(u, i)} = {}
      BY <2>3 DEF InCall
    <3>2. Finish({})
      BY <1>5, <2>3, <3>1 DEF GraceFires
    <3>3. calls' = calls
      BY <3>2 DEF Finish, PhoneInv, TypeOK
    <3> QED BY <1>0, <3>3
  <2> QED BY <2>1, <2>2, <2>3
<1>6. CASE UNCHANGED calls
  BY <1>0, <1>6
<1> QED
  BY <1>1, <1>2, <1>3, <1>4, <1>5, <1>6
     DEF Next, SocketStep, CallStep, Connect, Tune, CallStart, CallRefused, Disconnect, vars

(* Private calls implement PhoneLines: whatever lookups, drops, timers and *)
(* identifiers do, everybody has one line, and a call takes the free lines *)
(* of its parties and frees them together.                                 *)
THEOREM CallsImplementLines == Spec => LinesOfTwo
<1>1. ASSUME Init PROVE PhoneInv
  BY <1>1, TypeInit, RecordFacts
     DEF Init, PhoneInv, RingsAreTimed, OneCallPerUser, PartiesAreUsers, Party, Live
<1>2. PhoneInv /\ [Next]_vars => PhoneInv'
  BY TypeNext, RingsNext, OneCallNext, PartiesNext DEF PhoneInv
<1>3. ASSUME Init PROVE Lines!Init
  <2>1. \A u \in Users : UserLines[u] = NoCall
    BY <1>3, LineWithout, RecordFacts DEF Init, InCall, Party, Live
  <2> QED BY <2>1 DEF Lines!Init, Lines!Free, NoCall, UserLines
<1>4. PhoneInv /\ PhoneInv' /\ [Next]_vars => [Lines!Next]_UserLines
  BY LinesNext DEF PhoneInv
<1> QED BY <1>1, <1>2, <1>3, <1>4, PTL DEF Spec, LinesOfTwo, Lines!Spec
=============================================================================
