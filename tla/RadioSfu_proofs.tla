--------------------------- MODULE RadioSfu_proofs ---------------------------
(***************************************************************************)
(* Proofs about RadioSfu, for every number of sockets, channels and calls  *)
(* in flight: which part of half duplex the reservation protects, and from *)
(* what.                                                                   *)
(***************************************************************************)
EXTENDS RadioSfu, TLAPS

LEMMA FreeFacts ==
    /\ Free \in CallType
    /\ Free.at = "free" /\ Free.sock = None /\ Free.chan = None /\ Free.on = "closed"
    /\ NoProducer \in ProducerType
    /\ NoProducer.chan = None /\ NoProducer.on = "closed"
  BY DEF Free, CallType, NoProducer, ProducerType, Transports

(* The shape of a call in flight, from its type. *)
LEMMA CallFacts ==
    ASSUME TypeOK, NEW k \in Calls
    PROVE  /\ calls[k] \in CallType
           /\ calls[k].at \in {"free", "produce", "record"}
           /\ calls[k].on \in Transports
           /\ calls[k].at = "free" => calls[k] = Free
           /\ calls[k].at = "produce" =>
                 calls[k].sock \in Sockets /\ calls[k].chan \in Channels
           /\ calls[k].at = "record" =>
                 calls[k].sock \in Sockets /\ calls[k].on = "closed"
<1>1. calls[k] \in CallType
  BY DEF TypeOK
<1> QED BY <1>1, FreeFacts DEF CallType, Transports

LEMMA TypeInit == Init => TypeOK
  BY FreeFacts, MaxMakingAssumption DEF Init, TypeOK

LEMMA GiveUpFacts ==
    ASSUME TypeOK, NEW s, NEW C
    PROVE  /\ GiveUp(s, C) \in [Channels -> Sockets \cup {None}]
           /\ \A c \in Channels :
                 GiveUp(s, C)[c] = IF c \in C /\ reserved[c] = s THEN None
                                   ELSE reserved[c]
  BY DEF GiveUp, TypeOK

LEMMA UnregisteredFacts ==
    ASSUME TypeOK, NEW s \in Sockets
    PROVE  /\ Unregistered(s) \in [Channels -> Sockets \cup {None}]
           /\ \A c \in Channels :
                 Unregistered(s)[c] = IF c = producer[s].chan /\ entry[c] = s
                                      THEN None ELSE entry[c]
  BY DEF Unregistered, TypeOK

(* A send transport that is closed or overwritten changes nothing but the  *)
(* transport its calls and producers are on.                               *)
LEMMA CallsMovedFacts ==
    ASSUME TypeOK, NEW s \in Sockets, NEW on \in {"stray", "closed"}
    PROVE  /\ CallsMoved(s, on) \in [Calls -> CallType]
           /\ \A k \in Calls :
                 /\ CallsMoved(s, on)[k].at = calls[k].at
                 /\ CallsMoved(s, on)[k].sock = calls[k].sock
                 /\ CallsMoved(s, on)[k].chan = calls[k].chan
                 /\ CallsMoved(s, on)[k].on =
                       IF calls[k].sock = s /\ calls[k].on = "own" THEN on
                       ELSE calls[k].on
<1>1. ASSUME NEW k \in Calls
      PROVE  /\ CallsMoved(s, on)[k] \in CallType
             /\ CallsMoved(s, on)[k].at = calls[k].at
             /\ CallsMoved(s, on)[k].sock = calls[k].sock
             /\ CallsMoved(s, on)[k].chan = calls[k].chan
             /\ CallsMoved(s, on)[k].on =
                   IF calls[k].sock = s /\ calls[k].on = "own" THEN on
                   ELSE calls[k].on
  <2>1. calls[k] \in CallType
    BY DEF TypeOK
  <2>2. CASE calls[k].sock = s /\ calls[k].on = "own"
    <3>1. calls[k] \in [at : {"produce"}, sock : Sockets, chan : Channels,
                        on : Transports]
      BY <2>1, <2>2, FreeFacts DEF CallType
    <3>2. CallsMoved(s, on)[k] = [calls[k] EXCEPT !.on = on]
      BY <2>2 DEF CallsMoved
    <3> QED BY <2>2, <3>1, <3>2 DEF CallType, Transports
  <2>3. CASE ~(calls[k].sock = s /\ calls[k].on = "own")
    <3>1. CallsMoved(s, on)[k] = calls[k]
      BY <2>3 DEF CallsMoved
    <3> QED BY <2>1, <2>3, <3>1
  <2> QED BY <2>2, <2>3
<1> QED BY <1>1 DEF CallsMoved

LEMMA ProducerMovedFacts ==
    ASSUME TypeOK, NEW s \in Sockets, NEW on \in {"stray", "closed"}
    PROVE  /\ ProducerMoved(s, on) \in [Sockets -> ProducerType]
           /\ \A t \in Sockets :
                 /\ ProducerMoved(s, on)[t].chan = producer[t].chan
                 /\ ProducerMoved(s, on)[t].on =
                       IF t = s /\ producer[t].on = "own" THEN on ELSE producer[t].on
  BY DEF ProducerMoved, TypeOK, ProducerType, Transports

LEMMA OrphansFacts ==
    ASSUME TypeOK, NEW s \in Sockets
    PROVE  /\ OrphansClosed(s) \subseteq orphans
           /\ \A m \in OrphansClosed(s) : m.sock # s \/ m.on = "stray"
           /\ OrphansOverwritten(s) \subseteq Orphans
           /\ \A m \in OrphansOverwritten(s) :
                 \/ m \in OrphansClosed(s)
                 \/ /\ m.sock = s /\ m.on = "stray"
                    /\ [sock |-> s, chan |-> m.chan, on |-> "own"] \in orphans
<1>1. ASSUME NEW m \in OrphansOverwritten(s), m \notin OrphansClosed(s)
      PROVE  /\ m.sock = s /\ m.on = "stray"
             /\ [sock |-> s, chan |-> m.chan, on |-> "own"] \in orphans
  <2>1. /\ m \in Orphans /\ m.sock = s /\ m.on = "stray"
        /\ [m EXCEPT !.on = "own"] \in orphans
    BY <1>1 DEF OrphansOverwritten
  <2>2. [m EXCEPT !.on = "own"] = [sock |-> s, chan |-> m.chan, on |-> "own"]
    BY <2>1 DEF Orphans
  <2> QED BY <2>1, <2>2
<1>2. OrphansOverwritten(s) \subseteq Orphans
  BY DEF OrphansOverwritten
<1>3. /\ OrphansClosed(s) \subseteq orphans
      /\ \A m \in OrphansClosed(s) : m.sock # s \/ m.on = "stray"
  BY DEF OrphansClosed
<1> QED BY <1>1, <1>2, <1>3

LEMMA TypeNext == TypeOK /\ [Next]_vars => TypeOK'
<1> SUFFICES ASSUME TypeOK, [Next]_vars PROVE TypeOK'
  OBVIOUS
<1>1. ASSUME NEW s \in Sockets, Connect(s) PROVE TypeOK'
  BY <1>1 DEF Connect, TypeOK
<1>2. ASSUME NEW s \in Sockets, NEW c \in Channels, Join(s, c) PROVE TypeOK'
  BY <1>2 DEF Join, TypeOK
<1>3. ASSUME NEW s \in Sockets, NEW c \in Channels, Leave(s, c) PROVE TypeOK'
  BY <1>3, GiveUpFacts DEF Leave, TypeOK
<1>4. ASSUME NEW s \in Sockets, NEW c \in Channels, Reserve(s, c) PROVE TypeOK'
  BY <1>4 DEF Reserve, TypeOK
<1>5. ASSUME NEW s \in Sockets, NEW c \in Channels, ReleaseReservation(s, c)
      PROVE  TypeOK'
  BY <1>5, GiveUpFacts DEF ReleaseReservation, TypeOK
<1>6. ASSUME NEW s \in Sockets, TouchPeer(s) PROVE TypeOK'
  BY <1>6 DEF TouchPeer, TypeOK
<1>7. ASSUME NEW s \in Sockets, CreateTransportStart(s) PROVE TypeOK'
  <2>1. making' \in [Sockets -> 0..MaxMaking]
    BY <1>7, MaxMakingAssumption DEF CreateTransportStart, TypeOK
  <2>2. /\ send' \in [Sockets -> {"none", "open", "closed"}]
        /\ peers' \subseteq Sockets
        /\ orphans' \subseteq Orphans
    BY <1>7, OrphansFacts DEF CreateTransportStart, TypeOK
  <2> QED BY <1>7, <2>1, <2>2, CallsMovedFacts, ProducerMovedFacts
          DEF CreateTransportStart, TypeOK
<1>8. ASSUME NEW s \in Sockets, CreateTransportDone(s) PROVE TypeOK'
  <2>1. making' \in [Sockets -> 0..MaxMaking]
    BY <1>8, MaxMakingAssumption DEF CreateTransportDone, TypeOK
  <2>2. /\ send' \in [Sockets -> {"none", "open", "closed"}]
        /\ orphans' \subseteq Orphans
    BY <1>8, OrphansFacts DEF CreateTransportDone, TypeOK
  <2> QED BY <1>8, <2>1, <2>2, CallsMovedFacts, ProducerMovedFacts
          DEF CreateTransportDone, TypeOK
<1>9. ASSUME NEW s \in Sockets, CreateTransportFails(s) PROVE TypeOK'
  BY <1>9, MaxMakingAssumption DEF CreateTransportFails, TypeOK
<1>10. ASSUME NEW s \in Sockets, NEW c \in Channels, ProduceStart(s, c)
       PROVE  TypeOK'
  <2>1. reserved' \in [Channels -> Sockets \cup {None}]
    BY <1>10 DEF ProduceStart, ProduceRefused, ProduceRejected, ProduceAsked, TypeOK
  <2>2. calls' \in [Calls -> CallType]
    <3> DEFINE new == [at |-> "produce", sock |-> s, chan |-> c, on |-> "own"]
    <3>1. new \in CallType
      BY DEF CallType, Transports
    <3>2. calls' = calls \/ \E k \in Calls : calls' = [calls EXCEPT ![k] = new]
      BY <1>10 DEF ProduceStart, ProduceRefused, ProduceRejected, ProduceAsked
    <3> HIDE DEF new
    <3> QED BY <3>1, <3>2 DEF TypeOK
  <2>3. entry' \in [Channels -> Sockets \cup {None}]
    BY <1>10 DEF ProduceStart, TypeOK
  <2> QED BY <1>10, <2>1, <2>2, <2>3 DEF ProduceStart, TypeOK
<1>11. ASSUME NEW k \in Calls, ProduceDone(k) PROVE TypeOK'
  <2>1. /\ calls[k].sock \in Sockets /\ calls[k].chan \in Channels
        /\ calls[k].on \in Transports
    BY <1>11, CallFacts DEF ProduceDone
  <2>2. producer' \in [Sockets -> ProducerType]
    BY <1>11, <2>1 DEF ProduceDone, TypeOK, ProducerType
  <2>3. calls' \in [Calls -> CallType]
    <3>1. [Free EXCEPT !.at = "record", !.sock = calls[k].sock] \in CallType
      BY <2>1 DEF Free, CallType
    <3> QED BY <1>11, <3>1, FreeFacts DEF ProduceDone, TypeOK
  <2>4. orphans' \subseteq Orphans
    BY <1>11 DEF ProduceDone, Orphaned, TypeOK
  <2>5. /\ entry' \in [Channels -> Sockets \cup {None}]
        /\ reserved' \in [Channels -> Sockets \cup {None}]
    BY <1>11, <2>1, GiveUpFacts DEF ProduceDone, TypeOK
  <2> QED BY <1>11, <2>2, <2>3, <2>4, <2>5 DEF ProduceDone, TypeOK
<1>12. ASSUME NEW k \in Calls, ProduceFails(k) PROVE TypeOK'
  BY <1>12, FreeFacts, GiveUpFacts DEF ProduceFails, TypeOK
<1>13. ASSUME NEW k \in Calls, RecordingStarts(k) \/ RecordingFails(k)
       PROVE  TypeOK'
  <2>1. calls[k].sock \in Sockets
    BY <1>13, CallFacts DEF RecordingStarts, RecordingFails
  <2> QED BY <1>13, <2>1, FreeFacts DEF RecordingStarts, RecordingFails, TypeOK
<1>14. ASSUME NEW s \in Sockets, CloseProducer(s) PROVE TypeOK'
  BY <1>14, FreeFacts, UnregisteredFacts DEF CloseProducer, TypeOK
<1>15. ASSUME NEW s \in Sockets, Disconnect(s) PROVE TypeOK'
  <2>1. /\ entry' \in [Channels -> Sockets \cup {None}]
        /\ reserved' \in [Channels -> Sockets \cup {None}]
        /\ calls' \in [Calls -> CallType]
    BY <1>15, UnregisteredFacts, GiveUpFacts, CallsMovedFacts DEF Disconnect
  <2>2. /\ producer' \in [Sockets -> ProducerType]
        /\ making' \in [Sockets -> 0..MaxMaking]
    BY <1>15, FreeFacts, MaxMakingAssumption DEF Disconnect, TypeOK
  <2>3. orphans' \subseteq Orphans /\ peers' \subseteq Sockets
    BY <1>15, OrphansFacts DEF Disconnect, TypeOK
  <2> QED BY <1>15, <2>1, <2>2, <2>3 DEF Disconnect, TypeOK
<1>16. CASE WorkerDies
  <2>1. producer' \in [Sockets -> ProducerType]
    BY <1>16 DEF WorkerDies, TypeOK, ProducerType, Transports
  <2> QED BY <1>16, <2>1, FreeFacts, MaxMakingAssumption DEF WorkerDies, TypeOK
<1>17. CASE WorkerBack
  BY <1>17, FreeFacts, MaxMakingAssumption DEF WorkerBack, TypeOK, Online
<1>18. CASE UNCHANGED vars
  BY <1>18 DEF vars, TypeOK
<1> QED
  BY <1>1, <1>2, <1>3, <1>4, <1>5, <1>6, <1>7, <1>8, <1>9, <1>10, <1>11, <1>12,
     <1>13, <1>14, <1>15, <1>16, <1>17, <1>18
     DEF Next, SocketStep, ChannelStep, CallStep

THEOREM SfuTypes == Spec => []TypeOK
  BY TypeInit, TypeNext, PTL DEF Spec

-----------------------------------------------------------------------------
(* Reservations die with their socket, whatever MidCall allows.            *)
LEMMA ReservationsNext ==
    ASSUME TypeOK, ReservationsLive, [Next]_vars
    PROVE  ReservationsLive'
<1>1. ASSUME \A c \in Channels : reserved'[c] \in {None, reserved[c]},
             \A s \in Sockets : Online(s) => Online(s)'
      PROVE  ReservationsLive'
  BY <1>1 DEF ReservationsLive, TypeOK
<1>2. ASSUME NEW s \in Sockets, Online(s), UNCHANGED sock, NEW c \in Channels,
             reserved'[c] \in {s, None, reserved[c]},
             \A d \in Channels \ {c} : reserved'[d] = reserved[d]
      PROVE  ReservationsLive'
  BY <1>2 DEF ReservationsLive, Online, TypeOK
<1>3. CASE UNCHANGED <<reserved, sock>>
  BY <1>1, <1>3 DEF Online
<1>4. ASSUME NEW s \in Sockets, Connect(s) PROVE ReservationsLive'
  <2>1. \A t \in Sockets : Online(t) => Online(t)'
    BY <1>4 DEF Connect, Online, TypeOK
  <2> QED BY <1>1, <1>4, <2>1 DEF Connect
<1>5. ASSUME NEW s, NEW C, reserved' = GiveUp(s, C), UNCHANGED sock
      PROVE  ReservationsLive'
  BY <1>1, <1>5, GiveUpFacts DEF Online
<1>6. ASSUME NEW s \in Sockets, NEW c \in Channels, Reserve(s, c)
      PROVE  ReservationsLive'
  BY <1>2, <1>6 DEF Reserve, TypeOK
<1>7. ASSUME NEW s \in Sockets, NEW c \in Channels, ProduceStart(s, c)
      PROVE  ReservationsLive'
  <2>1. /\ reserved'[c] \in {s, None, reserved[c]}
        /\ \A d \in Channels \ {c} : reserved'[d] = reserved[d]
    BY <1>7 DEF ProduceStart, ProduceRefused, ProduceRejected, ProduceAsked, TypeOK
  <2> QED BY <1>2, <1>7, <2>1 DEF ProduceStart
<1>8. ASSUME NEW s \in Sockets, Disconnect(s) PROVE ReservationsLive'
  <2> SUFFICES ASSUME NEW c \in Channels, reserved'[c] # None
               PROVE  sock'[reserved'[c]] = "on"
    BY DEF ReservationsLive, Online
  <2>1. reserved'[c] = reserved[c] /\ reserved[c] # s
    BY <1>8, GiveUpFacts DEF Disconnect
  <2>2. reserved[c] \in Sockets /\ Online(reserved[c])
    BY <2>1 DEF ReservationsLive, TypeOK
  <2> QED BY <1>8, <2>1, <2>2 DEF Disconnect, Online, TypeOK
<1>9. CASE WorkerDies
  BY <1>1, <1>9 DEF WorkerDies, Online
<1>10. CASE WorkerBack
  BY <1>10 DEF WorkerBack, ReservationsLive
<1> QED
  BY <1>3, <1>4, <1>5, <1>6, <1>7, <1>8, <1>9, <1>10
     DEF Next, SocketStep, ChannelStep, CallStep, Join, Leave,
         ReleaseReservation, TouchPeer, CreateTransportStart,
         CreateTransportDone, CreateTransportFails, ProduceDone, ProduceFails,
         RecordingStarts, RecordingFails, CloseProducer, vars

(* A reservation never outlives its socket.                                *)
THEOREM ReservationsDieWithSocket == Spec => []ReservationsLive
<1>1. Init => ReservationsLive
  BY DEF Init, ReservationsLive
<1>2. TypeOK /\ ReservationsLive /\ [Next]_vars => ReservationsLive'
  BY ReservationsNext
<1> QED BY <1>1, <1>2, TypeInit, TypeNext, PTL DEF Spec

-----------------------------------------------------------------------------
(* Without a worker there is no open producer and no call in flight.       *)
DeadQuiet ==
    worker = "dead" =>
        /\ \A k \in Calls : calls[k] = Free
        /\ \A s \in Sockets : producer[s].on = "closed" /\ send[s] # "open"
        /\ orphans = {}

LEMMA DeadQuietInit == Init => DeadQuiet
  BY DEF Init, DeadQuiet

LEMMA DeadQuietNext ==
    ASSUME TypeOK, DeadQuiet, [Next]_vars
    PROVE  DeadQuiet'
<1>1. CASE worker = "up" /\ ~WorkerDies
  BY <1>1 DEF Next, SocketStep, ChannelStep, CallStep, Connect, Join, Leave,
     Reserve, ReleaseReservation, TouchPeer, CreateTransportStart,
     CreateTransportDone, CreateTransportFails, ProduceStart, ProduceDone,
     ProduceFails, RecordingStarts, RecordingFails, CloseProducer, Disconnect,
     WorkerBack, vars, DeadQuiet
<1>2. CASE WorkerDies
  BY <1>2, FreeFacts DEF WorkerDies, DeadQuiet, TypeOK, ProducerType
<1>3. CASE WorkerBack
  BY <1>3 DEF WorkerBack, DeadQuiet
<1>4. CASE worker = "dead" /\ UNCHANGED <<calls, producer, send, orphans>>
  BY <1>4 DEF DeadQuiet
<1>5. ASSUME worker = "dead", NEW s \in Sockets, NEW c \in Channels,
             ProduceStart(s, c)
      PROVE  UNCHANGED <<calls, producer, send, orphans>>
  BY <1>5 DEF ProduceStart, ProduceRefused, ProduceRejected, ProduceAsked,
              DeadQuiet
<1>6. ASSUME worker = "dead", NEW k \in Calls, CallStep(k) PROVE FALSE
  BY <1>6, FreeFacts DEF CallStep, ProduceDone, ProduceFails, RecordingStarts,
                         RecordingFails, DeadQuiet
<1>7. ASSUME worker = "dead", NEW s \in Sockets,
             CreateTransportStart(s) \/ CloseProducer(s) \/ Disconnect(s)
      PROVE  DeadQuiet'
  <2>1. /\ \A k \in Calls : calls[k] = Free
        /\ \A t \in Sockets : producer[t].on = "closed" /\ send[t] # "open"
        /\ orphans = {}
    BY <1>7 DEF DeadQuiet
  <2>2. \A k \in Calls : calls'[k] = Free
    BY <1>7, <2>1, FreeFacts DEF CreateTransportStart, CloseProducer, Disconnect,
                                 CallsMoved, TypeOK
  <2>3. orphans' = {}
    BY <1>7, <2>1, OrphansFacts DEF CreateTransportStart, CloseProducer, Disconnect
  <2>4. \A t \in Sockets : producer'[t].on = "closed" /\ send'[t] # "open"
    BY <1>7, <2>1, FreeFacts, ProducerMovedFacts
       DEF CreateTransportStart, CloseProducer, Disconnect, TypeOK
  <2> QED BY <2>2, <2>3, <2>4 DEF DeadQuiet
<1> QED
  BY <1>1, <1>2, <1>3, <1>4, <1>5, <1>6, <1>7
     DEF Next, SocketStep, ChannelStep, Connect, Join, Leave, Reserve,
         ReleaseReservation, TouchPeer, CreateTransportDone,
         CreateTransportFails, vars, TypeOK, DeadQuiet

-----------------------------------------------------------------------------
(* No transport is overwritten if a socket never has two ms:createTransport*)
(* in flight: nothing is on a transport that nobody closes.  The invariant *)
(* behind it: while one is made there is no other, and what is open is on  *)
(* the current one.                                                        *)
NoStray ==
    /\ \A s \in Sockets : making[s] > 0 => send[s] = "none"
    /\ \A k \in Calls :
          /\ calls[k].on # "stray"
          /\ calls[k].on = "own" => send[calls[k].sock] = "open"
    /\ \A s \in Sockets :
          /\ producer[s].on # "stray"
          /\ producer[s].on = "own" => send[s] = "open"
    /\ \A m \in orphans : m.on = "own" /\ send[m.sock] = "open"

LEMMA NoStrayInit == Init => NoStray
  BY FreeFacts DEF Init, NoStray

LEMMA NoStrayNext ==
    ASSUME MaxMaking = 1, TypeOK, DeadQuiet, NoStray, [Next]_vars
    PROVE  NoStray'
<1> USE DEF NoStray
<1>1. CASE UNCHANGED <<send, making, calls, producer, orphans>>
  BY <1>1
<1>2. ASSUME NEW s \in Sockets, CreateTransportStart(s) PROVE NoStray'
  <2>1. /\ send' = [send EXCEPT ![s] = "none"]
        /\ calls' = CallsMoved(s, "closed")
        /\ producer' = ProducerMoved(s, "closed")
        /\ orphans' = OrphansClosed(s)
        /\ \A t \in Sockets \ {s} : making'[t] = making[t]
    BY <1>2 DEF CreateTransportStart, TypeOK
  <2>2. \A k \in Calls :
          /\ calls'[k].on # "stray"
          /\ calls'[k].on = "own" => send'[calls'[k].sock] = "open"
    <3>1. \A k \in Calls :
            /\ calls'[k].sock = calls[k].sock
            /\ calls'[k].on = IF calls[k].sock = s /\ calls[k].on = "own"
                             THEN "closed" ELSE calls[k].on
      BY <2>1, CallsMovedFacts
    <3> QED BY <2>1, <3>1 DEF TypeOK
  <2>3. \A t \in Sockets :
          /\ producer'[t].on # "stray"
          /\ producer'[t].on = "own" => send'[t] = "open"
    <3>1. \A t \in Sockets :
            producer'[t].on = IF t = s /\ producer[t].on = "own" THEN "closed"
                              ELSE producer[t].on
      BY <2>1, ProducerMovedFacts
    <3> QED BY <2>1, <3>1 DEF TypeOK
  <2>4. \A m \in orphans' : m.on = "own" /\ send'[m.sock] = "open"
    BY <2>1, OrphansFacts DEF TypeOK, Orphans
  <2>5. \A t \in Sockets : making'[t] > 0 => send'[t] = "none"
    BY <2>1 DEF TypeOK
  <2> QED BY <2>2, <2>3, <2>4, <2>5
<1>3. ASSUME NEW s \in Sockets, CreateTransportDone(s) PROVE NoStray'
  <2>1. /\ send[s] = "none"
        /\ send' = [send EXCEPT ![s] = "open"]
        /\ making'[s] = 0
        /\ \A t \in Sockets \ {s} : making'[t] = making[t]
        /\ calls' = CallsMoved(s, "stray")
        /\ producer' = ProducerMoved(s, "stray")
        /\ orphans' = OrphansOverwritten(s)
    BY <1>3 DEF CreateTransportDone, TypeOK
  <2>2. \A k \in Calls :
          /\ calls'[k].on # "stray"
          /\ calls'[k].on = "own" => send'[calls'[k].sock] = "open"
    <3>1. \A k \in Calls :
            /\ calls'[k].sock = calls[k].sock
            /\ calls'[k].on = IF calls[k].sock = s /\ calls[k].on = "own"
                             THEN "stray" ELSE calls[k].on
      BY <2>1, CallsMovedFacts
    <3> QED BY <2>1, <3>1 DEF TypeOK
  <2>3. \A t \in Sockets :
          /\ producer'[t].on # "stray"
          /\ producer'[t].on = "own" => send'[t] = "open"
    <3>1. \A t \in Sockets :
            producer'[t].on = IF t = s /\ producer[t].on = "own" THEN "stray"
                              ELSE producer[t].on
      BY <2>1, ProducerMovedFacts
    <3> QED BY <2>1, <3>1 DEF TypeOK
  <2>4. \A m \in orphans' : m.on = "own" /\ send'[m.sock] = "open"
    <3> SUFFICES ASSUME NEW m \in orphans'
                 PROVE  m.on = "own" /\ send'[m.sock] = "open"
      OBVIOUS
    <3>1. ~ [sock |-> s, chan |-> m.chan, on |-> "own"] \in orphans
      BY <2>1
    <3>2. m \in OrphansClosed(s)
      BY <2>1, <3>1, OrphansFacts
    <3>3. m \in orphans /\ (m.sock # s \/ m.on = "stray")
      BY <3>2, OrphansFacts
    <3> QED BY <2>1, <3>3 DEF TypeOK, Orphans
  <2>5. \A t \in Sockets : making'[t] > 0 => send'[t] = "none"
    BY <2>1 DEF TypeOK
  <2> QED BY <2>2, <2>3, <2>4, <2>5
<1>4. ASSUME NEW s \in Sockets, CreateTransportFails(s) PROVE NoStray'
  BY <1>4, MaxMakingAssumption DEF CreateTransportFails, TypeOK
<1>5. ASSUME NEW s \in Sockets, NEW c \in Channels, ProduceStart(s, c)
      PROVE  NoStray'
  <2>1. UNCHANGED <<send, making, producer, orphans>>
    BY <1>5 DEF ProduceStart
  <2>2. \A k \in Calls :
          \/ calls'[k] = calls[k]
          \/ calls'[k].on = "own" /\ calls'[k].sock = s /\ send[s] = "open"
    BY <1>5 DEF ProduceStart, ProduceRefused, ProduceRejected, ProduceAsked, TypeOK
  <2> QED BY <2>1, <2>2
<1>6. ASSUME NEW k \in Calls, ProduceDone(k) PROVE NoStray'
  <2> DEFINE s == calls[k].sock
  <2>1. /\ UNCHANGED <<send, making>>
        /\ s \in Sockets
        /\ \A j \in Calls \ {k} : calls'[j] = calls[j]
        /\ calls'[k].on = "closed"
    BY <1>6, CallFacts, FreeFacts DEF ProduceDone, TypeOK, Free
  <2>2. \A t \in Sockets : \/ producer'[t] = producer[t]
                           \/ t = s /\ producer'[t].on = calls[k].on
    BY <1>6 DEF ProduceDone, TypeOK
  <2>3. \A m \in orphans' :
          \/ m \in orphans
          \/ m.sock = s /\ m.on \in {"own", "stray"}
             /\ (m.on = producer[s].on \/ m.on = calls[k].on)
    BY <1>6 DEF ProduceDone, Orphaned, Orphans
  <2> QED BY <2>1, <2>2, <2>3
<1>7. ASSUME NEW k \in Calls,
             \/ ProduceFails(k) \/ RecordingStarts(k) \/ RecordingFails(k)
      PROVE  NoStray'
  <2>1. /\ UNCHANGED <<send, making, producer, orphans>>
        /\ \A j \in Calls : calls'[j] = calls[j] \/ calls'[j] = Free
    BY <1>7 DEF ProduceFails, RecordingStarts, RecordingFails, TypeOK
  <2> QED BY <2>1, FreeFacts
<1>8. ASSUME NEW s \in Sockets, CloseProducer(s) PROVE NoStray'
  BY <1>8, FreeFacts DEF CloseProducer, TypeOK
<1>9. ASSUME NEW s \in Sockets, Disconnect(s) PROVE NoStray'
  <2>1. /\ send' = [send EXCEPT ![s] = "none"]
        /\ making' = [making EXCEPT ![s] = 0]
        /\ calls' = CallsMoved(s, "closed")
        /\ producer' = [producer EXCEPT ![s] = NoProducer]
        /\ orphans' = OrphansClosed(s)
    BY <1>9 DEF Disconnect
  <2>2. \A k \in Calls :
          /\ calls'[k].on # "stray"
          /\ calls'[k].on = "own" => send'[calls'[k].sock] = "open"
    <3>1. \A k \in Calls :
            /\ calls'[k].sock = calls[k].sock
            /\ calls'[k].on = IF calls[k].sock = s /\ calls[k].on = "own"
                             THEN "closed" ELSE calls[k].on
      BY <2>1, CallsMovedFacts
    <3> QED BY <2>1, <3>1 DEF TypeOK
  <2>3. \A t \in Sockets :
          /\ producer'[t].on # "stray"
          /\ producer'[t].on = "own" => send'[t] = "open"
    BY <2>1, FreeFacts DEF TypeOK
  <2>4. \A m \in orphans' : m.on = "own" /\ send'[m.sock] = "open"
    BY <2>1, OrphansFacts DEF TypeOK, Orphans
  <2>5. \A t \in Sockets : making'[t] > 0 => send'[t] = "none"
    BY <2>1 DEF TypeOK
  <2> QED BY <2>2, <2>3, <2>4, <2>5
<1>10. CASE WorkerDies
  <2>1. /\ \A k \in Calls : calls'[k] = Free
        /\ \A t \in Sockets : producer'[t].on = "closed" /\ making'[t] = 0
        /\ orphans' = {}
    BY <1>10 DEF WorkerDies, TypeOK, ProducerType
  <2> QED BY <2>1, FreeFacts
<1>11. CASE WorkerBack
  <2>1. /\ \A k \in Calls : calls'[k] = Free
        /\ \A t \in Sockets : producer'[t] = NoProducer /\ making'[t] = 0
        /\ orphans' = {}
    BY <1>11 DEF WorkerBack, DeadQuiet
  <2> QED BY <2>1, FreeFacts
<1> QED
  BY <1>1, <1>2, <1>3, <1>4, <1>5, <1>6, <1>7, <1>8, <1>9, <1>10, <1>11
     DEF Next, SocketStep, ChannelStep, CallStep, Connect, Join, Leave,
         Reserve, ReleaseReservation, TouchPeer, vars

NothingStray == \A s \in Sockets, c \in Channels : ~LeftOpen(s, c)

(* No microphone outlives its socket on a transport that nobody closes if  *)
(* a socket never has two ms:createTransport in flight, whatever befalls   *)
(* its ms:produce.                                                         *)
THEOREM NothingIsLeftOpen ==
    ASSUME MaxMaking = 1 PROVE Spec => []NothingStray
<1>1. NoStray => NothingStray
  BY DEF NoStray, NothingStray, LeftOpen
<1>2. TypeOK /\ DeadQuiet /\ NoStray /\ [Next]_vars => DeadQuiet' /\ NoStray'
  BY DeadQuietNext, NoStrayNext
<1> QED
  BY <1>1, <1>2, TypeInit, TypeNext, DeadQuietInit, NoStrayInit, PTL DEF Spec

-----------------------------------------------------------------------------
(* Ghosts can be cleared unless a socket drops while its recording starts, *)
(* or drops with a ms:produce in flight on a transport that a second one   *)
(* has overwritten.  The invariant behind it: msPeers has connected        *)
(* sockets only, as whoever will touch it again after an await is still    *)
(* connected, or its transport would be closed.                            *)
PeersConnected ==
    /\ \A s \in peers : Online(s)
    /\ \A k \in Calls : calls[k].at = "record" => Online(calls[k].sock)
    /\ \A k \in Calls :
          calls[k].at = "produce" /\ calls[k].on # "closed" => Online(calls[k].sock)

LEMMA PeersConnectedInit == Init => PeersConnected
  BY FreeFacts DEF Init, PeersConnected

LEMMA PeersConnectedNext ==
    ASSUME "record" \notin MidCall,
           "drop" \notin MidCall \/ NoStray,
           TypeOK, DeadQuiet, PeersConnected, [Next]_vars
    PROVE  PeersConnected'
<1> USE DEF PeersConnected
<1>1. ASSUME NEW s \in Sockets, Connect(s) PROVE PeersConnected'
  <2>1. \A t \in Sockets : Online(t) => Online(t)'
    BY <1>1 DEF Connect, Online, TypeOK
  <2> QED BY <1>1, <2>1, CallFacts DEF Connect, TypeOK
<1>2. CASE UNCHANGED <<sock, peers, calls>>
  BY <1>2 DEF Online
<1>3. ASSUME NEW s \in Sockets, TouchPeer(s) PROVE PeersConnected'
  BY <1>3 DEF TouchPeer, Online
<1>4. ASSUME NEW s \in Sockets, CreateTransportStart(s) \/ CreateTransportDone(s)
      PROVE  PeersConnected'
  <2>1. \E on \in {"stray", "closed"} : calls' = CallsMoved(s, on)
    BY <1>4 DEF CreateTransportStart, CreateTransportDone
  <2>2. \A k \in Calls : /\ calls'[k].at = calls[k].at
                         /\ calls'[k].sock = calls[k].sock
                         /\ calls[k].on = "closed" => calls'[k].on = "closed"
    BY <2>1, CallsMovedFacts
  <2>3. /\ UNCHANGED sock
        /\ \/ peers' = peers
           \/ peers' = peers \cup {s} /\ Online(s)
    BY <1>4 DEF CreateTransportStart, CreateTransportDone
  <2>4. \A t \in peers' : Online(t)'
    BY <2>3 DEF Online
  <2> QED BY <2>2, <2>3, <2>4 DEF Online
<1>5. ASSUME NEW s \in Sockets, NEW c \in Channels, ProduceStart(s, c)
      PROVE  PeersConnected'
  <2>1. UNCHANGED <<sock, peers>> /\ Online(s)
    BY <1>5 DEF ProduceStart
  <2>2. \A k \in Calls : \/ calls'[k] = calls[k]
                         \/ calls'[k].at = "produce" /\ calls'[k].sock = s
    BY <1>5 DEF ProduceStart, ProduceRefused, ProduceRejected, ProduceAsked, TypeOK
  <2> QED BY <2>1, <2>2 DEF Online
<1>6. ASSUME NEW k \in Calls, CallStep(k) PROVE PeersConnected'
  <2>1. CASE ProduceDone(k)
    <3>1. calls'[k].at = "record" =>
             calls[k].on # "closed" /\ calls'[k].sock = calls[k].sock
      BY <2>1, FreeFacts DEF ProduceDone, TypeOK, Free
    <3>2. calls'[k].at # "produce" /\ calls[k].at = "produce"
      BY <2>1, FreeFacts DEF ProduceDone, TypeOK, Free
    <3>3. /\ UNCHANGED <<sock, peers>>
          /\ \A j \in Calls \ {k} : calls'[j] = calls[j]
      BY <2>1 DEF ProduceDone, TypeOK
    <3> QED BY <3>1, <3>2, <3>3 DEF Online
  <2>2. CASE ProduceFails(k) \/ RecordingStarts(k) \/ RecordingFails(k)
    <3>1. /\ UNCHANGED sock
          /\ \A j \in Calls : calls'[j] = calls[j] \/ calls'[j] = Free
          /\ \/ peers' = peers
             \/ peers' = peers \cup {calls[k].sock} /\ calls[k].at = "record"
      BY <2>2 DEF ProduceFails, RecordingStarts, RecordingFails, TypeOK
    <3> QED BY <3>1, FreeFacts DEF Online
  <2> QED BY <1>6, <2>1, <2>2 DEF CallStep
<1>7. ASSUME NEW s \in Sockets, Disconnect(s) PROVE PeersConnected'
  <2>1. /\ sock' = [sock EXCEPT ![s] = "off"]
        /\ peers' = peers \ {s}
        /\ calls' = CallsMoved(s, "closed")
        /\ \A k \in Calls : calls[k].at = "record" => calls[k].sock # s
        /\ "drop" \in MidCall \/ \A k \in Calls : ~Asks(k, s)
    BY <1>7 DEF Disconnect
  <2>2. \A k \in Calls :
          /\ calls'[k].at = calls[k].at
          /\ calls'[k].sock = calls[k].sock
          /\ calls'[k].on = IF calls[k].sock = s /\ calls[k].on = "own"
                            THEN "closed" ELSE calls[k].on
    BY <2>1, CallsMovedFacts
  <2>3. \A t \in Sockets \ {s} : Online(t) => Online(t)'
    BY <2>1 DEF Online, TypeOK
  <2>4. \A k \in Calls :
          calls[k].at = "produce" /\ calls'[k].on # "closed" => calls[k].sock # s
    BY <2>1, <2>2, CallFacts DEF NoStray, Asks, Transports
  <2> QED BY <2>1, <2>2, <2>3, <2>4, CallFacts DEF TypeOK
<1>8. CASE WorkerDies
  <2>1. UNCHANGED <<sock, peers>> /\ \A k \in Calls : calls'[k] = Free
    BY <1>8 DEF WorkerDies
  <2> QED BY <2>1, FreeFacts DEF Online
<1>9. CASE WorkerBack
  <2>1. peers' = {} /\ \A k \in Calls : calls'[k] = Free
    BY <1>9 DEF WorkerBack, DeadQuiet
  <2> QED BY <2>1, FreeFacts
<1> QED
  BY <1>1, <1>2, <1>3, <1>4, <1>5, <1>6, <1>7, <1>8, <1>9
     DEF Next, SocketStep, ChannelStep, Join, Leave, Reserve,
         ReleaseReservation, CreateTransportFails, CloseProducer, vars

(* A speaker that has gone is a ghost that the next who asks clears, if no *)
(* socket drops while its recording starts and either no two               *)
(* ms:createTransport of a socket overlap or none drops in a ms:produce.   *)
THEOREM GhostsAreCleared ==
    ASSUME "record" \notin MidCall, MaxMaking = 1 \/ "drop" \notin MidCall
    PROVE  Spec => []GhostsYield
<1> DEFINE Calm == "drop" \notin MidCall \/ NoStray
<1>1. Init => Calm
  BY NoStrayInit
<1>2. TypeOK /\ DeadQuiet /\ Calm /\ [Next]_vars => Calm'
  BY NoStrayNext
<1>3. TypeOK /\ DeadQuiet /\ Calm /\ PeersConnected /\ [Next]_vars
         => DeadQuiet' /\ PeersConnected'
  BY DeadQuietNext, PeersConnectedNext
<1>4. PeersConnected => GhostsYield
  BY DEF PeersConnected, GhostsYield
<1> QED
  BY <1>1, <1>2, <1>3, <1>4, TypeInit, TypeNext, DeadQuietInit,
     PeersConnectedInit, PTL DEF Spec

-----------------------------------------------------------------------------
(* The channel of a ms:produce in flight, when nothing befalls a socket in *)
(* the middle of one.  From its reservation to the worker's answer the     *)
(* channel is held for the caller and has no speaker, and no other call is *)
(* in flight for it; whoever is registered and connected is in msPeers, so *)
(* that nobody takes them for a ghost.                                     *)
CallHeld(k) ==
    LET s == calls[k].sock
        c == calls[k].chan
    IN  calls[k].at = "produce" =>
            Online(s) /\ s \in peers /\ reserved[c] = s /\ entry[c] = None

OneCall(j, k) ==
    calls[j].at = "produce" /\ calls[k].at = "produce"
    /\ calls[j].chan = calls[k].chan => j = k

EntryKnown(c) ==
    LET s == entry[c]
    IN  s # None => /\ sock[s] # "new"
                    /\ Online(s) => s \in peers

TransportOwned(s) ==
    /\ send[s] # "none" \/ making[s] > 0 => Online(s) /\ s \in peers
    /\ send[s] = "closed" => worker = "dead"

CallsHeld ==
    /\ \A k \in Calls : CallHeld(k)
    /\ \A j, k \in Calls : OneCall(j, k)
    /\ \A c \in Channels : EntryKnown(c)
    /\ \A s \in Sockets : TransportOwned(s)

LEMMA CallsHeldInit == Init => CallsHeld
  BY FreeFacts
     DEF Init, CallsHeld, CallHeld, OneCall, EntryKnown, TransportOwned

LEMMA CallsHeldNext ==
    ASSUME MidCall \subseteq {"record"}, TypeOK, DeadQuiet, CallsHeld, [Next]_vars
    PROVE  CallsHeld'
<1>0. TypeOK'
  BY TypeNext
<1> USE NoneAssumption DEF CallsHeld
<1>1. ASSUME NEW s \in Sockets, Connect(s) PROVE CallsHeld'
  <2>1. /\ sock[s] = "new" /\ sock' = [sock EXCEPT ![s] = "on"]
        /\ UNCHANGED <<peers, send, making, calls, entry, reserved, worker>>
    BY <1>1 DEF Connect
  <2>2. ASSUME NEW k \in Calls PROVE CallHeld(k)'
    BY <2>1, CallFacts DEF CallHeld, Online, TypeOK
  <2>3. ASSUME NEW c \in Channels PROVE EntryKnown(c)'
    BY <2>1 DEF EntryKnown, Online, TypeOK
  <2>4. ASSUME NEW t \in Sockets PROVE TransportOwned(t)'
    BY <2>1 DEF TransportOwned, Online, TypeOK
  <2> QED BY <2>1, <2>2, <2>3, <2>4 DEF OneCall
<1>2. ASSUME UNCHANGED <<sock, peers, send, making, calls, entry, reserved,
                         worker>>
      PROVE  CallsHeld'
  BY <1>2 DEF CallHeld, OneCall, EntryKnown, TransportOwned, Online
<1>3. ASSUME NEW s \in Sockets, NEW c \in Channels, ~Calling(s, c),
             reserved' = GiveUp(s, {c}),
             UNCHANGED <<sock, peers, send, making, calls, entry, worker>>
      PROVE  CallsHeld'
  <2>1. ASSUME NEW k \in Calls PROVE CallHeld(k)'
    <3>1. CASE calls[k].at = "produce"
      <4>1. calls[k].chan \in Channels /\ ~(calls[k].sock = s /\ calls[k].chan = c)
        BY <1>3, <3>1, CallFacts DEF Calling, Asks
      <4>2. reserved'[calls[k].chan] = reserved[calls[k].chan]
        BY <1>3, <3>1, <4>1, GiveUpFacts DEF CallHeld
      <4> QED BY <1>3, <3>1, <4>2 DEF CallHeld, Online
    <3>2. CASE calls[k].at # "produce"
      BY <1>3, <3>2 DEF CallHeld
    <3> QED BY <3>1, <3>2
  <2> QED BY <1>3, <2>1 DEF OneCall, EntryKnown, TransportOwned, Online
<1>4. ASSUME NEW s \in Sockets, NEW c \in Channels, Reserve(s, c) PROVE CallsHeld'
  <2>1. /\ entry' = [entry EXCEPT ![c] = None]
        /\ reserved' = [reserved EXCEPT ![c] = IF NotHeld(s, c) THEN s ELSE @]
        /\ UNCHANGED <<sock, peers, send, making, calls, worker>>
    BY <1>4 DEF Reserve
  <2>2. ASSUME NEW k \in Calls PROVE CallHeld(k)'
    <3>1. CASE calls[k].at = "produce"
      BY <2>1, <3>1, CallFacts DEF CallHeld, NotHeld, Online, TypeOK
    <3>2. CASE calls[k].at # "produce"
      BY <2>1, <3>2 DEF CallHeld
    <3> QED BY <3>1, <3>2
  <2>3. ASSUME NEW d \in Channels PROVE EntryKnown(d)'
    BY <2>1 DEF EntryKnown, Online, TypeOK
  <2> QED BY <2>1, <2>2, <2>3 DEF OneCall, TransportOwned, Online
<1>5. ASSUME NEW s \in Sockets, TouchPeer(s) PROVE CallsHeld'
  BY <1>5 DEF TouchPeer, CallHeld, OneCall, EntryKnown, TransportOwned, Online
<1>6. ASSUME NEW s \in Sockets, CreateTransportStart(s) \/ CreateTransportDone(s)
      PROVE  CallsHeld'
  <2>1. /\ UNCHANGED <<sock, entry, reserved, worker>>
        /\ send'[s] # "closed"
        /\ peers' = peers \/ peers' = peers \cup {s}
        /\ Online(s) /\ s \in peers'
    <3>1. CASE CreateTransportStart(s)
      BY <3>1 DEF CreateTransportStart, TypeOK
    <3>2. CASE CreateTransportDone(s)
      BY <3>2 DEF CreateTransportDone, TransportOwned, TypeOK
    <3> QED BY <1>6, <3>1, <3>2
  <2>2. \A k \in Calls : /\ calls'[k].at = calls[k].at
                         /\ calls'[k].sock = calls[k].sock
                         /\ calls'[k].chan = calls[k].chan
    <3>1. \E on \in {"stray", "closed"} : calls' = CallsMoved(s, on)
      BY <1>6 DEF CreateTransportStart, CreateTransportDone
    <3> QED BY <3>1, CallsMovedFacts
  <2>3. \A t \in Sockets \ {s} : send'[t] = send[t] /\ making'[t] = making[t]
    BY <1>6 DEF CreateTransportStart, CreateTransportDone, TypeOK
  <2>4. ASSUME NEW t \in Sockets PROVE TransportOwned(t)'
    BY <2>1, <2>3 DEF TransportOwned, Online
  <2>5. ASSUME NEW k \in Calls PROVE CallHeld(k)'
    BY <2>1, <2>2 DEF CallHeld, Online
  <2> QED BY <2>1, <2>2, <2>4, <2>5 DEF OneCall, EntryKnown, Online
<1>7. ASSUME NEW s \in Sockets, CreateTransportFails(s) PROVE CallsHeld'
  <2>1. /\ UNCHANGED <<sock, peers, send, calls, entry, reserved, worker>>
        /\ \A t \in Sockets : making'[t] > 0 => making[t] > 0
    BY <1>7, MaxMakingAssumption DEF CreateTransportFails, TypeOK
  <2> QED BY <2>1 DEF CallHeld, OneCall, EntryKnown, TransportOwned, Online
<1>8. ASSUME NEW s \in Sockets, NEW c \in Channels, ProduceStart(s, c)
      PROVE  CallsHeld'
  <2>1. s \in peers /\ Online(s)
    BY <1>8 DEF ProduceStart, TransportOwned
  <2>2. /\ entry' = [entry EXCEPT ![c] = None]
        /\ UNCHANGED <<sock, peers, send, making, worker>>
    BY <1>8 DEF ProduceStart
  <2>3. ASSUME NEW d \in Channels PROVE EntryKnown(d)'
    BY <2>2 DEF EntryKnown, Online, TypeOK
  <2>4. ASSUME NEW t \in Sockets PROVE TransportOwned(t)'
    BY <2>2 DEF TransportOwned, Online
  <2>5. CASE UNCHANGED <<reserved, calls>>
    <3>1. ASSUME NEW k \in Calls PROVE CallHeld(k)'
      BY <2>2, <2>5, CallFacts DEF CallHeld, Online, TypeOK
    <3> QED BY <2>3, <2>4, <2>5, <3>1 DEF OneCall
  <2>6. CASE ProduceRejected(s, c)
    <3>1. \A k \in Calls : calls[k] = Free /\ calls'[k] = Free
      BY <2>6 DEF ProduceRejected, TransportOwned, DeadQuiet
    <3> QED BY <2>3, <2>4, <3>1, FreeFacts DEF CallHeld, OneCall
  <2>7. CASE ProduceAsked(s, c)
    <3>1. PICK k \in Calls :
            calls' = [calls EXCEPT ![k] =
                        [at |-> "produce", sock |-> s, chan |-> c, on |-> "own"]]
      BY <2>7 DEF ProduceAsked
    <3>2. /\ NotHeld(s, c) /\ ~Calling(s, c)
          /\ reserved' = [reserved EXCEPT ![c] = s]
      BY <2>7 DEF ProduceAsked
    <3>3. /\ calls'[k].at = "produce" /\ calls'[k].sock = s /\ calls'[k].chan = c
          /\ \A j \in Calls \ {k} : calls'[j] = calls[j]
      BY <3>1 DEF TypeOK
    <3>4. \A j \in Calls : calls[j].at = "produce" => calls[j].chan # c
      BY <3>2, CallFacts DEF Calling, Asks, CallHeld, NotHeld
    <3>5. ASSUME NEW j \in Calls PROVE CallHeld(j)'
      <4>1. CASE j = k
        BY <2>1, <2>2, <3>2, <3>3, <4>1 DEF CallHeld, Online, TypeOK
      <4>2. CASE j # k
        BY <2>2, <3>2, <3>3, <3>4, <4>2, CallFacts DEF CallHeld, Online, TypeOK
      <4> QED BY <4>1, <4>2
    <3>6. ASSUME NEW i \in Calls, NEW j \in Calls PROVE OneCall(i, j)'
      BY <3>3, <3>4 DEF OneCall
    <3> QED BY <2>3, <2>4, <3>5, <3>6
  <2> QED BY <1>8, <2>5, <2>6, <2>7 DEF ProduceStart, ProduceRefused
<1>9. ASSUME NEW k \in Calls, ProduceDone(k) PROVE CallsHeld'
  <2> DEFINE s == calls[k].sock
             c == calls[k].chan
  <2>1. /\ s \in Sockets /\ c \in Channels
        /\ calls[k].at = "produce" /\ Online(s) /\ s \in peers
    BY <1>9, CallFacts DEF ProduceDone, CallHeld
  <2>2. /\ entry'[c] = s
        /\ \A d \in Channels \ {c} : entry'[d] = entry[d] /\ reserved'[d] = reserved[d]
        /\ \A j \in Calls \ {k} : calls'[j] = calls[j]
        /\ UNCHANGED <<sock, peers, send, making, worker>>
    BY <1>9, <2>1, GiveUpFacts DEF ProduceDone, TypeOK
  <2>3. calls'[k].at # "produce"
    BY <1>9, FreeFacts DEF ProduceDone, TypeOK, Free
  <2>4. \A j \in Calls \ {k} : calls[j].at = "produce" => calls[j].chan \in Channels \ {c}
    BY <2>1, CallFacts DEF OneCall
  <2> HIDE DEF s, c
  <2>5. ASSUME NEW j \in Calls PROVE CallHeld(j)'
    <3>1. CASE j = k
      BY <2>3, <3>1 DEF CallHeld
    <3>2. CASE j # k
      BY <2>2, <2>4, <3>2 DEF CallHeld, Online
    <3> QED BY <3>1, <3>2
  <2>6. ASSUME NEW d \in Channels PROVE EntryKnown(d)'
    BY <2>1, <2>2 DEF EntryKnown, Online
  <2>7. ASSUME NEW i \in Calls, NEW j \in Calls PROVE OneCall(i, j)'
    BY <2>2, <2>3 DEF OneCall
  <2> QED BY <2>2, <2>5, <2>6, <2>7 DEF TransportOwned, Online
<1>10. ASSUME NEW k \in Calls, ProduceFails(k) PROVE CallsHeld'
  <2> DEFINE c == calls[k].chan
  <2>1. c \in Channels /\ calls[k].at = "produce"
    BY <1>10, CallFacts DEF ProduceFails
  <2>2. /\ \A d \in Channels \ {c} : reserved'[d] = reserved[d]
        /\ \A j \in Calls \ {k} : calls'[j] = calls[j]
        /\ calls'[k].at = "free"
        /\ UNCHANGED <<sock, peers, send, making, entry, worker>>
    BY <1>10, <2>1, GiveUpFacts, FreeFacts DEF ProduceFails, TypeOK
  <2>3. \A j \in Calls \ {k} : calls[j].at = "produce" => calls[j].chan \in Channels \ {c}
    BY <2>1, CallFacts DEF OneCall
  <2> HIDE DEF c
  <2>4. ASSUME NEW j \in Calls PROVE CallHeld(j)'
    BY <2>2, <2>3 DEF CallHeld, Online
  <2>5. ASSUME NEW i \in Calls, NEW j \in Calls PROVE OneCall(i, j)'
    BY <2>2 DEF OneCall
  <2> QED BY <2>2, <2>4, <2>5 DEF EntryKnown, TransportOwned, Online
<1>11. ASSUME NEW k \in Calls, RecordingStarts(k) \/ RecordingFails(k)
       PROVE  CallsHeld'
  <2>1. /\ peers \subseteq peers'
        /\ \A j \in Calls : calls'[j] = calls[j] \/ calls'[j].at = "free"
        /\ UNCHANGED <<sock, send, making, entry, reserved, worker>>
    BY <1>11, FreeFacts DEF RecordingStarts, RecordingFails, TypeOK
  <2> QED BY <2>1 DEF CallHeld, OneCall, EntryKnown, TransportOwned, Online
<1>12. ASSUME NEW s \in Sockets, CloseProducer(s) PROVE CallsHeld'
  <2>1. /\ \A d \in Channels : entry'[d] = entry[d] \/ entry'[d] = None
        /\ UNCHANGED <<sock, peers, send, making, calls, reserved, worker>>
    BY <1>12, UnregisteredFacts DEF CloseProducer
  <2>2. ASSUME NEW k \in Calls PROVE CallHeld(k)'
    BY <2>1, CallFacts DEF CallHeld, Online
  <2>3. ASSUME NEW d \in Channels PROVE EntryKnown(d)'
    BY <2>1 DEF EntryKnown, Online
  <2> QED BY <2>1, <2>2, <2>3 DEF OneCall, TransportOwned, Online
<1>13. ASSUME NEW s \in Sockets, Disconnect(s) PROVE CallsHeld'
  <2>1. /\ \A d \in Channels : entry'[d] = entry[d] \/ entry'[d] = None
        /\ \A d \in Channels : reserved'[d] = reserved[d] \/ reserved[d] = s
        /\ peers' = peers \ {s}
        /\ sock' = [sock EXCEPT ![s] = "off"]
        /\ send' = [send EXCEPT ![s] = "none"]
        /\ making' = [making EXCEPT ![s] = 0]
        /\ worker' = worker
        /\ \A k \in Calls : ~Asks(k, s)
    BY <1>13, UnregisteredFacts, GiveUpFacts DEF Disconnect
  <2>2. \A k \in Calls : /\ calls'[k].at = calls[k].at
                         /\ calls'[k].sock = calls[k].sock
                         /\ calls'[k].chan = calls[k].chan
    BY <1>13, CallsMovedFacts DEF Disconnect
  <2>3. ASSUME NEW k \in Calls PROVE CallHeld(k)'
    <3>1. CASE calls[k].at # "produce"
      BY <2>2, <3>1 DEF CallHeld
    <3>2. CASE calls[k].at = "produce"
      <4>1. calls[k].sock # s /\ calls[k].sock \in Sockets /\ calls[k].chan \in Channels
        BY <2>1, <3>2, CallFacts DEF Asks
      <4> QED BY <2>1, <2>2, <3>2, <4>1 DEF CallHeld, Online, TypeOK
    <3> QED BY <3>1, <3>2
  <2>4. ASSUME NEW d \in Channels PROVE EntryKnown(d)'
    BY <2>1 DEF EntryKnown, Online, TypeOK
  <2>5. ASSUME NEW t \in Sockets PROVE TransportOwned(t)'
    BY <2>1 DEF TransportOwned, Online, TypeOK
  <2> QED BY <2>2, <2>3, <2>4, <2>5 DEF OneCall
<1>14. CASE WorkerDies
  <2>1. /\ \A k \in Calls : calls'[k].at = "free"
        /\ \A t \in Sockets : send'[t] # "none" => send[t] # "none"
        /\ \A t \in Sockets : ~(making'[t] > 0)
        /\ worker' = "dead"
        /\ UNCHANGED <<sock, peers, entry>>
    BY <1>14, FreeFacts DEF WorkerDies
  <2> QED BY <2>1 DEF CallHeld, OneCall, EntryKnown, TransportOwned, Online
<1>15. CASE WorkerBack
  <2>1. /\ \A k \in Calls : calls'[k].at = "free"
        /\ \A t \in Sockets : send'[t] = "none" /\ ~(making'[t] > 0)
        /\ \A d \in Channels : entry'[d] = None
    BY <1>15, FreeFacts DEF WorkerBack, DeadQuiet
  <2> QED BY <2>1 DEF CallHeld, OneCall, EntryKnown, TransportOwned
<1> QED
  BY <1>1, <1>2, <1>3, <1>4, <1>5, <1>6, <1>7, <1>8, <1>9, <1>10, <1>11, <1>12,
     <1>13, <1>14, <1>15
     DEF Next, SocketStep, ChannelStep, CallStep, Join, Leave,
         ReleaseReservation, MayGiveUp, vars

-----------------------------------------------------------------------------
(* The open microphones under the same condition: whoever talks is the one *)
(* registered, and has no second microphone in the channel that closing    *)
(* the first would leave unregistered.                                     *)
TalkRegistered(s, c) ==
    Talks(s, c) => (entry[c] = s /\ Online(s)) \/ LeftOpen(s, c)

OneMicrophone ==
    \A m \in orphans : Online(m.sock) => producer[m.sock].chan # m.chan

Microphones ==
    /\ \A s \in Sockets, c \in Channels : TalkRegistered(s, c)
    /\ OneMicrophone

LEMMA MicrophonesInit == Init => Microphones
  BY NoneAssumption, FreeFacts
     DEF Init, Microphones, TalkRegistered, OneMicrophone, Talks

(* An orphan talks. *)
LEMMA OrphanTalks ==
    ASSUME TypeOK, NEW m \in orphans
    PROVE  /\ m.sock \in Sockets /\ m.chan \in Channels
           /\ m.on \in {"own", "stray"}
           /\ m = [sock |-> m.sock, chan |-> m.chan, on |-> m.on]
           /\ Talks(m.sock, m.chan)
<1>1. m \in Orphans
  BY DEF TypeOK
<1>2. /\ m.sock \in Sockets /\ m.chan \in Channels /\ m.on \in {"own", "stray"}
      /\ m = [sock |-> m.sock, chan |-> m.chan, on |-> m.on]
  BY <1>1 DEF Orphans
<1> QED BY <1>2 DEF Talks

(* A send transport that is closed or overwritten opens no microphone. *)
LEMMA MovedTalks ==
    ASSUME TypeOK, NEW s \in Sockets,
           CreateTransportStart(s) \/ CreateTransportDone(s),
           NEW t \in Sockets, NEW c \in Channels
    PROVE  /\ Talks(t, c)' => Talks(t, c)
           /\ LeftOpen(t, c) => LeftOpen(t, c)'
<1>1. PICK on \in {"stray", "closed"} : producer' = ProducerMoved(s, on)
  BY DEF CreateTransportStart, CreateTransportDone
<1>2. \A u \in Sockets : /\ producer'[u].chan = producer[u].chan
                         /\ producer'[u].on # "closed" => producer[u].on # "closed"
  BY <1>1, ProducerMovedFacts
<1>3. orphans' = OrphansClosed(s) \/ orphans' = OrphansOverwritten(s)
  BY DEF CreateTransportStart, CreateTransportDone
<1>4. \A m \in orphans' : Talks(m.sock, m.chan)
  <2> SUFFICES ASSUME NEW m \in orphans' PROVE Talks(m.sock, m.chan)
    OBVIOUS
  <2>1. CASE m \in orphans
    BY <2>1, OrphanTalks
  <2>2. CASE m.sock = s /\ [sock |-> s, chan |-> m.chan, on |-> "own"] \in orphans
    BY <2>2 DEF Talks
  <2> QED BY <1>3, <2>1, <2>2, OrphansFacts
<1>5. Talks(t, c)' => Talks(t, c)
  <2>1. CASE producer'[t].chan = c /\ producer'[t].on # "closed"
    BY <1>2, <2>1 DEF Talks
  <2>2. ASSUME NEW x \in {"own", "stray"},
               [sock |-> t, chan |-> c, on |-> x] \in orphans'
        PROVE  Talks(t, c)
    BY <1>4, <2>2
  <2> QED BY <2>1, <2>2 DEF Talks
<1>6. LeftOpen(t, c) => LeftOpen(t, c)'
  <2> DEFINE m == [sock |-> t, chan |-> c, on |-> "stray"]
  <2>1. m \in orphans => m \in orphans'
    BY <1>3 DEF OrphansClosed, OrphansOverwritten, TypeOK
  <2>2. UNCHANGED sock
    BY DEF CreateTransportStart, CreateTransportDone
  <2> QED BY <2>1, <2>2 DEF LeftOpen
<1> QED BY <1>5, <1>6

LEMMA MicrophonesNext ==
    ASSUME TypeOK, DeadQuiet, CallsHeld, Microphones, [Next]_vars
    PROVE  Microphones'
<1> USE NoneAssumption DEF Microphones
<1>1. CASE UNCHANGED <<sock, producer, orphans, entry>>
  BY <1>1 DEF TalkRegistered, OneMicrophone, Talks, LeftOpen, Online
<1>2. ASSUME NEW s \in Sockets, Connect(s) PROVE Microphones'
  <2>1. /\ sock[s] = "new" /\ sock' = [sock EXCEPT ![s] = "on"]
        /\ UNCHANGED <<producer, orphans, entry>>
    BY <1>2 DEF Connect
  <2>2. ASSUME NEW t \in Sockets, NEW c \in Channels PROVE TalkRegistered(t, c)'
    BY <2>1 DEF TalkRegistered, Talks, LeftOpen, Online, TypeOK
  <2>3. \A m \in orphans : m.sock # s
    BY <2>1, OrphanTalks DEF TalkRegistered, LeftOpen, Online
  <2>4. OneMicrophone'
    BY <2>1, <2>3, OrphanTalks DEF OneMicrophone, Online, TypeOK
  <2> QED BY <2>2, <2>4
<1>3. ASSUME NEW s \in Sockets, NEW c \in Channels,
             Reserve(s, c) \/ ProduceStart(s, c)
      PROVE  Microphones'
  <2>1. /\ NoSpeaker(s, c) /\ entry' = [entry EXCEPT ![c] = None]
        /\ UNCHANGED <<sock, producer, orphans>>
    BY <1>3 DEF Reserve, ProduceStart
  <2>2. \A t \in Sockets : Talks(t, c) => LeftOpen(t, c)
    BY <2>1 DEF TalkRegistered, NoSpeaker, CallsHeld, EntryKnown
  <2>3. ASSUME NEW t \in Sockets, NEW d \in Channels PROVE TalkRegistered(t, d)'
    BY <2>1, <2>2 DEF TalkRegistered, Talks, LeftOpen, Online, TypeOK
  <2> QED BY <2>1, <2>3 DEF OneMicrophone, Online
<1>4. ASSUME NEW s \in Sockets, CreateTransportStart(s) \/ CreateTransportDone(s)
      PROVE  Microphones'
  <2>1. UNCHANGED <<sock, entry>>
    BY <1>4 DEF CreateTransportStart, CreateTransportDone
  <2>2. ASSUME NEW t \in Sockets, NEW c \in Channels PROVE TalkRegistered(t, c)'
    BY <1>4, <2>1, MovedTalks DEF TalkRegistered, Online
  <2>3. \A t \in Sockets : producer'[t].chan = producer[t].chan
    <3>1. \E on \in {"stray", "closed"} : producer' = ProducerMoved(s, on)
      BY <1>4 DEF CreateTransportStart, CreateTransportDone
    <3> QED BY <3>1, ProducerMovedFacts
  <2>4. ASSUME NEW m \in orphans', Online(m.sock)
        PROVE  m.sock \in Sockets /\ producer[m.sock].chan # m.chan
    <3>1. CASE m \in orphans
      BY <2>4, <3>1, OrphanTalks DEF OneMicrophone
    <3>2. CASE m.sock = s /\ [sock |-> s, chan |-> m.chan, on |-> "own"] \in orphans
      BY <2>4, <3>2 DEF OneMicrophone
    <3>3. orphans' = OrphansClosed(s) \/ orphans' = OrphansOverwritten(s)
      BY <1>4 DEF CreateTransportStart, CreateTransportDone
    <3> QED BY <3>1, <3>2, <3>3, OrphansFacts
  <2> QED BY <2>1, <2>2, <2>3, <2>4 DEF OneMicrophone, Online
<1>5. ASSUME NEW k \in Calls, ProduceDone(k) PROVE Microphones'
  <2> DEFINE s == calls[k].sock
             c == calls[k].chan
  <2>1. /\ s \in Sockets /\ c \in Channels /\ Online(s) /\ entry[c] = None
    BY <1>5, CallFacts DEF ProduceDone, CallsHeld, CallHeld
  <2>2. /\ entry'[c] = s
        /\ \A d \in Channels \ {c} : entry'[d] = entry[d]
        /\ producer'[s].chan = c
        /\ \A t \in Sockets \ {s} : producer'[t] = producer[t]
        /\ UNCHANGED sock
    BY <1>5, <2>1 DEF ProduceDone, TypeOK
  <2>3. \A m \in orphans' :
          \/ m \in orphans
          \/ /\ m.sock = s /\ m.chan = producer[s].chan
             /\ producer[s].on # "closed" /\ m.chan \in Channels
    BY <1>5, <2>1 DEF ProduceDone, Orphaned, Orphans
  <2>4. orphans \subseteq orphans'
    BY <1>5 DEF ProduceDone
  <2> HIDE DEF s, c
  <2>5. \A m \in orphans' :
          m.sock \in Sockets /\ m.chan \in Channels /\ Talks(m.sock, m.chan)
    <3> SUFFICES ASSUME NEW m \in orphans'
                 PROVE  /\ m.sock \in Sockets /\ m.chan \in Channels
                        /\ Talks(m.sock, m.chan)
      OBVIOUS
    <3>1. CASE m \in orphans
      BY <3>1, OrphanTalks
    <3>2. CASE /\ m.sock = s /\ m.chan = producer[s].chan
               /\ producer[s].on # "closed" /\ m.chan \in Channels
      BY <2>1, <3>2 DEF Talks
    <3> QED BY <2>3, <3>1, <3>2
  <2>6. ASSUME NEW t \in Sockets, NEW d \in Channels, Talks(t, d)'
        PROVE  Talks(t, d) \/ (t = s /\ d = c)
    <3>1. CASE producer'[t].chan = d /\ producer'[t].on # "closed"
      BY <2>2, <3>1 DEF Talks
    <3>2. ASSUME NEW x \in {"own", "stray"},
                 [sock |-> t, chan |-> d, on |-> x] \in orphans'
          PROVE  Talks(t, d)
      BY <2>5, <3>2
    <3> QED BY <2>6, <3>1, <3>2 DEF Talks
  <2>7. ASSUME NEW t \in Sockets, NEW d \in Channels PROVE TalkRegistered(t, d)'
    <3>1. Talks(t, c) => LeftOpen(t, c)
      BY <2>1 DEF TalkRegistered
    <3>2. LeftOpen(t, d) => LeftOpen(t, d)'
      BY <2>2, <2>4 DEF LeftOpen
    <3> QED BY <2>1, <2>2, <2>6, <3>1, <3>2 DEF TalkRegistered, Online
  <2>8. \A m \in orphans' : m.sock = s => m.chan # c
    BY <2>1, <2>5 DEF TalkRegistered, LeftOpen, Online
  <2>9. OneMicrophone'
    BY <2>2, <2>3, <2>5, <2>8 DEF OneMicrophone, Online
  <2> QED BY <2>7, <2>9
<1>6. ASSUME NEW s \in Sockets, CloseProducer(s) PROVE Microphones'
  <2>1. /\ \A d \in Channels : \/ entry'[d] = entry[d]
                               \/ d = producer[s].chan /\ entry[d] = s
        /\ producer' = [producer EXCEPT ![s] = NoProducer]
        /\ Online(s)
        /\ UNCHANGED <<sock, orphans>>
    BY <1>6, UnregisteredFacts DEF CloseProducer
  <2>2. ASSUME NEW t \in Sockets, NEW d \in Channels, Talks(t, d)'
        PROVE  Talks(t, d) /\ (t = s => producer[s].chan # d)
    <3>1. CASE t = s
      <4>1. \E x \in {"own", "stray"} : [sock |-> s, chan |-> d, on |-> x] \in orphans
        BY <2>1, <2>2, <3>1, FreeFacts DEF Talks, TypeOK
      <4> QED BY <2>1, <3>1, <4>1 DEF OneMicrophone, Talks
    <3>2. CASE t # s
      BY <2>1, <2>2, <3>2 DEF Talks, TypeOK
    <3> QED BY <3>1, <3>2
  <2>3. ASSUME NEW t \in Sockets, NEW d \in Channels PROVE TalkRegistered(t, d)'
    BY <2>1, <2>2 DEF TalkRegistered, LeftOpen, Online
  <2>4. OneMicrophone'
    BY <2>1, OrphanTalks, FreeFacts DEF OneMicrophone, Online, TypeOK
  <2> QED BY <2>3, <2>4
<1>7. ASSUME NEW s \in Sockets, Disconnect(s) PROVE Microphones'
  <2>1. /\ \A d \in Channels : entry[d] # s => entry'[d] = entry[d]
        /\ producer' = [producer EXCEPT ![s] = NoProducer]
        /\ sock' = [sock EXCEPT ![s] = "off"]
        /\ orphans' = OrphansClosed(s)
    BY <1>7, UnregisteredFacts DEF Disconnect
  <2>2. ASSUME NEW t \in Sockets, NEW d \in Channels PROVE TalkRegistered(t, d)'
    <3>1. CASE t = s
      <4>1. Talks(s, d)' => [sock |-> s, chan |-> d, on |-> "stray"] \in orphans'
        BY <2>1, OrphansFacts, FreeFacts DEF Talks, TypeOK
      <4> QED BY <2>1, <3>1, <4>1 DEF TalkRegistered, LeftOpen, TypeOK
    <3>2. CASE t # s
      <4>1. Talks(t, d)' => Talks(t, d)
        BY <2>1, <3>2, OrphansFacts DEF Talks, TypeOK
      <4>2. LeftOpen(t, d) => LeftOpen(t, d)'
        BY <2>1, <3>2 DEF LeftOpen, OrphansClosed, TypeOK
      <4> QED BY <2>1, <3>2, <4>1, <4>2 DEF TalkRegistered, Online, TypeOK
    <3> QED BY <3>1, <3>2
  <2>3. OneMicrophone'
    BY <2>1, OrphansFacts, OrphanTalks DEF OneMicrophone, Online, TypeOK
  <2> QED BY <2>2, <2>3
<1>8. CASE WorkerDies
  <2>1. orphans' = {} /\ \A t \in Sockets : producer'[t].on = "closed"
    BY <1>8 DEF WorkerDies, TypeOK, ProducerType
  <2> QED BY <2>1 DEF TalkRegistered, OneMicrophone, Talks
<1>9. CASE WorkerBack
  <2>1. orphans' = {} /\ \A t \in Sockets : producer'[t] = NoProducer
    BY <1>9 DEF WorkerBack, DeadQuiet
  <2> QED BY <2>1, FreeFacts DEF TalkRegistered, OneMicrophone, Talks
<1> QED
  BY <1>1, <1>2, <1>3, <1>4, <1>5, <1>6, <1>7, <1>8, <1>9
     DEF Next, SocketStep, ChannelStep, CallStep, Join, Leave,
         ReleaseReservation, TouchPeer, CreateTransportFails, ProduceFails,
         RecordingStarts, RecordingFails, vars

HalfDuplexInv == TypeOK /\ DeadQuiet /\ CallsHeld /\ Microphones

LEMMA HalfDuplexInvariant ==
    ASSUME MidCall \subseteq {"record"}
    PROVE Spec => []HalfDuplexInv
<1>1. Init => HalfDuplexInv
  BY TypeInit, DeadQuietInit, CallsHeldInit, MicrophonesInit DEF HalfDuplexInv
<1>2. HalfDuplexInv /\ [Next]_vars => HalfDuplexInv'
  BY TypeNext, DeadQuietNext, CallsHeldNext, MicrophonesNext DEF HalfDuplexInv
<1> QED BY <1>1, <1>2, PTL DEF Spec

(* A registered speaker who stays connected is unregistered by nobody but  *)
(* themselves.                                                             *)
LEMMA NobodyIsCutOffNext ==
    ASSUME HalfDuplexInv, [Next]_vars,
           NEW c \in Channels, NEW s \in Sockets,
           entry[c] = s, Online(s), sock'[s] = "on"
    PROVE  \/ entry'[c] = s
           \/ /\ entry'[c] = None
              /\ producer[s].chan = c /\ producer'[s] = NoProducer
<1>0. TypeOK /\ s \in peers
  BY NoneAssumption DEF HalfDuplexInv, CallsHeld, EntryKnown
<1>1. ASSUME NEW t \in Sockets, NEW d \in Channels, Reserve(t, d) \/ ProduceStart(t, d)
      PROVE  entry'[c] = s
  BY <1>0, <1>1, NoneAssumption DEF Reserve, ProduceStart, NoSpeaker, TypeOK
<1>2. ASSUME NEW k \in Calls, ProduceDone(k) PROVE entry'[c] = s
  <2>1. calls[k].chan \in Channels /\ entry[calls[k].chan] = None
    BY <1>0, <1>2, CallFacts DEF HalfDuplexInv, CallsHeld, CallHeld, ProduceDone
  <2> QED BY <1>0, <1>2, <2>1, NoneAssumption DEF ProduceDone, TypeOK
<1>3. ASSUME NEW t \in Sockets, CloseProducer(t)
      PROVE  \/ entry'[c] = s
             \/ /\ entry'[c] = None
                /\ producer[s].chan = c /\ producer'[s] = NoProducer
  BY <1>0, <1>3, UnregisteredFacts DEF CloseProducer, TypeOK
<1>4. ASSUME NEW t \in Sockets, Disconnect(t) PROVE entry'[c] = s
  <2>1. t # s
    BY <1>0, <1>4 DEF Disconnect, TypeOK
  <2> QED BY <1>0, <1>4, <2>1, UnregisteredFacts DEF Disconnect
<1>5. CASE WorkerBack
  BY <1>0, <1>5 DEF WorkerBack, Online, TypeOK
<1>6. CASE UNCHANGED entry
  BY <1>6
<1> QED
  BY <1>1, <1>2, <1>3, <1>4, <1>5, <1>6
     DEF Next, SocketStep, ChannelStep, CallStep, Connect, Join, Leave,
         ReleaseReservation, TouchPeer, CreateTransportStart,
         CreateTransportDone, CreateTransportFails, ProduceFails,
         RecordingStarts, RecordingFails, WorkerDies, vars

(* Who talks is registered, if no client sends a second ms:produce for a   *)
(* channel, gives up or disconnects before the first was answered.         *)
THEOREM SpeakerIsRegistered ==
    ASSUME MidCall \subseteq {"record"}
    PROVE Spec => []SpeakerRegistered
<1>1. HalfDuplexInv => SpeakerRegistered
  BY DEF HalfDuplexInv, Microphones, TalkRegistered, SpeakerRegistered
<1> QED BY <1>1, HalfDuplexInvariant, PTL

(* Under that condition at most one socket talks in a channel, however     *)
(* many try at once; without it two may.                                   *)
THEOREM OneTalksAtATime ==
    ASSUME MidCall \subseteq {"record"}
    PROVE Spec => []HalfDuplex
<1>1. HalfDuplexInv => HalfDuplex
  BY DEF HalfDuplexInv, Microphones, TalkRegistered, HalfDuplex
<1> QED BY <1>1, HalfDuplexInvariant, PTL

(* And nobody takes the channel from a connected speaker.                  *)
THEOREM SpeakersKeepTheChannel ==
    ASSUME MidCall \subseteq {"record"}
    PROVE Spec => NobodyIsCutOff
<1>1. HalfDuplexInv /\ [Next]_vars =>
         [\A c \in Channels : \A s \in Sockets :
             entry[c] = s /\ Online(s) /\ sock'[s] = "on"
               => \/ entry'[c] = s
                  \/ /\ entry'[c] = None
                     /\ producer[s].chan = c /\ producer'[s] = NoProducer]_vars
  BY NobodyIsCutOffNext
<1> QED BY <1>1, HalfDuplexInvariant, PTL DEF Spec, NobodyIsCutOff
=============================================================================
