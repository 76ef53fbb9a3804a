----------------------- MODULE MediasoupWorker_proofs -----------------------
(***************************************************************************)
(* Proofs about MediasoupWorker, for any number of workers, whether or not *)
(* they die before they have their router.                                 *)
(***************************************************************************)
EXTENDS MediasoupWorker, TLAPS

MakerRecords ==
    [at : {"idle", "waiting", "worker", "router"}, left : 0 .. Attempts,
     worker : 0 .. MaxWorkers]

LEMMA IdleFacts ==
    Idle \in MakerRecords /\ Idle.at = "idle" /\ Idle.left = 0
  BY MaxWorkersAssumption DEF Idle, MakerRecords, Attempts

LEMMA FailedFacts ==
    ASSUME TypeOK, NEW m \in Makers
    PROVE  /\ Failed(m) \in MakerRecords
           /\ Failed(m).at # "router"
           /\ maker[m].left = 0 => Failed(m) = Idle
           /\ [at |-> "waiting", left |-> Attempts - 1, worker |-> 0] \in MakerRecords
  BY MaxWorkersAssumption DEF Failed, Idle, TypeOK, MakerRecords, Attempts

LEMMA TypeInit == Init => TypeOK
<1>1. [at |-> "worker", left |-> 0, worker |-> 0] \in MakerRecords
  BY MaxWorkersAssumption DEF MakerRecords, Attempts
<1>2. Init => maker \in [Makers -> MakerRecords]
  BY <1>1, IdleFacts DEF Init
<1>3. Init => made \in 0 .. MaxWorkers /\ router \in 0 .. MaxWorkers
  BY MaxWorkersAssumption DEF Init
<1>4. Init => alive \subseteq Workers /\ sessions \subseteq Workers
  BY DEF Init
<1>5. Init => ready \in BOOLEAN /\ exited \in BOOLEAN
  BY DEF Init
<1> QED BY <1>2, <1>3, <1>4, <1>5 DEF TypeOK, MakerRecords

LEMMA TypeNext == TypeOK /\ [Next]_vars => TypeOK'
<1> SUFFICES ASSUME TypeOK, [Next]_vars PROVE TypeOK'
  OBVIOUS
<1>0. maker \in [Makers -> MakerRecords]
  BY DEF TypeOK, MakerRecords
<1>1. ASSUME NEW m \in Makers, Retry(m) PROVE TypeOK'
  BY <1>1 DEF Retry, TypeOK
<1>2. ASSUME NEW m \in Makers, WorkerMade(m) PROVE TypeOK'
  <2>1. made + 1 \in Workers
    BY <1>2, MaxWorkersAssumption DEF WorkerMade, TypeOK, Workers
  <2>2. [maker[m] EXCEPT !.at = "router", !.worker = made + 1] \in MakerRecords
    <3>1. maker[m] \in MakerRecords /\ made + 1 \in 0 .. MaxWorkers
      BY <1>0, <2>1 DEF Workers
    <3> QED BY <3>1 DEF MakerRecords
  <2>3. maker' \in [Makers -> MakerRecords]
    BY <1>0, <1>2, <2>2 DEF WorkerMade
  <2> QED BY <1>2, <2>1, <2>3 DEF WorkerMade, TypeOK, MakerRecords, Workers
<1>3. ASSUME NEW m \in Makers, WorkerFails(m) PROVE TypeOK'
  <2>1. maker' \in [Makers -> MakerRecords]
    BY <1>0, <1>3, FailedFacts DEF WorkerFails
  <2>2. exited' \in BOOLEAN /\ ready' \in BOOLEAN
    BY <1>3 DEF WorkerFails, GivesUp
  <2> QED BY <1>3, <2>1, <2>2 DEF WorkerFails, TypeOK, MakerRecords
<1>4. ASSUME NEW m \in Makers, RouterMade(m) PROVE TypeOK'
  <2>1. maker' \in [Makers -> MakerRecords]
    BY <1>0, <1>4, IdleFacts DEF RouterMade
  <2>2. router' \in 0 .. MaxWorkers /\ sessions' \subseteq Workers
    BY <1>4 DEF RouterMade, TypeOK
  <2> QED BY <1>4, <2>1, <2>2 DEF RouterMade, TypeOK, MakerRecords
<1>5. ASSUME NEW w \in Workers, Dies(w) PROVE TypeOK'
  <2>1. maker' \in [Makers -> MakerRecords]
    BY <1>0, <1>5, FailedFacts DEF Dies
  <2>2. exited' \in BOOLEAN /\ ready' \in BOOLEAN
    BY <1>5 DEF Dies
  <2> QED BY <1>5, <2>1, <2>2 DEF Dies, TypeOK, MakerRecords
<1>6. CASE UseRouter
  BY <1>6 DEF UseRouter, TypeOK
<1>7. CASE UNCHANGED vars
  BY <1>7 DEF vars, TypeOK
<1> QED BY <1>1, <1>2, <1>3, <1>4, <1>5, <1>6, <1>7 DEF Next

(* Every variable of the worker's life keeps to its type. *)
THEOREM WorkerTypes == Spec => []TypeOK
  BY TypeInit, TypeNext, PTL DEF Spec

-----------------------------------------------------------------------------
(* A router is awaited only from a worker that runs.                       *)
RoutersAwaited ==
    \A m \in Makers : maker[m].at = "router" => maker[m].worker \in alive

(* The boot ends before any loop begins, and before there is a router.     *)
BootFirst ==
    /\ maker[Boot].left = 0
    /\ maker[Boot].at # "waiting"
    /\ maker[Boot].at # "idle" =>
          /\ router = 0 /\ sessions = {}
          /\ maker[Boot].at = "worker" => alive = {}
          /\ maker[Boot].at = "router" => alive = {maker[Boot].worker}
          /\ \A w \in Workers : maker[w].at = "idle"

WorkerInv == RoutersAwaited /\ BootFirst /\ ReadyIsAlive /\ SessionsOnRouter

LEMMA MakersFacts == Boot \in Makers /\ Workers \subseteq Makers /\ Boot \notin Workers
  BY DEF Makers, Boot, Workers

LEMMA WorkerInvNext == TypeOK /\ WorkerInv /\ [Next]_vars => WorkerInv'
<1> SUFFICES ASSUME TypeOK, WorkerInv, [Next]_vars PROVE WorkerInv'
  OBVIOUS
<1>0. RoutersAwaited /\ BootFirst /\ ReadyIsAlive /\ SessionsOnRouter
  BY DEF WorkerInv
<1>1. ASSUME NEW m \in Makers, Retry(m) PROVE WorkerInv'
  <2>1. RoutersAwaited' /\ ReadyIsAlive' /\ SessionsOnRouter'
    BY <1>0, <1>1 DEF Retry, RoutersAwaited, ReadyIsAlive, SessionsOnRouter, TypeOK
  <2>2. BootFirst'
    BY <1>0, <1>1, MakersFacts DEF Retry, BootFirst, TypeOK, Makers
  <2> QED BY <2>1, <2>2 DEF WorkerInv
<1>2. ASSUME NEW m \in Makers, WorkerMade(m) PROVE WorkerInv'
  <2>1. \A n \in Makers : /\ n # m => maker'[n] = maker[n]
                          /\ maker'[m].at = "router"
                          /\ maker'[m].worker = made + 1
                          /\ maker'[m].left = maker[m].left
    BY <1>2 DEF WorkerMade, TypeOK
  <2>2. alive' = alive \cup {made + 1} /\ UNCHANGED <<router, sessions, ready>>
    BY <1>2 DEF WorkerMade
  <2>3. RoutersAwaited' /\ ReadyIsAlive' /\ SessionsOnRouter'
    BY <1>0, <2>1, <2>2 DEF RoutersAwaited, ReadyIsAlive, SessionsOnRouter
  <2>4. BootFirst'
    BY <1>0, <1>2, <2>1, <2>2, MakersFacts DEF WorkerMade, BootFirst, Makers
  <2> QED BY <2>3, <2>4 DEF WorkerInv
<1>3. ASSUME NEW m \in Makers, WorkerFails(m) PROVE WorkerInv'
  <2>1. \A n \in Makers : maker'[n] = IF n = m THEN Failed(m) ELSE maker[n]
    BY <1>3 DEF WorkerFails, TypeOK
  <2>2. RoutersAwaited' /\ ReadyIsAlive' /\ SessionsOnRouter'
    BY <1>0, <1>3, <2>1, FailedFacts
       DEF WorkerFails, RoutersAwaited, ReadyIsAlive, SessionsOnRouter
  <2>3. BootFirst'
    BY <1>0, <1>3, <2>1, FailedFacts, IdleFacts, MakersFacts DEF WorkerFails, BootFirst, Makers
  <2> QED BY <2>2, <2>3 DEF WorkerInv
<1>4. ASSUME NEW m \in Makers, RouterMade(m) PROVE WorkerInv'
  <2>1. \A n \in Makers : maker'[n] = IF n = m THEN Idle ELSE maker[n]
    BY <1>4 DEF RouterMade, TypeOK
  <2>2. RoutersAwaited' /\ ReadyIsAlive'
    BY <1>0, <1>4, <2>1, IdleFacts DEF RouterMade, RoutersAwaited, ReadyIsAlive
  <2>3. SessionsOnRouter'
    BY <1>0, <1>4 DEF RouterMade, SessionsOnRouter, BootFirst
  <2>4. BootFirst'
    BY <1>0, <1>4, <2>1, IdleFacts, MakersFacts DEF RouterMade, BootFirst, Makers
  <2> QED BY <2>2, <2>3, <2>4 DEF WorkerInv
<1>5. ASSUME NEW w \in Workers, Dies(w) PROVE WorkerInv'
  <2> DEFINE again == [at |-> "waiting", left |-> Attempts - 1, worker |-> 0]
  <2>1. \A n \in Makers : \/ n \in Routing(w) /\ maker'[n] = Failed(n)
                          \/ n = w /\ maker'[n] = again
                          \/ n \notin Routing(w) /\ n # w /\ maker'[n] = maker[n]
    BY <1>5 DEF Dies
  <2>2. RoutersAwaited'
    BY <1>0, <1>5, <2>1, FailedFacts DEF Dies, RoutersAwaited, Routing
  <2>3. ReadyIsAlive' /\ SessionsOnRouter'
    BY <1>0, <1>5 DEF Dies, ReadyIsAlive, SessionsOnRouter
  <2>4. BootFirst'
    <3>1. CASE Boot \in Routing(w)
      <4>1. maker'[Boot] = Idle
        BY <1>0, <2>1, <3>1, FailedFacts, MakersFacts DEF BootFirst
      <4> QED BY <4>1, IdleFacts DEF BootFirst
    <3>2. CASE Boot \notin Routing(w)
      <4>1. maker'[Boot] = maker[Boot]
        BY <2>1, <3>2, MakersFacts
      <4>2. maker[Boot].at = "idle"
        BY <1>0, <1>5, <3>2, MakersFacts DEF Dies, BootFirst, Routing, TypeOK
      <4> QED BY <1>0, <4>1, <4>2 DEF BootFirst
    <3> QED BY <3>1, <3>2
  <2> QED BY <2>2, <2>3, <2>4 DEF WorkerInv
<1>6. CASE UseRouter
  BY <1>0, <1>6 DEF UseRouter, WorkerInv, RoutersAwaited, BootFirst, ReadyIsAlive,
                    SessionsOnRouter, TypeOK, Workers
<1>7. CASE UNCHANGED vars
  BY <1>0, <1>7 DEF vars, WorkerInv, RoutersAwaited, BootFirst, ReadyIsAlive,
                    SessionsOnRouter
<1> QED BY <1>1, <1>2, <1>3, <1>4, <1>5, <1>6, <1>7 DEF Next

LEMMA WorkerInvInit == Init => WorkerInv
  BY MakersFacts, IdleFacts
     DEF Init, WorkerInv, RoutersAwaited, BootFirst, ReadyIsAlive, SessionsOnRouter

(* ready is never said of a router whose worker has died, however many     *)
(* loops are making one.                                                   *)
THEOREM ReadyMeansAlive == Spec => []ReadyIsAlive
<1>1. WorkerInv => ReadyIsAlive
  BY DEF WorkerInv
<1> QED BY <1>1, WorkerInvInit, WorkerInvNext, TypeInit, TypeNext, PTL DEF Spec

(* The gateway holds no transport of a router that was replaced.           *)
THEOREM SessionsFollowRouter == Spec => []SessionsOnRouter
<1>1. WorkerInv => SessionsOnRouter
  BY DEF WorkerInv
<1> QED BY <1>1, WorkerInvInit, WorkerInvNext, TypeInit, TypeNext, PTL DEF Spec
=============================================================================
