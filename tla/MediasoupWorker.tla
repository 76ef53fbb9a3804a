--------------------------- MODULE MediasoupWorker ---------------------------
(***************************************************************************)
(* The mediasoup worker process and its router: made at boot, and made     *)
(* again by a loop of up to three attempts whenever a worker dies.  Each   *)
(* death starts a loop of its own, and making a worker takes two awaits:   *)
(* a worker may die between them.  RadioGateway is told to drop the audio  *)
(* sessions when a loop succeeds.                                          *)
(***************************************************************************)
EXTENDS Naturals

CONSTANT MaxWorkers       \* bound: workers are 1 .. MaxWorkers, in order

ASSUME MaxWorkersAssumption == MaxWorkers \in Nat

(* The delays of recreateAfterDeath: as many attempts. *)
Attempts == 3

Workers == 1 .. MaxWorkers

(* Who is making a worker: the boot, or the loop of the death of a worker. *)
Boot == 0
Makers == {Boot} \cup Workers

VARIABLES
    made,       \* how many workers have been made
    alive,      \* the worker processes that run
    maker,      \* where each maker is, its attempts left, its worker if any
    ready,      \* MediasoupService.ready
    router,     \* the worker of this.router, 0 if none
    sessions,   \* the workers the gateway's transports are on
    exited      \* process.exit

vars == <<made, alive, maker, ready, router, sessions, exited>>

TypeOK ==
    /\ made \in 0 .. MaxWorkers
    /\ alive \subseteq Workers
    /\ maker \in [Makers -> [at : {"idle", "waiting", "worker", "router"},
                             left : 0 .. Attempts, worker : 0 .. MaxWorkers]]
    /\ ready \in BOOLEAN
    /\ router \in 0 .. MaxWorkers
    /\ sessions \subseteq Workers
    /\ exited \in BOOLEAN

Idle == [at |-> "idle", left |-> 0, worker |-> 0]

Init ==
    /\ made = 0
    /\ alive = {}
    /\ maker = [m \in Makers |->
                  IF m = Boot THEN [at |-> "worker", left |-> 0, worker |-> 0]
                  ELSE Idle]
    /\ ready = FALSE
    /\ router = 0
    /\ sessions = {}
    /\ exited = FALSE

-----------------------------------------------------------------------------
(* What becomes of a maker whose attempt fails: it tries again, if it may. *)
Failed(m) ==
    IF maker[m].left > 0
    THEN [at |-> "waiting", left |-> maker[m].left - 1, worker |-> 0]
    ELSE Idle

(* Mutant of GivesUp: the process goes on without a worker. *)
GivesUpNever(m) == FALSE

(* The loop of a death gives up at its last attempt; the boot does not.    *)
GivesUp(m) == m # Boot /\ maker[m].left = 0

(* The delay is over. *)
Retry(m) ==
    /\ ~exited
    /\ maker[m].at = "waiting"
    /\ maker' = [maker EXCEPT ![m].at = "worker"]
    /\ UNCHANGED <<made, alive, ready, router, sessions, exited>>

WorkerMade(m) ==
    /\ ~exited
    /\ maker[m].at = "worker"
    /\ made < MaxWorkers
    /\ made' = made + 1
    /\ alive' = alive \cup {made + 1}
    /\ maker' = [maker EXCEPT ![m].at = "router", ![m].worker = made + 1]
    /\ UNCHANGED <<ready, router, sessions, exited>>

(* createWorker is rejected; after the last attempt the process exits. *)
WorkerFails(m) ==
    /\ ~exited
    /\ maker[m].at = "worker"
    /\ maker' = [maker EXCEPT ![m] = Failed(m)]
    /\ ready' = FALSE
    /\ exited' = GivesUp(m)
    /\ UNCHANGED <<made, alive, router, sessions>>

(* Mutant of RouterMade: the sessions stay. *)
RouterMadeQuietly(m) ==
    /\ ~exited
    /\ maker[m].at = "router"
    /\ router' = maker[m].worker
    /\ ready' = TRUE
    /\ maker' = [maker EXCEPT ![m] = Idle]
    /\ UNCHANGED <<made, alive, exited, sessions>>

(* The router is there.  A loop then has the gateway drop every session.   *)
RouterMade(m) ==
    /\ ~exited
    /\ maker[m].at = "router"
    /\ router' = maker[m].worker
    /\ ready' = TRUE
    /\ sessions' = IF m = Boot THEN sessions ELSE {}
    /\ maker' = [maker EXCEPT ![m] = Idle]
    /\ UNCHANGED <<made, alive, exited>>

(* Who waits for the router of w. *)
Routing(w) == {m \in Makers : maker[m].at = "router" /\ maker[m].worker = w}

(* Mutant of Dies: the service goes on as ready. *)
DiesUnnoticed(w) ==
    /\ ~exited
    /\ w \in alive
    /\ alive' = alive \ {w}
    /\ maker' = [m \in Makers |->
                   CASE m \in Routing(w) -> Failed(m)
                     [] m = w -> [at |-> "waiting", left |-> Attempts - 1, worker |-> 0]
                     [] OTHER -> maker[m]]
    /\ exited' = \E m \in Routing(w) : GivesUp(m)
    /\ UNCHANGED <<made, router, sessions, ready>>

(* A worker dies: its handler starts a loop, and the createRouter it had   *)
(* to answer is rejected, which is an attempt of another loop.             *)
Dies(w) ==
    /\ ~exited
    /\ w \in alive
    /\ alive' = alive \ {w}
    /\ ready' = FALSE
    /\ maker' = [m \in Makers |->
                   CASE m \in Routing(w) -> Failed(m)
                     [] m = w -> [at |-> "waiting", left |-> Attempts - 1, worker |-> 0]
                     [] OTHER -> maker[m]]
    /\ exited' = \E m \in Routing(w) : GivesUp(m)
    /\ UNCHANGED <<made, router, sessions>>

(* createWebRtcTransport: it asks the router, whether or not it is ready.  *)
UseRouter ==
    /\ ~exited
    /\ router \in alive
    /\ sessions' = sessions \cup {router}
    /\ UNCHANGED <<made, alive, maker, ready, router, exited>>

Next ==
    \/ \E m \in Makers :
          Retry(m) \/ WorkerMade(m) \/ WorkerFails(m) \/ RouterMade(m)
    \/ \E w \in Workers : Dies(w)
    \/ UseRouter

Spec == Init /\ [][Next]_vars

(* Delays end, and a call to mediasoup is answered, one way or the other.  *)
FairSpec ==
    /\ Spec
    /\ \A m \in Makers :
          /\ WF_vars(Retry(m))
          /\ WF_vars(WorkerMade(m) \/ WorkerFails(m))
          /\ WF_vars(RouterMade(m))

-----------------------------------------------------------------------------
(* The service says it is ready only while the worker of its router runs,  *)
(* however the loops of several deaths overlap.                            *)
ReadyIsAlive == ready => router \in alive

(* Every transport of the gateway is on the present router: those made on  *)
(* an earlier one were dropped when it was replaced.                       *)
SessionsOnRouter == sessions \subseteq {router}

(* After a death the service is up again, or the process exits and its     *)
(* manager starts it anew.                                                 *)
Died == \E w \in 1 .. made : w \notin alive

RecoversOrExits == (Died /\ ~ready) ~> (ready \/ exited)
=============================================================================
