------------------------------ MODULE RadioSfu ------------------------------
(***************************************************************************)
(* Live audio through mediasoup: who may publish a microphone in which     *)
(* channel.  RadioGateway keeps one MsPeer per socket, the active producer *)
(* and the reservation of each channel; the producers themselves live in   *)
(* the mediasoup worker, and every call to it is awaited, so a handler is  *)
(* split there: other sockets, a disconnection and the death of the worker *)
(* come in between.                                                        *)
(***************************************************************************)
EXTENDS FiniteSets, Naturals

CONSTANTS
    Sockets, Channels, None,
    Calls,          \* ms:produce handlers that may be in flight at a time
    MidCall,        \* what may befall a socket while a call of its own is in
                    \* flight: "again" sends a second ms:produce for the same
                    \* channel, "release" gives its reservation up, "drop"
                    \* disconnects in ms:produce, "record" disconnects while
                    \* its recording starts
    MaxMaking,      \* bound: ms:createTransport (send) of a socket in flight
    WorkerMayDie    \* whether the mediasoup worker may die

ASSUME NoneAssumption == None \notin Sockets /\ None \notin Channels
ASSUME MidCallAssumption == MidCall \subseteq {"again", "release", "drop", "record"}
ASSUME MaxMakingAssumption == MaxMaking \in Nat \ {0}
ASSUME WorkerMayDieAssumption == WorkerMayDie \in BOOLEAN

(* What a producer is on: the current send transport of its socket, one    *)
(* that was overwritten and that nothing will close, or a closed one.      *)
Transports == {"own", "stray", "closed"}

Free == [at |-> "free", sock |-> None, chan |-> None, on |-> "closed"]

(* The handlers of ms:produce in flight: which await they are at, and the  *)
(* transport on which they asked.                                          *)
CallType ==
    {Free}
    \cup [at : {"produce"}, sock : Sockets, chan : Channels, on : Transports]
    \cup [at : {"record"}, sock : Sockets, chan : {None}, on : {"closed"}]

(* MsPeer.producer with MsPeer.channelId, and the transport it is on. *)
ProducerType == [chan : Channels \cup {None}, on : Transports]

(* Open producers that no MsPeer refers to any more. *)
Orphans == [sock : Sockets, chan : Channels, on : {"own", "stray"}]

VARIABLES
    sock,        \* life of each socket
    chan,        \* client.data.channelId
    peers,       \* keys of msPeers
    send,        \* MsPeer.sendTransport: undefined, open, closed
    making,      \* ms:createTransport (send) awaiting the worker
    producer,    \* MsPeer.producer
    calls,       \* ms:produce awaiting the worker
    orphans,     \* open producers of nobody's
    entry,       \* channelProducer: the socket registered as speaker
    reserved,    \* channelReservations
    worker

vars == <<sock, chan, peers, send, making, producer, calls, orphans, entry,
          reserved, worker>>

NoProducer == [chan |-> None, on |-> "closed"]

TypeOK ==
    /\ sock \in [Sockets -> {"new", "on", "off"}]
    /\ chan \in [Sockets -> Channels \cup {None}]
    /\ peers \subseteq Sockets
    /\ send \in [Sockets -> {"none", "open", "closed"}]
    /\ making \in [Sockets -> 0..MaxMaking]
    /\ producer \in [Sockets -> ProducerType]
    /\ calls \in [Calls -> CallType]
    /\ orphans \subseteq Orphans
    /\ entry \in [Channels -> Sockets \cup {None}]
    /\ reserved \in [Channels -> Sockets \cup {None}]
    /\ worker \in {"up", "dead"}

Init ==
    /\ sock = [s \in Sockets |-> "new"]
    /\ chan = [s \in Sockets |-> None]
    /\ peers = {}
    /\ send = [s \in Sockets |-> "none"]
    /\ making = [s \in Sockets |-> 0]
    /\ producer = [s \in Sockets |-> NoProducer]
    /\ calls = [k \in Calls |-> Free]
    /\ orphans = {}
    /\ entry = [c \in Channels |-> None]
    /\ reserved = [c \in Channels |-> None]
    /\ worker = "up"

-----------------------------------------------------------------------------
Online(s) == sock[s] = "on"

(* Call k is a ms:produce of socket s that awaits the worker. *)
Asks(k, s) == calls[k].at = "produce" /\ calls[k].sock = s

Calling(s, c) == \E k \in Calls : Asks(k, s) /\ calls[k].chan = c

(* A microphone of socket s is open in channel c. *)
Talks(s, c) ==
    \/ producer[s].chan = c /\ producer[s].on # "closed"
    \/ \E on \in {"own", "stray"} : [sock |-> s, chan |-> c, on |-> on] \in orphans

(* Mutant of GiveUp: only the current channel's is given up. *)
GiveUpCurrent(s, C) ==
    [c \in Channels |->
        IF c \in C /\ c = chan[s] /\ reserved[c] = s THEN None ELSE reserved[c]]

(* The reservations left when a socket gives up those of channels C. *)
GiveUp(s, C) ==
    [c \in Channels |-> IF c \in C /\ reserved[c] = s THEN None ELSE reserved[c]]

(* Mutant of NoSpeaker: whoever else is registered is taken for a ghost. *)
NoSpeakerButMe(s, c) == entry[c] # s

(* Nobody else is in the way: the channel has no speaker, or a ghost, one  *)
(* registered that msPeers does not have.                                  *)
NoSpeaker(s, c) == entry[c] = None \/ (entry[c] # s /\ entry[c] \notin peers)

(* Mutant of NotHeld: the reservation is not looked at. *)
NotHeldIgnored(s, c) == TRUE

NotHeld(s, c) == reserved[c] \in {None, s}

(* The current send transport of a socket is closed or overwritten: what   *)
(* becomes of the calls and producers on it.                               *)
CallsMoved(s, on) ==
    [k \in Calls |-> IF calls[k].sock = s /\ calls[k].on = "own"
                     THEN [calls[k] EXCEPT !.on = on] ELSE calls[k]]

ProducerMoved(s, on) ==
    [producer EXCEPT ![s].on = IF @ = "own" THEN on ELSE @]

OrphansClosed(s) == {m \in orphans : m.sock # s \/ m.on = "stray"}

OrphansOverwritten(s) ==
    {m \in Orphans :
        \/ m \in OrphansClosed(s)
        \/ m.sock = s /\ m.on = "stray" /\ [m EXCEPT !.on = "own"] \in orphans}

Connect(s) ==
    /\ sock[s] = "new"
    /\ sock' = [sock EXCEPT ![s] = "on"]
    /\ UNCHANGED <<chan, peers, send, making, producer, calls, orphans, entry,
                   reserved, worker>>

(* channel:join: a producer or a reservation elsewhere stays as it is. *)
Join(s, c) ==
    /\ Online(s)
    /\ chan' = [chan EXCEPT ![s] = c]
    /\ UNCHANGED <<sock, peers, send, making, producer, calls, orphans, entry,
                   reserved, worker>>

MayGiveUp(s, c) == "release" \in MidCall \/ ~Calling(s, c)

(* channel:leave of any channel gives its reservation up. *)
Leave(s, c) ==
    /\ Online(s)
    /\ MayGiveUp(s, c)
    /\ reserved' = GiveUp(s, {c})
    /\ chan' = [chan EXCEPT ![s] = IF @ = c THEN None ELSE @]
    /\ UNCHANGED <<sock, peers, send, making, producer, calls, orphans, entry,
                   worker>>

(* ms:reserve: a ghost is deleted even if the channel is then found held. *)
Reserve(s, c) ==
    /\ Online(s)
    /\ chan[s] = c
    /\ NoSpeaker(s, c)
    /\ entry' = [entry EXCEPT ![c] = None]
    /\ reserved' = [reserved EXCEPT ![c] = IF NotHeld(s, c) THEN s ELSE @]
    /\ UNCHANGED <<sock, chan, peers, send, making, producer, calls, orphans,
                   worker>>

(* ms:releaseReservation *)
ReleaseReservation(s, c) ==
    /\ Online(s)
    /\ chan[s] = c
    /\ MayGiveUp(s, c)
    /\ reserved' = GiveUp(s, {c})
    /\ UNCHANGED <<sock, chan, peers, send, making, producer, calls, orphans,
                   entry, worker>>

(* Mutant of TouchPeer: the peer is made by a handler that resumes late. *)
TouchPeerLate(s) ==
    /\ sock[s] # "new"
    /\ peers' = peers \cup {s}
    /\ UNCHANGED <<sock, chan, send, making, producer, calls, orphans, entry,
                   reserved, worker>>

(* Every other ms: handler, and a refused ms:produce, makes the peer. *)
TouchPeer(s) ==
    /\ Online(s)
    /\ peers' = peers \cup {s}
    /\ UNCHANGED <<sock, chan, send, making, producer, calls, orphans, entry,
                   reserved, worker>>

(* ms:createTransport (send): the old transport is closed, and with it its *)
(* producers; MsPeer.producer and channelProducer are not touched.  A      *)
(* second call may come while the first is awaited.                        *)
CreateTransportStart(s) ==
    /\ Online(s)
    /\ making[s] < MaxMaking
    /\ making' = [making EXCEPT ![s] = @ + 1]
    /\ peers' = peers \cup {s}
    /\ send' = [send EXCEPT ![s] = "none"]
    /\ calls' = CallsMoved(s, "closed")
    /\ producer' = ProducerMoved(s, "closed")
    /\ orphans' = OrphansClosed(s)
    /\ UNCHANGED <<sock, chan, entry, reserved, worker>>

(* The answer of another call overwrites the transport of the first, which *)
(* stays open with what is on it.                                          *)
CreateTransportDone(s) ==
    /\ making[s] > 0
    /\ worker = "up"
    /\ making' = [making EXCEPT ![s] = @ - 1]
    /\ send' = [send EXCEPT ![s] = "open"]
    /\ calls' = CallsMoved(s, "stray")
    /\ producer' = ProducerMoved(s, "stray")
    /\ orphans' = OrphansOverwritten(s)
    /\ UNCHANGED <<sock, chan, peers, entry, reserved, worker>>

CreateTransportFails(s) ==
    /\ making[s] > 0
    /\ making' = [making EXCEPT ![s] = @ - 1]
    /\ UNCHANGED <<sock, chan, peers, send, producer, calls, orphans, entry,
                   reserved, worker>>

(* ms:produce refused for the reservation of another, its ghost deleted. *)
ProduceRefused(s, c) ==
    /\ ~NotHeld(s, c)
    /\ UNCHANGED <<reserved, calls>>

(* On a transport that died with the worker the call is rejected at once   *)
(* and the reservation given up.                                           *)
ProduceRejected(s, c) ==
    /\ NotHeld(s, c)
    /\ send[s] = "closed"
    /\ reserved' = [reserved EXCEPT ![c] = None]
    /\ UNCHANGED calls

(* The reservation is made before `await sendTransport.produce`.  The      *)
(* handler does not ask whether a ms:produce of the same socket is in      *)
(* flight: without "again" in MidCall, no client sends one.                *)
ProduceAsked(s, c) ==
    /\ NotHeld(s, c)
    /\ send[s] = "open"
    /\ "again" \in MidCall \/ ~Calling(s, c)
    /\ reserved' = [reserved EXCEPT ![c] = s]
    /\ \E k \in Calls :
          /\ calls[k] = Free
          /\ calls' = [calls EXCEPT ![k] =
                         [at |-> "produce", sock |-> s, chan |-> c, on |-> "own"]]

(* ms:produce up to its first await. *)
ProduceStart(s, c) ==
    /\ Online(s)
    /\ chan[s] = c
    /\ send[s] # "none"
    /\ NoSpeaker(s, c)
    /\ entry' = [entry EXCEPT ![c] = None]
    /\ \/ ProduceRefused(s, c)
       \/ ProduceRejected(s, c)
       \/ ProduceAsked(s, c)
    /\ UNCHANGED <<sock, chan, peers, send, making, producer, orphans, worker>>

(* The producers left without an owner when MsPeer.producer becomes that   *)
(* of call k: the one it was, or that of k if the peer is no more.         *)
Orphaned(k) ==
    LET s == calls[k].sock
        made == IF Online(s) THEN producer[s] ELSE calls[k]
    IN  {m \in Orphans : m.sock = s /\ m.chan = made.chan /\ m.on = made.on}

(* The producer is made: it is registered whatever happened meanwhile, and *)
(* is open only if its transport still is.  startRecording follows.        *)
ProduceDone(k) ==
    LET s == calls[k].sock
        c == calls[k].chan
    IN  /\ calls[k].at = "produce"
        /\ entry' = [entry EXCEPT ![c] = s]
        /\ reserved' = GiveUp(s, {c})
        /\ orphans' = orphans \cup Orphaned(k)
        /\ producer' = IF Online(s)
                       THEN [producer EXCEPT ![s] = [chan |-> c, on |-> calls[k].on]]
                       ELSE producer
        /\ calls' = [calls EXCEPT ![k] =
                       IF calls[k].on = "closed" THEN Free
                       ELSE [Free EXCEPT !.at = "record", !.sock = s]]
        /\ UNCHANGED <<sock, chan, peers, send, making, worker>>

(* The worker refuses: the handler gives the reservation of its socket up. *)
ProduceFails(k) ==
    /\ calls[k].at = "produce"
    /\ calls' = [calls EXCEPT ![k] = Free]
    /\ reserved' = GiveUp(calls[k].sock, {calls[k].chan})
    /\ UNCHANGED <<sock, chan, peers, send, making, producer, orphans, entry,
                   worker>>

(* startRecording after its await: `this.peer(client)` makes the peer anew *)
(* if the socket has gone.                                                 *)
RecordingStarts(k) ==
    /\ calls[k].at = "record"
    /\ peers' = peers \cup {calls[k].sock}
    /\ calls' = [calls EXCEPT ![k] = Free]
    /\ UNCHANGED <<sock, chan, send, making, producer, orphans, entry, reserved,
                   worker>>

RecordingFails(k) ==
    /\ calls[k].at = "record"
    /\ calls' = [calls EXCEPT ![k] = Free]
    /\ UNCHANGED <<sock, chan, peers, send, making, producer, orphans, entry,
                   reserved, worker>>

(* closeMsProducer: what it leaves of channelProducer. *)
Unregistered(s) ==
    [c \in Channels |->
        IF c = producer[s].chan /\ entry[c] = s THEN None ELSE entry[c]]

(* ms:closeProducer *)
CloseProducer(s) ==
    /\ Online(s)
    /\ producer[s].chan # None
    /\ entry' = Unregistered(s)
    /\ producer' = [producer EXCEPT ![s] = NoProducer]
    /\ UNCHANGED <<sock, chan, peers, send, making, calls, orphans, reserved,
                   worker>>

(* handleDisconnect, cleanupMsPeer: of the channels the socket is          *)
(* registered in, only that of its last producer is freed.  Its current    *)
(* transport closes; a call to the worker goes on, and what it makes will  *)
(* be nobody's.  The data of a dead socket is read by nobody: it is reset. *)
Disconnect(s) ==
    /\ Online(s)
    /\ "drop" \in MidCall \/ \A k \in Calls : ~Asks(k, s)
    /\ "record" \in MidCall
          \/ \A k \in Calls : calls[k].at = "record" => calls[k].sock # s
    /\ sock' = [sock EXCEPT ![s] = "off"]
    /\ chan' = [chan EXCEPT ![s] = None]
    /\ peers' = peers \ {s}
    /\ send' = [send EXCEPT ![s] = "none"]
    /\ making' = [making EXCEPT ![s] = 0]
    /\ calls' = CallsMoved(s, "closed")
    /\ producer' = [producer EXCEPT ![s] = NoProducer]
    /\ orphans' = OrphansClosed(s)
    /\ entry' = Unregistered(s)
    /\ reserved' = GiveUp(s, Channels)
    /\ UNCHANGED worker

(* The worker dies: its producers and transports with it, and every call   *)
(* in flight is rejected (ms:produce gives its own reservation up).        *)
WorkerDies ==
    /\ WorkerMayDie
    /\ worker = "up"
    /\ worker' = "dead"
    /\ send' = [s \in Sockets |-> IF send[s] = "open" THEN "closed" ELSE send[s]]
    /\ making' = [s \in Sockets |-> 0]
    /\ producer' = [s \in Sockets |-> [producer[s] EXCEPT !.on = "closed"]]
    /\ calls' = [k \in Calls |-> Free]
    /\ orphans' = {}
    /\ reserved' = [c \in Channels |->
                      IF Calling(reserved[c], c) THEN None ELSE reserved[c]]
    /\ UNCHANGED <<sock, chan, peers, entry>>

(* The new worker is up: onReset clears the three maps and disconnects     *)
(* every socket, which runs handleDisconnect on what is left.              *)
WorkerBack ==
    /\ worker = "dead"
    /\ worker' = "up"
    /\ sock' = [s \in Sockets |-> IF Online(s) THEN "off" ELSE sock[s]]
    /\ chan' = [s \in Sockets |-> None]
    /\ peers' = {}
    /\ send' = [s \in Sockets |-> "none"]
    /\ making' = [s \in Sockets |-> 0]
    /\ producer' = [s \in Sockets |-> NoProducer]
    /\ entry' = [c \in Channels |-> None]
    /\ reserved' = [c \in Channels |-> None]
    /\ UNCHANGED <<calls, orphans>>

SocketStep(s) ==
    \/ Connect(s)
    \/ TouchPeer(s)
    \/ CreateTransportStart(s)
    \/ CreateTransportDone(s)
    \/ CreateTransportFails(s)
    \/ CloseProducer(s)
    \/ Disconnect(s)

ChannelStep(s, c) ==
    \/ Join(s, c)
    \/ Leave(s, c)
    \/ Reserve(s, c)
    \/ ReleaseReservation(s, c)
    \/ ProduceStart(s, c)

CallStep(k) ==
    \/ ProduceDone(k)
    \/ ProduceFails(k)
    \/ RecordingStarts(k)
    \/ RecordingFails(k)

Next ==
    \/ \E s \in Sockets : SocketStep(s)
    \/ \E s \in Sockets, c \in Channels : ChannelStep(s, c)
    \/ \E k \in Calls : CallStep(k)
    \/ WorkerDies
    \/ WorkerBack

Spec == Init /\ [][Next]_vars

-----------------------------------------------------------------------------
(* The microphone of a socket that has gone, on a transport that was       *)
(* overwritten and that nobody closes.                                     *)
LeftOpen(s, c) ==
    sock[s] = "off" /\ [sock |-> s, chan |-> c, on |-> "stray"] \in orphans

(* Half duplex: at most one socket has an open microphone in a channel     *)
(* ("reserva de forma síncrona antes del primer await para que dos         *)
(* ms:produce simultáneos no ocupen el mismo canal"), microphones left     *)
(* open apart.  It takes clients that do not ask again, give up or drop    *)
(* while a ms:produce of theirs is in flight (MidCall): the code admits a  *)
(* second microphone if they do.                                           *)
HalfDuplex ==
    \A c \in Channels : \A s, t \in Sockets :
        Talks(s, c) /\ Talks(t, c) => s = t \/ LeftOpen(s, c) \/ LeftOpen(t, c)

(* Whoever has an open microphone in a channel is who the channel has      *)
(* registered: it is what newcomers are told to listen to (ms:getProducer) *)
(* and what keeps the others out.                                          *)
SpeakerRegistered ==
    \A s \in Sockets, c \in Channels :
        Talks(s, c) => entry[c] = s \/ LeftOpen(s, c)

(* A reservation never outlives its socket, whatever it was doing when it  *)
(* went: nobody could give it up any more, and no timer does.              *)
ReservationsLive ==
    \A c \in Channels : reserved[c] # None => Online(reserved[c])

(* A registered socket that has gone is a ghost, to be cleared by the next *)
(* who asks, since msPeers does not have it: the channel is not lost ("es  *)
(* un productor FANTASMA [...]: se limpia y se deja producir").            *)
GhostsYield ==
    \A c \in Channels :
        entry[c] # None /\ ~Online(entry[c]) => entry[c] \notin peers

(* A connected speaker loses the channel only by closing the microphone:   *)
(* no step of another socket unregisters or replaces it.  It takes the     *)
(* same clients as HalfDuplex.                                             *)
NobodyIsCutOff ==
    [][\A c \in Channels : \A s \in Sockets :
          entry[c] = s /\ Online(s) /\ sock'[s] = "on"
            => \/ entry'[c] = s
               \/ /\ entry'[c] = None
                  /\ producer[s].chan = c /\ producer'[s] = NoProducer]_vars
=============================================================================
