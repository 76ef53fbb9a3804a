------------------------------ MODULE RadioNotes ------------------------------
(***************************************************************************)
(* The recording of voice notes.  Every talk of a socket (a successful     *)
(* ms:produce) starts a recording in the background: mediasoup is asked    *)
(* for a consumer, ffmpeg is spawned, and the recording is kept in the     *)
(* MsPeer of the socket.  When the talk ends, the recording the peer then  *)
(* has is stopped and saved once ffmpeg has closed, with two timers behind *)
(* it.  Peers share nothing but the worker: this is one socket.            *)
(***************************************************************************)
EXTENDS Naturals

CONSTANTS
    Talks,      \* the talks of the socket, each used once
    Channels,
    Private,    \* those that are conversations
    None

ASSUME PrivateAssumption == Private \subseteq Channels
ASSUME NoneAssumption == None \notin Talks \cup Channels

VARIABLES
    online,     \* whether the socket is connected
    talk,       \* where each talk is: None before it, its channel during it
                \* and after it
    producer,   \* MsPeer.producer
    recording,  \* MsPeer.recording
    ffmpeg,     \* the recording of each talk: being started, its process up,
                \* or closed
    filed,      \* the channel finishRecording was called for, by recording
    killing,    \* the recordings whose 2 s kill timer runs
    lastly,     \* those whose 4 s last resort runs
    killed,     \* those that were sent a SIGKILL
    note,       \* what has become of the note of each recording
    saves,      \* how often a recording was sent to the database
    mishaps     \* history: what has gone out of order so far

vars == <<online, talk, producer, recording, ffmpeg, filed, killing,
          lastly, killed, note, saves, mishaps>>

TypeOK ==
    /\ online \in BOOLEAN
    /\ talk \in [Talks -> Channels \cup {None}]
    /\ producer \in Talks \cup {None}
    /\ recording \in Talks \cup {None}
    /\ ffmpeg \in [Talks -> {"none", "starting", "up", "closed"}]
    /\ filed \in [Talks -> Channels \cup {None}]
    /\ killing \subseteq Talks
    /\ lastly \subseteq Talks
    /\ killed \subseteq Talks
    /\ note \in [Talks -> {"none", "due", "dropped", "saving", "told",
                       "untold", "lost"}]
    /\ saves \in [Talks -> Nat]
    /\ mishaps \subseteq {"early", "overtaken", "reset"}

Init ==
    /\ online = TRUE
    /\ talk = [t \in Talks |-> None]
    /\ producer = None
    /\ recording = None
    /\ ffmpeg = [t \in Talks |-> "none"]
    /\ filed = [t \in Talks |-> None]
    /\ killing = {}
    /\ lastly = {}
    /\ killed = {}
    /\ note = [t \in Talks |-> "none"]
    /\ saves = [t \in Talks |-> 0]
    /\ mishaps = {}

-----------------------------------------------------------------------------
(* What history keeps of a talk that ends now: its recording has not       *)
(* started.                                                                *)
Early(t) == IF t # None /\ ffmpeg[t] = "starting" THEN {"early"} ELSE {}

(* A ms:produce is answered: startRecording is called and not awaited.  A  *)
(* producer there is already, of another channel or made by a ms:produce   *)
(* that was in flight too, is forgotten.                                   *)
Produce(t, c) ==
    /\ online
    /\ talk[t] = None
    /\ talk' = [talk EXCEPT ![t] = c]
    /\ producer' = t
    /\ ffmpeg' = [ffmpeg EXCEPT ![t] = "starting"]
    /\ mishaps' = IF producer # None THEN mishaps \cup {"overtaken"} ELSE mishaps
    /\ UNCHANGED <<online, recording, filed, killing, lastly, killed, note,
                   saves>>

(* startRecording: createRecordingConsumer has answered and ffmpeg is      *)
(* spawned.  The peer is the one the socket has now, or a new one.         *)
RecordingStarts(t) ==
    /\ ffmpeg[t] = "starting"
    /\ ffmpeg' = [ffmpeg EXCEPT ![t] = "up"]
    /\ recording' = t
    /\ UNCHANGED <<online, talk, producer, filed, killing, lastly, killed,
                   note, saves, mishaps>>

(* The worker refuses, or the sdp file cannot be written: the talk goes on *)
(* unrecorded.                                                             *)
RecordingFails(t) ==
    /\ ffmpeg[t] = "starting"
    /\ ffmpeg' = [ffmpeg EXCEPT ![t] = "none"]
    /\ UNCHANGED <<online, talk, producer, recording, filed, killing,
                   lastly, killed, note, saves, mishaps>>

(* Mutants of Finish: there is no last resort; the peer keeps the recording*)
(* it has finished.                                                        *)
FinishHopeful(c) ==
    IF recording = None THEN UNCHANGED <<recording, filed, note, killing, lastly>>
    ELSE /\ recording' = None
         /\ filed' = [filed EXCEPT ![recording] = c]
         /\ note' = [note EXCEPT ![recording] = "due"]
         /\ killing' = killing \cup {recording}
         /\ UNCHANGED lastly

FinishKeeps(c) ==
    IF recording = None THEN UNCHANGED <<recording, filed, note, killing, lastly>>
    ELSE /\ filed' = [filed EXCEPT ![recording] = c]
         /\ note' = [note EXCEPT ![recording] = "due"]
         /\ killing' = killing \cup {recording}
         /\ lastly' = lastly \cup {recording}
         /\ UNCHANGED recording

(* finishRecording for a channel: it takes the recording of the peer, and  *)
(* asks its ffmpeg to end. *)
Finish(c) ==
    IF recording = None THEN UNCHANGED <<recording, filed, note, killing, lastly>>
    ELSE /\ recording' = None
         /\ filed' = [filed EXCEPT ![recording] = c]
         /\ note' = [note EXCEPT ![recording] = "due"]
         /\ killing' = killing \cup {recording}
         /\ lastly' = lastly \cup {recording}

(* ms:closeProducer *)
CloseProducer ==
    /\ online
    /\ producer # None
    /\ producer' = None
    /\ Finish(talk[producer])
    /\ mishaps' = mishaps \cup Early(producer)
    /\ UNCHANGED <<online, talk, ffmpeg, killed, saves>>

(* Mutant of Disconnect: the peer is forgotten, and nothing is finished.   *)
DisconnectForgets ==
    /\ online
    /\ online' = FALSE
    /\ producer' = None
    /\ recording' = None
    /\ mishaps' = mishaps \cup Early(producer)
    /\ UNCHANGED <<talk, ffmpeg, filed, killing, lastly, killed, note, saves>>

(* cleanupMsPeer of a disconnection: closeMsProducer, and the MsPeer goes  *)
(* with whatever recording it still has.                                   *)
Disconnect ==
    /\ online
    /\ online' = FALSE
    /\ producer' = None
    /\ IF producer = None
       THEN /\ recording' = None
            /\ UNCHANGED <<filed, note, killing, lastly>>
       ELSE Finish(talk[producer])
    /\ mishaps' = mishaps \cup Early(producer)
    /\ UNCHANGED <<talk, ffmpeg, killed, saves>>

(* The worker has been replaced: onReset forgets every peer before the     *)
(* disconnections it causes look for them.  What createRecordingConsumer   *)
(* had in flight is rejected.                                              *)
Reset ==
    /\ online
    /\ online' = FALSE
    /\ producer' = None
    /\ recording' = None
    /\ ffmpeg' = [t \in Talks |->
                     IF ffmpeg[t] = "starting" THEN "none" ELSE ffmpeg[t]]
    /\ mishaps' = mishaps \cup {"reset"}
    /\ UNCHANGED <<talk, filed, killing, lastly, killed, note, saves>>

-----------------------------------------------------------------------------
(* Mutant of Save: nothing remembers that the note was saved. *)
SaveAgain(t) ==
    \/ /\ note' = [note EXCEPT ![t] = "dropped"]
       /\ UNCHANGED saves
    \/ /\ note' = [note EXCEPT ![t] = "saving"]
       /\ saves' = [saves EXCEPT ![t] = @ + 1]

(* save(): once.  A recording that failed, or whose file is too small to be*)
(* one, is dropped.                                                        *)
Save(t) ==
    \/ /\ note[t] # "due"
       /\ UNCHANGED <<note, saves>>
    \/ /\ note[t] = "due"
       /\ note' = [note EXCEPT ![t] = "dropped"]
       /\ UNCHANGED saves
    \/ /\ note[t] = "due"
       /\ note' = [note EXCEPT ![t] = "saving"]
       /\ saves' = [saves EXCEPT ![t] = @ + 1]

(* The process of ffmpeg ends: asked to, killed, or of itself.  Only a     *)
(* recording that was finished before listens.                             *)
FfmpegCloses(t) ==
    /\ ffmpeg[t] = "up"
    /\ ffmpeg' = [ffmpeg EXCEPT ![t] = "closed"]
    /\ killing' = killing \ {t}
    /\ IF filed[t] # None THEN Save(t) ELSE UNCHANGED <<note, saves>>
    /\ UNCHANGED <<online, talk, producer, recording, filed, lastly,
                   killed, mishaps>>

(* The 2 s timer. *)
KillFires(t) ==
    /\ t \in killing
    /\ killing' = killing \ {t}
    /\ killed' = killed \cup {t}
    /\ UNCHANGED <<online, talk, producer, recording, ffmpeg, filed,
                   lastly, note, saves, mishaps>>

(* The 4 s timer, which the other precedes. *)
LastFires(t) ==
    /\ t \in lastly \ killing
    /\ lastly' = lastly \ {t}
    /\ Save(t)
    /\ UNCHANGED <<online, talk, producer, recording, ffmpeg, filed,
                   killing, killed, mishaps>>

(* The transmission, or the message of the conversation and its date, are  *)
(* in the database, and the channel is told.                               *)
SaveDone(t) ==
    /\ note[t] = "saving"
    /\ note' = [note EXCEPT ![t] = "told"]
    /\ UNCHANGED <<online, talk, producer, recording, ffmpeg, filed,
                   killing, lastly, killed, saves, mishaps>>

(* savePrivateTransmission: the message is there, its conversation could   *)
(* not be dated, and nobody is told.                                       *)
SaveUntold(t) ==
    /\ note[t] = "saving"
    /\ filed[t] \in Private
    /\ note' = [note EXCEPT ![t] = "untold"]
    /\ UNCHANGED <<online, talk, producer, recording, ffmpeg, filed,
                   killing, lastly, killed, saves, mishaps>>

(* The database fails, or the channel or the conversation has gone. *)
SaveFails(t) ==
    /\ note[t] = "saving"
    /\ note' = [note EXCEPT ![t] = "lost"]
    /\ UNCHANGED <<online, talk, producer, recording, ffmpeg, filed,
                   killing, lastly, killed, saves, mishaps>>

-----------------------------------------------------------------------------
TalkStep(t) ==
    \/ \E c \in Channels : Produce(t, c)
    \/ RecordingStarts(t)
    \/ RecordingFails(t)
    \/ FfmpegCloses(t)
    \/ KillFires(t)
    \/ LastFires(t)
    \/ SaveDone(t)
    \/ SaveUntold(t)
    \/ SaveFails(t)

Next ==
    \/ CloseProducer
    \/ Disconnect
    \/ Reset
    \/ \E t \in Talks : TalkStep(t)

Spec == Init /\ [][Next]_vars

(* Timers fire, a process that was sent a SIGKILL ends, and the database   *)
(* answers.                                                                *)
Fair(t) ==
    /\ WF_vars(KillFires(t))
    /\ WF_vars(LastFires(t))
    /\ WF_vars(t \in killed /\ FfmpegCloses(t))
    /\ WF_vars(SaveDone(t) \/ SaveUntold(t) \/ SaveFails(t))

FairSpec == Spec /\ \A t \in Talks : Fair(t)

-----------------------------------------------------------------------------
(* One note for a recording, whichever of the close of ffmpeg, the close a *)
(* SIGKILL causes and the last resort comes first and whatever comes after.*)
SavedOnce == \A t \in Talks : saves[t] <= 1

(* A note is filed in the channel where it was spoken.  A recording that   *)
(* was overtaken (its talk closed before it started, or the socket talked  *)
(* again meanwhile) is finished for another talk, if ever.                 *)
FiledWhereSpoken ==
    mishaps = {} => \A t \in Talks : filed[t] \in {None, talk[t]}

(* No ffmpeg is left to run: while it runs, a connected socket has it in   *)
(* its peer, to finish it, or it has been asked to end.  The code does not *)
(* promise it of recordings that had not started when their talk was closed*)
(* or the socket talked again, nor when the worker is replaced: those are  *)
(* left, which is what mishaps tells.                                      *)
NoneLeftRunning ==
    mishaps = {} =>
        \A t \in Talks :
            ffmpeg[t] = "up" => (t = recording /\ online) \/ filed[t] # None

(* Whatever is asked to end does end, even if it does not heed the SIGINT, *)
(* and every note is decided about: told, or dropped, or lost with the     *)
(* database; a crashed ffmpeg does not keep it waiting.                    *)
NotesAreDecided ==
    \A t \in Talks :
        filed[t] # None ~> /\ ffmpeg[t] # "up"
                           /\ note[t] \in {"dropped", "told", "untold", "lost"}
=============================================================================
