-------------------------- MODULE RadioNotes_proofs --------------------------
(***************************************************************************)
(* Proofs about RadioNotes, for any talks and channels.                    *)
(***************************************************************************)
EXTENDS RadioNotes, TLAPS

USE NoneAssumption, PrivateAssumption

LEMMA TypeInit == Init => TypeOK
  BY DEF Init, TypeOK

(* What finishing does, stated without its IF. *)
LEMMA FinishFacts ==
    ASSUME TypeOK, NEW c \in Channels \cup {None}, Finish(c)
    PROVE  /\ recording' = None
           /\ filed' \in [Talks -> Channels \cup {None}]
           /\ note' \in [Talks -> {"none", "due", "dropped", "saving", "told",
                                   "untold", "lost"}]
           /\ killing' \subseteq Talks
           /\ lastly' \subseteq Talks
           /\ recording # None => filed'[recording] = c /\ note'[recording] = "due"
           /\ \A t \in Talks \ {recording} : filed'[t] = filed[t] /\ note'[t] = note[t]
  BY DEF Finish, TypeOK

(* What saving does. *)
LEMMA SaveFacts ==
    ASSUME TypeOK, NEW t \in Talks, Save(t)
    PROVE  /\ note' \in [Talks -> {"none", "due", "dropped", "saving", "told",
                                   "untold", "lost"}]
           /\ saves' \in [Talks -> Nat]
           /\ note'[t] = "none" <=> note[t] = "none"
           /\ \/ note'[t] = note[t] /\ saves'[t] = saves[t]
              \/ note[t] = "due" /\ note'[t] = "dropped" /\ saves'[t] = saves[t]
              \/ note[t] = "due" /\ note'[t] = "saving" /\ saves'[t] = saves[t] + 1
           /\ \A u \in Talks \ {t} : note'[u] = note[u] /\ saves'[u] = saves[u]
  BY DEF Save, TypeOK

LEMMA TypeNext == TypeOK /\ [Next]_vars => TypeOK'
<1> SUFFICES ASSUME TypeOK, [Next]_vars PROVE TypeOK'
  OBVIOUS
<1>1. ASSUME NEW t \in Talks, NEW c \in Channels, Produce(t, c) PROVE TypeOK'
  BY <1>1 DEF Produce, TypeOK
<1>2. ASSUME NEW t \in Talks, RecordingStarts(t) PROVE TypeOK'
  BY <1>2 DEF RecordingStarts, TypeOK
<1>3. ASSUME NEW t \in Talks, RecordingFails(t) PROVE TypeOK'
  BY <1>3 DEF RecordingFails, TypeOK
<1>4. CASE CloseProducer
  <2>1. talk[producer] \in Channels \cup {None} /\ Finish(talk[producer])
    BY <1>4 DEF CloseProducer, TypeOK
  <2> QED BY <1>4, <2>1, FinishFacts DEF CloseProducer, Early, TypeOK
<1>5. CASE Disconnect
  <2>1. CASE producer = None
    BY <1>5, <2>1 DEF Disconnect, Early, TypeOK
  <2>2. CASE producer # None
    <3>1. talk[producer] \in Channels \cup {None} /\ Finish(talk[producer])
      BY <1>5, <2>2 DEF Disconnect, TypeOK
    <3> QED BY <1>5, <2>2, <3>1, FinishFacts DEF Disconnect, Early, TypeOK
  <2> QED BY <2>1, <2>2
<1>6. CASE Reset
  BY <1>6 DEF Reset, TypeOK
<1>7. ASSUME NEW t \in Talks, FfmpegCloses(t) PROVE TypeOK'
  BY <1>7, SaveFacts DEF FfmpegCloses, TypeOK
<1>8. ASSUME NEW t \in Talks, KillFires(t) PROVE TypeOK'
  BY <1>8 DEF KillFires, TypeOK
<1>9. ASSUME NEW t \in Talks, LastFires(t) PROVE TypeOK'
  BY <1>9, SaveFacts DEF LastFires, TypeOK
<1>10. ASSUME NEW t \in Talks, SaveDone(t) \/ SaveUntold(t) \/ SaveFails(t)
       PROVE TypeOK'
  BY <1>10 DEF SaveDone, SaveUntold, SaveFails, TypeOK
<1>11. CASE UNCHANGED vars
  BY <1>11 DEF vars, TypeOK
<1> QED BY <1>1, <1>2, <1>3, <1>4, <1>5, <1>6, <1>7, <1>8, <1>9, <1>10, <1>11
        DEF Next, TalkStep

(* The type invariant of the recordings. *)
THEOREM NoteTypes == Spec => []TypeOK
  BY TypeInit, TypeNext, PTL DEF Spec

-----------------------------------------------------------------------------
(* Whatever goes out of order: a talk begins before its recording, what the*)
(* peer has is running or has run and was not finished, and a note was sent*)
(* to the database once exactly if it got past the decision.               *)
Steady ==
    /\ producer # None => online /\ talk[producer] # None
    /\ recording # None =>
           filed[recording] = None /\ ffmpeg[recording] \in {"up", "closed"}
    /\ \A t \in Talks :
           /\ talk[t] = None => ffmpeg[t] = "none" /\ filed[t] = None
           /\ filed[t] # None => ffmpeg[t] \in {"up", "closed"}
           /\ filed[t] = None <=> note[t] = "none"
           /\ note[t] \in {"none", "due", "dropped"} => saves[t] = 0
           /\ saves[t] <= 1

(* As long as nothing went out of order: what is being started or recorded *)
(* is the talk of the producer.                                            *)
Orderly ==
    /\ recording \in {None, producer}
    /\ \A t \in Talks :
           /\ ffmpeg[t] = "starting" => t = producer
           /\ ffmpeg[t] = "up" => t = recording \/ filed[t] # None
           /\ filed[t] \in {None, talk[t]}

IInv == TypeOK /\ Steady /\ (mishaps = {} => Orderly)

LEMMA SteadyNext == TypeOK /\ TypeOK' /\ Steady /\ [Next]_vars => Steady'
<1> SUFFICES ASSUME TypeOK, TypeOK', Steady, [Next]_vars PROVE Steady'
  OBVIOUS
<1>1. ASSUME NEW t \in Talks, NEW c \in Channels, Produce(t, c) PROVE Steady'
  BY <1>1 DEF Produce, TypeOK, Steady
<1>2. ASSUME NEW t \in Talks, RecordingStarts(t) PROVE Steady'
  BY <1>2 DEF RecordingStarts, TypeOK, Steady
<1>3. ASSUME NEW t \in Talks, RecordingFails(t) PROVE Steady'
  BY <1>3 DEF RecordingFails, TypeOK, Steady
<1>4. CASE CloseProducer
  <2>1. talk[producer] \in Channels /\ Finish(talk[producer])
    BY <1>4 DEF CloseProducer, TypeOK, Steady
  <2> QED BY <1>4, <2>1, FinishFacts DEF CloseProducer, TypeOK, Steady
<1>5. CASE Disconnect
  <2>1. CASE producer = None
    BY <1>5, <2>1 DEF Disconnect, TypeOK, Steady
  <2>2. CASE producer # None
    <3>1. talk[producer] \in Channels /\ Finish(talk[producer])
      BY <1>5, <2>2 DEF Disconnect, TypeOK, Steady
    <3> QED BY <1>5, <2>2, <3>1, FinishFacts DEF Disconnect, TypeOK, Steady
  <2> QED BY <2>1, <2>2
<1>6. CASE Reset
  BY <1>6 DEF Reset, TypeOK, Steady
<1>7. ASSUME NEW t \in Talks, FfmpegCloses(t) PROVE Steady'
  <2>1. CASE filed[t] = None
    BY <1>7, <2>1 DEF FfmpegCloses, TypeOK, Steady
  <2>2. CASE filed[t] # None
    <3>1. Save(t)
      BY <1>7, <2>2 DEF FfmpegCloses
    <3> QED BY <1>7, <2>2, <3>1, SaveFacts DEF FfmpegCloses, TypeOK, Steady
  <2> QED BY <2>1, <2>2
<1>8. ASSUME NEW t \in Talks, KillFires(t) PROVE Steady'
  BY <1>8 DEF KillFires, TypeOK, Steady
<1>9. ASSUME NEW t \in Talks, LastFires(t) PROVE Steady'
  <2>1. Save(t)
    BY <1>9 DEF LastFires
  <2> QED BY <1>9, <2>1, SaveFacts DEF LastFires, TypeOK, Steady
<1>10. ASSUME NEW t \in Talks, SaveDone(t) \/ SaveUntold(t) \/ SaveFails(t)
       PROVE Steady'
  BY <1>10 DEF SaveDone, SaveUntold, SaveFails, TypeOK, Steady
<1>11. CASE UNCHANGED vars
  BY <1>11 DEF vars, Steady
<1> QED BY <1>1, <1>2, <1>3, <1>4, <1>5, <1>6, <1>7, <1>8, <1>9, <1>10, <1>11
        DEF Next, TalkStep

LEMMA OrderlyNext ==
    ASSUME TypeOK, TypeOK', Steady, mishaps = {} => Orderly, [Next]_vars,
           mishaps' = {}
    PROVE  Orderly'
<1>1. ASSUME NEW t \in Talks, NEW c \in Channels, Produce(t, c) PROVE Orderly'
  <2>1. mishaps = {} /\ producer = None /\ Orderly
    BY <1>1 DEF Produce
  <2> QED BY <1>1, <2>1 DEF Produce, TypeOK, Steady, Orderly
<1>2. ASSUME NEW t \in Talks, RecordingStarts(t) PROVE Orderly'
  BY <1>2 DEF RecordingStarts, TypeOK, Steady, Orderly
<1>3. ASSUME NEW t \in Talks, RecordingFails(t) PROVE Orderly'
  BY <1>3 DEF RecordingFails, TypeOK, Steady, Orderly
<1>4. CASE CloseProducer
  <2>1. talk[producer] \in Channels /\ Finish(talk[producer])
    BY <1>4 DEF CloseProducer, TypeOK, Steady
  <2>2. mishaps = {} /\ ffmpeg[producer] # "starting" /\ Orderly
    BY <1>4 DEF CloseProducer, Early
  <2> QED BY <1>4, <2>1, <2>2, FinishFacts
          DEF CloseProducer, TypeOK, Steady, Orderly
<1>5. CASE Disconnect
  <2>1. mishaps = {} /\ Orderly
    BY <1>5 DEF Disconnect
  <2>2. CASE producer = None
    BY <1>5, <2>1, <2>2 DEF Disconnect, TypeOK, Steady, Orderly
  <2>3. CASE producer # None
    <3>1. talk[producer] \in Channels /\ Finish(talk[producer])
      BY <1>5, <2>3 DEF Disconnect, TypeOK, Steady
    <3>2. ffmpeg[producer] # "starting"
      BY <1>5, <2>3 DEF Disconnect, Early
    <3> QED BY <1>5, <2>1, <2>3, <3>1, <3>2, FinishFacts
            DEF Disconnect, TypeOK, Steady, Orderly
  <2> QED BY <2>2, <2>3
<1>6. CASE Reset
  BY <1>6 DEF Reset
<1>7. ASSUME NEW t \in Talks, FfmpegCloses(t) PROVE Orderly'
  BY <1>7 DEF FfmpegCloses, TypeOK, Steady, Orderly
<1>8. ASSUME NEW t \in Talks, KillFires(t) PROVE Orderly'
  BY <1>8 DEF KillFires, Orderly
<1>9. ASSUME NEW t \in Talks, LastFires(t) PROVE Orderly'
  BY <1>9 DEF LastFires, Orderly
<1>10. ASSUME NEW t \in Talks, SaveDone(t) \/ SaveUntold(t) \/ SaveFails(t)
       PROVE Orderly'
  BY <1>10 DEF SaveDone, SaveUntold, SaveFails, Orderly
<1>11. CASE UNCHANGED vars
  BY <1>11 DEF vars, Orderly
<1> QED BY <1>1, <1>2, <1>3, <1>4, <1>5, <1>6, <1>7, <1>8, <1>9, <1>10, <1>11
        DEF Next, TalkStep

LEMMA Invariance == Spec => []IInv
<1>1. Init => IInv
  <2>1. Init => Steady /\ Orderly
    BY DEF Init, Steady, Orderly
  <2> QED BY <2>1, TypeInit DEF IInv
<1>2. IInv /\ [Next]_vars => IInv'
  BY TypeNext, SteadyNext, OrderlyNext DEF IInv
<1> QED BY <1>1, <1>2, PTL DEF Spec

(* No recording is sent to the database twice, whatever closes, fires or   *)
(* goes wrong when.                                                        *)
THEOREM OneNoteEach == Spec => []SavedOnce
<1>1. IInv => SavedOnce
  BY DEF IInv, Steady, SavedOnce
<1> QED BY <1>1, Invariance, PTL

(* As long as no talk overtakes a recording, a note is filed in the channel*)
(* where it was spoken.                                                    *)
THEOREM NotesFiledWhereSpoken == Spec => []FiledWhereSpoken
<1>1. IInv => FiledWhereSpoken
  BY DEF IInv, Orderly, FiledWhereSpoken
<1> QED BY <1>1, Invariance, PTL

(* As long as no talk is closed before its recording has started, none is  *)
(* begun over another and the worker is not replaced, an ffmpeg that nobody*)
(* asked to end is the recording of a connected socket.                    *)
THEOREM NoFfmpegForgotten == Spec => []NoneLeftRunning
<1>1. IInv => NoneLeftRunning
  BY DEF IInv, Steady, Orderly, NoneLeftRunning
<1> QED BY <1>1, Invariance, PTL
=============================================================================
