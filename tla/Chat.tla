-------------------------------- MODULE Chat --------------------------------
(***************************************************************************)
(* Direct conversations of two users: created when they are first needed,  *)
(* written to, and read.  What is unread is kept twice: as the time a user *)
(* last read the conversation, for the badge, and as a receipt of each     *)
(* message.                                                                *)
(***************************************************************************)
EXTENDS FiniteSets, Naturals

CONSTANTS
    Talkers,        \* the two users
    Conversations,  \* ids a conversation may get
    Makers,         \* calls of createConversation
    Messages,       \* ids a message may get, each for one call of sendMessage
    Readings,       \* calls of markRead
    MaxClock        \* bound on the clock

ASSUME TwoTalk == IsFiniteSet(Talkers) /\ Cardinality(Talkers) = 2
ASSUME FewMakers == IsFiniteSet(Makers)
ASSUME ClockBound == MaxClock \in Nat

VARIABLES
    open,           \* the conversations there are
    making,         \* the makers that found none
    chatClock,      \* the clock; it advances with each stamp taken
    sent,           \* how far each message has got
    sender,         \* who wrote it
    within,         \* the conversation it is in
    stamp,          \* Message.createdAt; 0 before there is any
    receipt,        \* the receipt of whoever did not write it
    lastMessageAt,  \* of each conversation; 0 for none
    lastReadAt,     \* of each conversation and talker; 0 for none
    reading,        \* how far each reading has got
    now,            \* its time
    settled,        \* history: the messages a reading found completely sent
    crossed         \* history: the messages a reading came across in flight,
                    \* or left halfway, and none has covered since

chatVars == <<open, making, chatClock, sent, sender, within, stamp, receipt,
              lastMessageAt, lastReadAt, reading, now, settled, crossed>>
messageVars == <<sent, sender, within, stamp, receipt, lastMessageAt>>
readingVars == <<lastReadAt, reading, now, settled>>

Nobody == "nobody"
Nowhere == "nowhere"
Reader(m) == CHOOSE u \in Talkers : u # sender[m]

(* A reading at rest, or the talker and the conversation of one under way. *)
Rest == [step |-> "rest", by |-> Nobody, of |-> Nowhere]
ReadingSteps == {"member", "receipts"}
Underway ==
    [step : ReadingSteps, by : Talkers, of : Conversations]

ChatTypes ==
    /\ open \subseteq Conversations
    /\ making \subseteq Makers
    /\ chatClock \in 0..MaxClock
    /\ sent \in [Messages -> {"no", "stored", "receipts", "emit", "yes", "failed"}]
    /\ sender \in [Messages -> Talkers \cup {Nobody}]
    /\ within \in [Messages -> Conversations \cup {Nowhere}]
    /\ stamp \in [Messages -> 0..MaxClock]
    /\ receipt \in [Messages -> {"none", "delivered", "read"}]
    /\ lastMessageAt \in [Conversations -> 0..MaxClock]
    /\ lastReadAt \in [Conversations -> [Talkers -> 0..MaxClock]]
    /\ reading \in [Readings -> {Rest} \cup Underway]
    /\ now \in [Readings -> 0..MaxClock]
    /\ settled \in [Readings -> SUBSET Messages]
    /\ crossed \subseteq Messages
    /\ \A m \in Messages : sent[m] # "no" => within[m] \in open /\ sender[m] \in Talkers
    /\ \A m \in Messages :
          sent[m] \in {"emit", "yes"} => receipt[m] # "none"

ChatInit ==
    /\ open = {}
    /\ making = {}
    /\ chatClock = 0
    /\ sent = [m \in Messages |-> "no"]
    /\ sender = [m \in Messages |-> Nobody]
    /\ within = [m \in Messages |-> Nowhere]
    /\ stamp = [m \in Messages |-> 0]
    /\ receipt = [m \in Messages |-> "none"]
    /\ lastMessageAt = [c \in Conversations |-> 0]
    /\ lastReadAt = [c \in Conversations |-> [u \in Talkers |-> 0]]
    /\ reading = [k \in Readings |-> Rest]
    /\ now = [k \in Readings |-> 0]
    /\ settled = [k \in Readings |-> {}]
    /\ crossed = {}

-----------------------------------------------------------------------------
(* Mutant of FindDirect: the search never matches. *)
FindDirectNot(x) ==
    /\ making' = making \cup {x}
    /\ UNCHANGED <<open, chatClock, crossed, messageVars, readingVars>>

(* createConversation answers the conversation the two have, or... *)
FindDirect(x) ==
    /\ open = {}
    /\ making' = making \cup {x}
    /\ UNCHANGED <<open, chatClock, crossed, messageVars, readingVars>>

(* ... creates one. *)
CreateDirect(x, c) ==
    /\ x \in making
    /\ making' = making \ {x}
    /\ c \notin open
    /\ open' = open \cup {c}
    /\ UNCHANGED <<chatClock, crossed, messageVars, readingVars>>

-----------------------------------------------------------------------------
InFlight(m) == sent[m] \in {"stored", "receipts", "emit"}
ReadBy(u, c) == {k \in Readings : reading[k] # Rest /\ reading[k].by = u
                                                    /\ reading[k].of = c}

(* sendMessage stores the message, stamped by the database... *)
Store(m, u, c) ==
    /\ sent[m] = "no"
    /\ c \in open
    /\ chatClock < MaxClock
    /\ chatClock' = chatClock + 1
    /\ sent' = [sent EXCEPT ![m] = "stored"]
    /\ sender' = [sender EXCEPT ![m] = u]
    /\ within' = [within EXCEPT ![m] = c]
    /\ stamp' = [stamp EXCEPT ![m] = chatClock + 1]
    /\ crossed' = IF \E w \in Talkers \ {u} : ReadBy(w, c) # {}
                  THEN crossed \cup {m} ELSE crossed
    /\ UNCHANGED <<open, making, receipt, lastMessageAt, readingVars>>

(* ... brings the conversation up to date... *)
Touch(m) ==
    /\ sent[m] = "stored"
    /\ sent' = [sent EXCEPT ![m] = "receipts"]
    /\ lastMessageAt' = [lastMessageAt EXCEPT ![within[m]] = stamp[m]]
    /\ UNCHANGED <<open, making, chatClock, sender, within, stamp, receipt,
                   crossed, readingVars>>

(* ... creates the receipt of the other member... *)
Deliver(m) ==
    /\ sent[m] = "receipts"
    /\ sent' = [sent EXCEPT ![m] = "emit"]
    /\ receipt' = [receipt EXCEPT ![m] = "delivered"]
    /\ UNCHANGED <<open, making, chatClock, sender, within, stamp,
                   lastMessageAt, crossed, readingVars>>

(* ... and announces it: both rooms hear of it, and the push is sent.      *)
Announce(m) ==
    /\ sent[m] = "emit"
    /\ sent' = [sent EXCEPT ![m] = "yes"]
    /\ UNCHANGED <<open, making, chatClock, sender, within, stamp, receipt,
                   lastMessageAt, crossed, readingVars>>

(* The database refuses a call, or the server stops: what was done stays.   *)
SendFails(m) ==
    /\ InFlight(m)
    /\ sent' = [sent EXCEPT ![m] = "failed"]
    /\ UNCHANGED <<open, making, chatClock, sender, within, stamp, receipt,
                   lastMessageAt, crossed, readingVars>>

-----------------------------------------------------------------------------
To(u, c) == {m \in Messages : sent[m] # "no" /\ sender[m] # u /\ within[m] = c}

(* markRead takes its time... *)
ReadNow(k, u, c) ==
    /\ reading[k] = Rest
    /\ c \in open
    /\ chatClock < MaxClock
    /\ chatClock' = chatClock + 1
    /\ now' = [now EXCEPT ![k] = chatClock + 1]
    /\ reading' = [reading EXCEPT ![k] = [step |-> "member", by |-> u, of |-> c]]
    /\ settled' = [settled EXCEPT ![k] =
                       IF ReadBy(u, c) = {} THEN {m \in To(u, c) : ~InFlight(m)}
                       ELSE {}]
    /\ crossed' = crossed \cup {m \in To(u, c) : InFlight(m)}
    /\ UNCHANGED <<open, making, messageVars, lastReadAt>>

(* ... stores it for the badge... *)
ReadMember(k) ==
    /\ reading[k].step = "member"
    /\ reading' = [reading EXCEPT ![k].step = "receipts"]
    /\ lastReadAt' = [lastReadAt EXCEPT ![reading[k].of][reading[k].by] = now[k]]
    /\ UNCHANGED <<open, making, chatClock, messageVars, now, settled, crossed>>

Rests(k) ==
    /\ reading' = [reading EXCEPT ![k] = Rest]
    /\ now' = [now EXCEPT ![k] = 0]
    /\ settled' = [settled EXCEPT ![k] = {}]

(* Mutant of ReadReceipts: the reader is forgotten in the query. *)
ReadReceiptsAll(k) ==
    /\ reading[k].step = "receipts"
    /\ receipt' = [m \in Messages |->
                      IF within[m] = reading[k].of /\ receipt[m] # "none"
                      THEN "read" ELSE receipt[m]]
    /\ crossed' = IF ReadBy(reading[k].by, reading[k].of) = {k}
                  THEN crossed \ settled[k] ELSE crossed
    /\ Rests(k)
    /\ UNCHANGED <<open, making, chatClock, sent, sender, within, stamp,
                   lastMessageAt, lastReadAt>>

(* ... and marks every receipt the reader has in the conversation.         *)
ReadReceipts(k) ==
    /\ reading[k].step = "receipts"
    /\ receipt' = [m \in Messages |->
                      IF m \in To(reading[k].by, reading[k].of) /\ receipt[m] # "none"
                      THEN "read" ELSE receipt[m]]
    /\ crossed' = IF ReadBy(reading[k].by, reading[k].of) = {k}
                  THEN crossed \ settled[k] ELSE crossed
    /\ Rests(k)
    /\ UNCHANGED <<open, making, chatClock, sent, sender, within, stamp,
                   lastMessageAt, lastReadAt>>

(* The database refuses a call, perhaps between the two. *)
ReadFails(k) ==
    /\ reading[k] # Rest
    /\ crossed' = IF reading[k].step = "receipts"
                  THEN crossed \cup To(reading[k].by, reading[k].of)
                  ELSE crossed
    /\ Rests(k)
    /\ UNCHANGED <<open, making, chatClock, messageVars, lastReadAt>>

ChatNext ==
    \/ \E x \in Makers :
          \/ FindDirect(x)
          \/ \E c \in Conversations : CreateDirect(x, c)
    \/ \E m \in Messages :
          \/ \E u \in Talkers, c \in Conversations : Store(m, u, c)
          \/ Touch(m)
          \/ Deliver(m)
          \/ Announce(m)
          \/ SendFails(m)
    \/ \E k \in Readings :
          \/ \E u \in Talkers, c \in Conversations : ReadNow(k, u, c)
          \/ ReadMember(k)
          \/ ReadReceipts(k)
          \/ ReadFails(k)

ChatSpec == ChatInit /\ [][ChatNext]_chatVars

-----------------------------------------------------------------------------
(* "Para conversaciones directas, reutiliza la existente": there are never *)
(* more than there were callers looking for one at the same time.          *)
DirectsBounded == Cardinality(open) + Cardinality(making) <= Cardinality(Makers)

(* The badge and the receipts agree on whether a message is read, but for  *)
(* one that was being sent while its reader read, or that a reading left   *)
(* halfway; and the reader's next reading, if it is left alone, mends it.  *)
BadgeMatchesReceipts ==
    \A m \in Messages \ crossed :
        /\ receipt[m] # "none"
        /\ ReadBy(Reader(m), within[m]) = {}
        => (receipt[m] = "read" <=> stamp[m] <= lastReadAt[within[m]][Reader(m)])
=============================================================================
