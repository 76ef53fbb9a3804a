-------------------------------- MODULE Push --------------------------------
(***************************************************************************)
(* Push notifications: the tokens of the devices, as their owners register *)
(* and remove them, and the sendings of PushService, which go to the       *)
(* devices of those whose preferences allow it, in chunks that may fail,   *)
(* and which delete the tokens that Expo no longer knows.                  *)
(***************************************************************************)
EXTENDS FiniteSets, Naturals, Sequences

CONSTANTS
    Owners,     \* users
    Devices,    \* push tokens
    Sendings,   \* calls of sendToUsers; each ends before it is used again
    Minutes,    \* the minutes of a day are 0..Minutes - 1
    Choices,    \* the preferences that users choose among
    ChunkSize   \* messages that Expo takes in one request

ASSUME FewDevices == IsFiniteSet(Devices)
ASSUME SomeMinutes == Minutes \in Nat \ {0}
ASSUME SomeRoom == ChunkSize \in Nat \ {0}

Minute == 0 .. Minutes - 1
(* The categories in which the server sends; the other switches among the  *)
(* preferences are asked about by nothing.                                 *)
Categories == {"criticalAlerts", "chatMessages", "radioBroadcasts", "unitStatus"}
Tickets == {"ok", "DeviceNotRegistered", "MessageRateExceeded"}

(* Preferences: the categories left switched on, and the hours of rest. A  *)
(* user without any has the default, in which everything is on.            *)
NoRest == <<>>
Preferences == [wanted : SUBSET Categories, dnd : {NoRest} \cup (Minute \X Minute)]
Default == [wanted |-> Categories, dnd |-> NoRest]

ASSUME SomeChoices == Choices \subseteq Preferences

VARIABLES
    pref,       \* NotificationPreference of each user
    owner,      \* DeviceToken.userId; a device outside its domain has none
    known,      \* the tokens Expo knows
    phase,      \* how far each sending has got
    category,   \* what it is about, until the preferences are read
    recipients, \* to whom it goes
    eligible,   \* those of them that allow it
    queue,      \* its messages, that is the tokens they go to
    given,      \* how many of them have been given to Expo, or have failed to
    tickets,    \* what Expo answered, one ticket for each message it took
    lost,       \* history: whether a chunk failed
    unknown,    \* history: the tokens Expo did not know when it was given them
    moved       \* history: the devices that changed hands during the sending

pushVars == <<pref, owner, known, phase, category, recipients, eligible, queue,
              given, tickets, lost, unknown, moved>>
sendingVars == <<phase, category, recipients, eligible, queue, given, tickets,
                 lost, unknown>>

PushTypes ==
    /\ pref \in [Owners -> Preferences]
    /\ \E registered \in SUBSET Devices : owner \in [registered -> Owners]
    /\ known \subseteq Devices
    /\ phase \in [Sendings -> {"rest", "prefs", "devices", "chunks", "tickets"}]
    /\ category \in [Sendings -> Categories]
    /\ recipients \in [Sendings -> SUBSET Owners]
    /\ eligible \in [Sendings -> SUBSET Owners]
    /\ queue \in [Sendings -> Seq(Devices)]
    /\ given \in [Sendings -> Nat]
    /\ tickets \in [Sendings -> Seq(Tickets)]
    /\ lost \in [Sendings -> BOOLEAN]
    /\ unknown \in [Sendings -> SUBSET Devices]
    /\ moved \in [Sendings -> SUBSET Devices]
    /\ \A s \in Sendings :
          /\ eligible[s] \subseteq recipients[s]
          /\ Len(tickets[s]) <= given[s] /\ given[s] <= Len(queue[s])
          /\ lost[s] \/ Len(tickets[s]) = given[s]

PushInit ==
    /\ pref = [u \in Owners |-> Default]
    /\ owner = <<>>
    /\ known = Devices
    /\ phase = [s \in Sendings |-> "rest"]
    /\ category = [s \in Sendings |-> "chatMessages"]
    /\ recipients = [s \in Sendings |-> {}]
    /\ eligible = [s \in Sendings |-> {}]
    /\ queue = [s \in Sendings |-> <<>>]
    /\ given = [s \in Sendings |-> 0]
    /\ tickets = [s \in Sendings |-> <<>>]
    /\ lost = [s \in Sendings |-> FALSE]
    /\ unknown = [s \in Sendings |-> {}]
    /\ moved = [s \in Sendings |-> {}]

-----------------------------------------------------------------------------
Registered == DOMAIN owner
Without(tokens) == [d \in Registered \ tokens |-> owner[d]]
Moves(d) == moved' = [s \in Sendings |->
                         IF phase[s] = "rest" THEN {} ELSE moved[s] \cup {d}]

UpdatePreference(u, p) ==
    /\ pref' = [pref EXCEPT ![u] = p]
    /\ UNCHANGED <<owner, known, moved, sendingVars>>

(* registerDevice: the token goes to the user, whoever's it was. *)
RegisterDevice(u, d) ==
    /\ owner' = [e \in Registered \cup {d} |-> IF e = d THEN u ELSE owner[e]]
    /\ Moves(d)
    /\ UNCHANGED <<pref, known, sendingVars>>

(* removeDevice, perhaps long after another user took the device over.     *)
RemoveDevice(u, d) ==
    /\ d \in Registered
    /\ owner[d] = u
    /\ owner' = Without({d})
    /\ Moves(d)
    /\ UNCHANGED <<pref, known, sendingVars>>

(* An application is installed or uninstalled. *)
Install(d) ==
    /\ known' \in {known \cup {d}, known \ {d}}
    /\ UNCHANGED <<pref, owner, moved, sendingVars>>

-----------------------------------------------------------------------------
(* Mutant of WithinDnd: from a minute to the same one is a whole day. *)
WithinDndWhole(dnd, cur) ==
    /\ dnd # NoRest
    /\ IF dnd[1] < dnd[2] THEN cur >= dnd[1] /\ cur < dnd[2]
                          ELSE cur >= dnd[1] \/ cur < dnd[2]

(* isWithinDnd *)
WithinDnd(dnd, cur) ==
    /\ dnd # NoRest
    /\ IF dnd[1] <= dnd[2] THEN cur >= dnd[1] /\ cur < dnd[2]
                           ELSE cur >= dnd[1] \/ cur < dnd[2]

(* filterEligible for one user: what is switched off is refused at any     *)
(* hour, and critical alerts do not mind the hours of rest.                *)
Allows(u, about, cur) ==
    /\ about \in pref[u].wanted
    /\ WithinDnd(pref[u].dnd, cur) => about = "criticalAlerts"

(* sendToUsers is called... *)
SendToUsers(s, users, about) ==
    /\ phase[s] = "rest"
    /\ users # {}
    /\ phase' = [phase EXCEPT ![s] = "prefs"]
    /\ recipients' = [recipients EXCEPT ![s] = users]
    /\ category' = [category EXCEPT ![s] = about]
    /\ UNCHANGED <<pref, owner, known, eligible, queue, given, tickets,
                   lost, unknown, moved>>

(* The sending is over, and the tokens in gone are deleted. *)
Ends(s, gone) ==
    /\ phase' = [phase EXCEPT ![s] = "rest"]
    /\ category' = [category EXCEPT ![s] = "chatMessages"]
    /\ recipients' = [recipients EXCEPT ![s] = {}]
    /\ eligible' = [eligible EXCEPT ![s] = {}]
    /\ queue' = [queue EXCEPT ![s] = <<>>]
    /\ given' = [given EXCEPT ![s] = 0]
    /\ tickets' = [tickets EXCEPT ![s] = <<>>]
    /\ lost' = [lost EXCEPT ![s] = FALSE]
    /\ unknown' = [unknown EXCEPT ![s] = {}]
    /\ moved' = [q \in Sendings |->
                    IF q = s \/ phase[q] = "rest" THEN {} ELSE moved[q] \cup gone]
    /\ owner' = Without(gone)

(* ... reads the preferences, and returns if nobody is left... *)
FilterEligible(s, cur) ==
    LET allowing == {u \in recipients[s] : Allows(u, category[s], cur)}
    IN /\ phase[s] = "prefs"
       /\ IF allowing = {} THEN Ends(s, {})
          ELSE /\ eligible' = [eligible EXCEPT ![s] = allowing]
               /\ phase' = [phase EXCEPT ![s] = "devices"]
               /\ category' = [category EXCEPT ![s] = "chatMessages"]
               /\ UNCHANGED <<recipients, queue, given, tickets, lost, unknown,
                              moved, owner>>
       /\ UNCHANGED <<pref, known>>

(* The sequences of all the members of a set, each once. *)
Orders(tokens) ==
    {q \in [1..Cardinality(tokens) -> tokens] :
        \A i, j \in DOMAIN q : q[i] = q[j] => i = j}

(* ... reads their devices, in any order, and returns if there is none...  *)
FindDevices(s) ==
    LET theirs == {d \in Registered : owner[d] \in eligible[s]}
    IN /\ phase[s] = "devices"
       /\ IF theirs = {} THEN Ends(s, {})
          ELSE /\ queue' \in {[queue EXCEPT ![s] = q] : q \in Orders(theirs)}
               /\ phase' = [phase EXCEPT ![s] = "chunks"]
               /\ moved' = [moved EXCEPT ![s] = {}]
               /\ UNCHANGED <<category, recipients, eligible, given, tickets, lost,
                              unknown, owner>>
       /\ UNCHANGED <<pref, known>>

Upto(s) == IF given[s] + ChunkSize < Len(queue[s]) THEN given[s] + ChunkSize
           ELSE Len(queue[s])
Chunk(s) == SubSeq(queue[s], given[s] + 1, Upto(s))
Gives(s) ==
    /\ phase[s] = "chunks"
    /\ given' = [given EXCEPT ![s] = Upto(s)]
    /\ phase' = IF Upto(s) = Len(queue[s]) THEN [phase EXCEPT ![s] = "tickets"]
                ELSE phase

(* What Expo may answer to a chunk. *)
Answers(chunk) ==
    {a \in [1..Len(chunk) -> Tickets] :
        \A i \in 1..Len(chunk) :
            a[i] = "DeviceNotRegistered" <=> chunk[i] \notin known}

(* ... gives them to Expo, chunk by chunk, and keeps the tickets... *)
SendChunk(s) ==
    /\ Gives(s)
    /\ \E a \in Answers(Chunk(s)) : tickets' = [tickets EXCEPT ![s] = @ \o a]
    /\ unknown' = [unknown EXCEPT ![s] =
                      @ \cup {d \in Devices \ known : \E i \in DOMAIN Chunk(s) :
                                                       d = Chunk(s)[i]}]
    /\ UNCHANGED <<pref, owner, known, category, recipients, eligible, queue, lost, moved>>

(* ... of the chunks that do not fail... *)
ChunkFails(s) ==
    /\ Gives(s)
    /\ lost' = [lost EXCEPT ![s] = TRUE]
    /\ UNCHANGED <<pref, owner, known, category, recipients, eligible, queue, tickets,
                   unknown, moved>>

(* Mutant of Dead: any error will do. *)
DeadOrRefused(s) ==
    {queue[s][i] : i \in {j \in 1..Len(tickets[s]) : tickets[s][j] # "ok"}}

(* The message a ticket is about is found by the position of the ticket.   *)
Dead(s) ==
    {queue[s][i] : i \in
        {j \in 1..Len(tickets[s]) : tickets[s][j] = "DeviceNotRegistered"}}

(* ... and deletes the tokens that are not registered. *)
HandleTickets(s) ==
    /\ phase[s] = "tickets"
    /\ Ends(s, Dead(s))
    /\ UNCHANGED <<pref, known>>

(* The database refuses a query, or the deletion: the error is swallowed.  *)
SendingFails(s) ==
    /\ phase[s] \in {"prefs", "devices", "tickets"}
    /\ Ends(s, {})
    /\ UNCHANGED <<pref, known>>

PushNext ==
    \/ \E u \in Owners, p \in Choices : UpdatePreference(u, p)
    \/ \E u \in Owners, d \in Devices : RegisterDevice(u, d) \/ RemoveDevice(u, d)
    \/ \E d \in Devices : Install(d)
    \/ \E s \in Sendings :
          \/ \E users \in SUBSET Owners, about \in Categories :
                 SendToUsers(s, users, about)
          \/ \E cur \in Minute : FilterEligible(s, cur)
          \/ FindDevices(s)
          \/ SendChunk(s)
          \/ ChunkFails(s)
          \/ HandleTickets(s)
          \/ SendingFails(s)

PushSpec == PushInit /\ [][PushNext]_pushVars

-----------------------------------------------------------------------------
(* A sending deletes the tokens Expo did not know when it was given them,  *)
(* and no others, unless a chunk of it failed: the tickets that follow are *)
(* then taken for those of other messages.                                 *)
TokensSpared ==
    [][\A s \in Sendings :
          HandleTickets(s) /\ ~lost[s] =>
              Registered \ DOMAIN owner' = unknown[s] \cap Registered]_pushVars

(* "Soporta ventanas que cruzan medianoche": the minutes in which a user   *)
(* is not disturbed are those from the first up to the second, around the  *)
(* clock, which are none if the two are the same. Critical alerts come     *)
(* through in them, and nothing that the user has switched off ever does.  *)
Window(dnd) ==
    IF dnd = NoRest THEN {}
    ELSE {(dnd[1] + k) % Minutes :
             k \in 0 .. ((dnd[2] + Minutes - dnd[1]) % Minutes) - 1}

QuietHours ==
    \A u \in Owners, cur \in Minute :
        /\ Allows(u, "criticalAlerts", cur) <=> "criticalAlerts" \in pref[u].wanted
        /\ \A about \in Categories \ {"criticalAlerts"} :
              Allows(u, about, cur) <=>
                 about \in pref[u].wanted /\ cur \notin Window(pref[u].dnd)

(* A message goes to a device whose owner is a recipient and was found to  *)
(* allow it, unless the device changed hands in the meantime; and a user   *)
(* allows what is switched on, in the hours of rest critical alerts only.  *)
MutedAreSpared ==
    /\ QuietHours
    /\ \A s \in Sendings : \A i \in given[s] + 1 .. Len(queue[s]) :
           LET d == queue[s][i]
           IN d \notin moved[s] => d \in Registered /\ owner[d] \in eligible[s]
=============================================================================
