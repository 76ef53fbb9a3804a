# Verification of the radio backend

TLA+ models of the backend of a push-to-talk radio application (NestJS,
Socket.IO, Prisma, mediasoup), their model checking with TLC and proofs with
TLAPS. Paths are relative to the repository; `GW` is
`src/radio/radio.gateway.ts`.

## 1. The system

One Node.js process. A handler runs without interruption from one `await` to the
next; what it does between two awaits is atomic. All the state of the live radio
is in the memory of that process and is lost with it; what is persistent is in a
PostgreSQL database behind Prisma. The audio itself flows through a mediasoup
worker, a child process that may die on its own.

| part | code | state it keeps | operations | what is hard |
|---|---|---|---|---|
| turns to talk (floor) | `src/radio/radio-floor.service.ts`, `ptt:*` of GW | per channel: who has the word, the queue | request, release, cancel, leave, disconnect | a release awaits the database after the word has passed on; entries are sockets but are dropped by user; several devices per person |
| publishing (SFU) | `ms:*` of GW | `msPeers`, `channelProducer`, `channelReservations`; transports and producers in the worker | reserve, release, create and connect transport, produce, close, consume, resume | every call to the worker is awaited; sockets drop in between; the worker dies; ghosts of old sockets |
| recording of notes | `startRecording`, `finishRecording` of GW | `MsPeer.recording`, an ffmpeg process, three timers | start, finish, save | ffmpeg may be absent or never close; a talk may end before its recording has started |
| worker supervision | `src/radio/mediasoup.service.ts` | worker, router, `ready` | boot, recreate with three attempts, exit | deaths during recovery, overlapping loops |
| private calls | `private-radio:*` of GW | `privateCalls`, ring timers, disconnect timers | call, answer, end, cancel, resume after reconnection | lookups that overlap; network drops; timers against answers; several sessions of a user |
| rooms and presence | `channel:*` of GW | Socket.IO rooms, `client.data` | join, leave, listen to and stop listening to important channels | joins whose lookups end in another order; the public room kept during a private talk |
| channel chat, history, retention | `src/radio/radio.service.ts` | transmissions in the database, files | record, history by cursor, nightly purge | equal timestamps; purge against upload |
| authentication | `src/auth/auth.service.ts` | refresh tokens, one-time codes | register, login, refresh, logout, forgot and reset password | logins and refreshes at once; attempts counted after a comparison |
| tracking | `src/tracking/tracking.service.ts` | last positions, geofence membership in memory | ingest, presence, stop detection every minute | positions of one unit evaluated at once |
| alerts | `src/alerts/alerts.service.ts` | status of an alert | create, acknowledge, resolve, mark all | find-then-create deduplication; order of transitions |
| chat | `src/chat/chat.service.ts` | conversations, messages, receipts | create, send, mark read | find-then-create; several writes per message |
| push | `src/notifications/push.service.ts` | device tokens, preferences | send, clean up tokens | partial failure of chunks; quiet hours |
| personnel import | `src/users/personal-sync.service.ts` | users | synchronise | partial failure |
| units, users, routes, geofences, preferences, maps, media | the other services | database rows | CRUD and proxies | little: a statement or two per request |

How they interact. The gateway owns the sockets and calls the floor service
(synchronously), the radio service (awaited), and the mediasoup service
(awaited). The mediasoup service calls the gateway back (`onReset`) when a new
worker is up; the gateway then clears its maps and disconnects every socket,
which makes every client reconnect with a new socket id. Clients keep the floor
protocol (`ptt:*`, audio in chunks relayed by the gateway) and the SFU protocol
(`ms:*`) apart: neither handler looks at the state of the other. Login calls the
tracking gateway to expel the sockets of a previous session. Tracking creates
alerts, alerts and chat send push notifications.

What makes each part correct:

- floor: a person is in a floor once; the word goes to who asked first and is
  still there; nobody waits for ever; the one who has the word is connected and
  knows; the channel knows who talks.
- SFU: one open microphone per channel (half duplex); the registered speaker is
  the open microphone; a reservation or a ghost never blocks a channel for ever;
  a speaker is not cut off by somebody else.
- worker: ready means a live router; no session survives on an old router; after
  a death, recovery or an exit.
- calls: a person is in one call; every ringing call is timed; a person who is
  away has the grace window, and nobody else has; a call does not outlive its
  parties; all sessions of a person show the same.
- rooms: the data of a socket names its rooms; presence is exact; nobody listens as
  important to the channel they are in, nor to any after unsubscribing.
- notes: one note for a talk, filed where it was spoken; no ffmpeg is left running.
- accounts: a login ends every other session ("Sesión única"); a code resets a
  password once and cannot be guessed at for ever; a synchronisation shuts out
  nobody who is on duty.
- alerts: no two of a type for one event, and none that is never raised.
- chat: two people have one conversation; the two records of what is unread agree.
- push: nobody is disturbed who does not wish to be; a token that works is kept.
- history: pages skip nothing; files and rows go together.

## 2. The modules

| module | what it is |
|---|---|
| `FloorService` | the operations of `RadioFloorService` on the floor of one channel, as pure operators |
| `TurnQueue` | abstract specification: a line of people per channel, first come first served |
| `RadioFloor`, `MCRadioFloor` | the floor driven by the handlers of the gateway |
| `RadioSfu`, `MCRadioSfu` | reservations, producers and transports |
| `PhoneLines` | abstract specification: one telephone line per person; a call takes two free ones and frees both |
| `PrivateCalls`, `MCPrivateCalls` | private calls, their timers, what each session shows |
| `MediasoupWorker` | the worker and its recovery loops |
| `RadioRooms`, `MCRadioRooms` | rooms, presence, important channels |
| `RadioNotes` | the recording of the talks of one socket: ffmpeg, its timers, the note |
| `Personnel` | the accounts, and their synchronisation with the personnel system |
| `AuthSessions`, `MCAuthSessions` | refresh tokens and one-time codes of one account; extends `Personnel`, which activates and deactivates it |
| `AlertRules` | the alerts that positions and the cron make for one unit |
| `Chat` | direct conversations, messages, receipts and badges |
| `Push` | preferences, devices, and the sendings of `PushService` |
| `RadioHistory` | what is posted to a channel, its pages and its purge |
| `Messaging`, `MCMessages` | `Chat`, `Push` and `RadioHistory` side by side |
| `RadioFloor_proofs` (with the lemmas on `FloorService`), `RadioSfu_proofs`, `PrivateCalls_proofs`, `MediasoupWorker_proofs`, `RadioRooms_proofs`, `RadioNotes_proofs`, `AuthSessions_proofs` | the theorems about each of them |
| `Services_proofs` | the theorems about `AlertRules`, `Chat`, `Push`, `RadioHistory` and `Messaging` |

Each of the modules on the live radio is the projection of the gateway's handlers
on the state it is about: `Join`, for instance, is an action of three modules, and in each it
changes what `onJoin` changes of that module's state. The parts share only
`client.data.channelId` and the life of a socket, which each module has for
itself.

### From the code to the models

- **Awaits.** An await of Prisma, of the mediasoup worker, of ffmpeg or of a timer
  separates two actions (`PttReleaseStart`/`PttReleaseDone`,
  `ProduceStart`/`ProduceDone`/`ProduceFails`, `CallStart`/`CallDone`,
  `JoinStart`/`JoinDone`, ...), and the interval is state (`releasing`,
  `calls`, `placing`, `joining`, ...). `fetchSockets` of the in-memory adapter
  and the verification of a token resolve in microtasks before any other event of
  the process: no action comes in between.
- **Sockets.** A socket id is used once: `new`, `on`, `off`. A client that
  reconnects is another socket of the same user. At `disconnect` the socket has
  left its rooms, and `join` does nothing afterwards; a handler of it that is
  still awaiting goes on, which the models keep. What a dead socket's
  `client.data` holds is read by nobody and is reset.
- **Private and public channels** (`private:...`) are two constants, since the
  handlers differ: a private release does not await, a private room keeps the
  public one.
- **Handlers in flight.** A handler that awaits is a member of a set of its own
  (`Calls` of `RadioSfu`, `Releases` of `RadioFloor`, `Lookups` of `PrivateCalls`,
  `Requests`, `Reports`, ...), not a state of its socket: the gateway does not ask
  whether a call of the same socket is in flight, so one socket may have several.
- **The worker.** Its death rejects every call in flight in one step, with the
  producers and transports gone. A call in flight on a transport that closes may
  still succeed with a producer that is already closed. In `RadioSfu` a producer is
  on the current send transport of its socket, on one that was overwritten by the
  answer of another `ms:createTransport` and that nobody will close (`"stray"`), or
  on a closed one; one that `MsPeer.producer` does not name any more is in `orphans`.
- **Clients** send what the protocol lets them send in any order; a call target is
  another user, since the client only offers the other member of the
  conversation.
- **The database.** A statement of Prisma is atomic, and any of them may be refused
  or, where the code has no transaction, be the last that is run: each service
  module has the action that stops a request there (`Fails`, `ReportFails`,
  `SendFails`, `ReadFails`, `SendingFails`, `PurgeFails`, `FinishFails`). Rows are
  stamped by the database when their insertion begins; in `Chat` the stamp and the
  row appear together, in `RadioHistory` the row may appear up to a unit of time
  later.
- **Time.** Requests take milliseconds and the windows of the rules minutes:
  `WindowPasses` and `MinutesPass` of `AlertRules` happen between requests only. In
  `RadioHistory` and `Chat` the clock is a counter; in `Push` a sending reads any
  minute of the day.
- **Outside.** ffmpeg may start, fail to, end when asked, end of itself, or hang
  until it is killed; Expo answers a chunk with a ticket for each of its messages or
  fails; the personnel system answers any list; a file that exists can be deleted.

`PROJECT.json` maps every definition to its lines.

### Bounds

The handlers in flight at a time are the sets above (3 calls of `ms:produce` in one
run and 2 in the other, 3 releases, 2 lookups of a private call), of any size in the
proofs. `MaxMaking` bounds the `ms:createTransport` (send) of one socket in flight: 2
where the microphones left on an overwritten transport are the question, 1 in the
other run; the proofs hold for every `MaxMaking` unless they say otherwise. At most
`MaxWorkers` workers; finitely many
sockets, each used once, and call ids. `Attempts = 3` is the code's number. A
deadlock check makes no sense where finitely many sockets have all gone or the
process has exited, so the configurations turn it off.

In `RadioNotes` each talk is used once and in `Chat` each message (`MaxClock` bounds
the stamps: two messages and one reading, or the reverse); `MaxTime` bounds the
history. `MaxAttempts` is 5 in the code and 1 in the instance, where two overlapping
requests reach it and pass it; `CodesAreProtected` is proved for every value. A
row of `refreshToken` that is revoked and that no request knows of may stand for a
later one, so three are enough for two requests at a time. `Minutes` is 3: hours of
rest around midnight, within the day, and of no length, with minutes in and out of
each. `FewChoices` also has somebody who wants no critical alerts and somebody who
wants nothing else. `ChunkSize` and `Take` are 1 (Expo takes 100, a page has up to
100), so that two devices are two chunks and three posts are three pages;
`Retention` is one unit of time (`AUDIO_RETENTION_DAYS` is 7; the proofs need that it
is not 0).

`RadioSfu` has the constant `MidCall`: what a socket may do while a `ms:produce` of
its own is in flight: send another for the same channel (`"again"`), give its
reservation up (`"release"`), disconnect (`"drop"`), disconnect while its recording
starts (`"record"`). The gateway prevents none of these; they are assumptions on the
clients, where a property needs them. Everything other sockets do, a `ms:produce` of
its own in another channel, and the death of the worker, may always happen. `DbMayFail`,
`CallerMayDrop`, `SelfCalls` and `WorkerMayDie` are switches of the same kind.

### Fairness

- `RadioFloor!FairSpec`: a database await ends (`PttReleaseDone`), and a speaker
  who has been told so lets go in the end (`LetGo`). The second is an assumption
  about people: the code has no limit on how long somebody keeps the word.
- `PrivateCalls!FairSpec`: timers fire.
- `MediasoupWorker!FairSpec`: delays end, and mediasoup answers or rejects.
- `RadioNotes!FairSpec`: timers fire, a process that was sent a SIGKILL ends, and the
  database answers or refuses. Nothing is assumed of an ffmpeg that is merely asked
  to end.
- `AlertRules!FairSpec`: the cron runs every minute (weak fairness of `StopLook`), and
  the database answers each query of it now and then, however often it refuses
  (strong fairness, as every refusal sends the cron back to its beginning).

## 3. What is checked

| run | instance | properties | what it shows |
|---|---|---|---|
| `radio_floor` | 3 sockets of 2 people, a public and a private channel, the database may fail, 3 releases in flight; 244 712 states (symmetric) | `EntriesOnline`, `PrivateAnnounced`, `TurnsInOrder` | entries are connected, a private channel hears who talks, the floor implements `TurnQueue` |
| `radio_floor_turns` | 3 people, a public channel, no failures, 3 releases in flight; 50 374 | `SpeakerTold`, `EveryTurnComes` | whoever has the word knows or is being told; everybody gets out of the queue |
| `radio_sfu_calm` | 2 sockets, 2 channels, 3 calls, 2 `ms:createTransport` of a socket in flight, worker may die; 147 162 (symmetric) | `HalfDuplex`, `NobodyIsCutOff` | half duplex and nobody cut off, for clients that wait for the answer of a `ms:produce` |
| `radio_sfu_drops` | 2 sockets, 2 channels, 2 calls, asking again, giving up and dropping in `ms:produce`; 698 422 (symmetric) | `ReservationsLive`, `GhostsYield` | reservations die with their socket, ghosts can be cleared |
| `private_calls` | 4 sockets of 3 people, 2 calls, 2 lookups in flight; 116 169 (symmetric) | `OneCallPerUser`, `RingsAreTimed`, `GraceMeansGone`, `SessionsAgree`, `LinesOfTwo` | one call per person, a timer for each ringing call, windows only for those away, sessions agree, the calls implement `PhoneLines` |
| `private_calls_end` | 2 people with 2 devices, who may call themselves, 1 call, 2 lookups; 101 841 | `AbsentHasGrace`, `RingingEnds`, `GoneCallsEnd` | absent people have a window; ringing ends; abandoned calls end |
| `worker` | 4 workers; 9 760 | `ReadyIsAlive`, `SessionsOnRouter`, `RecoversOrExits` | readiness, sessions, recovery or exit |
| `radio_rooms` | 2 devices of a person, 2 public channels, 1 private, 2 lookups of a socket under way; 288 579 (symmetric) | `RoomsTracked`, `PresenceExact`, `HeardOnce` | rooms, presence, nobody listens as important to their current channel |
| `radio_notes` | 2 talks, a public channel and a conversation; 23 380 | `SavedOnce`, `FiledWhereSpoken`, `NoneLeftRunning`, `NotesAreDecided` | one note for a talk; if nothing overtook a recording it is filed where it was spoken and no ffmpeg is left; every note is decided |
| `accounts` | 2 people, 1 synchronisation, 2 requests, 3 tokens, 2 codes; 1 547 433 (symmetric) | `OneSession`, `CodesProtect`, `ListedAreSpared`, `SyncMirrors` | a login is the only session if nothing overlaps it; codes are spent once by requests that ran alone, and wear out; a synchronisation spares who it lists and, undisturbed, mirrors the list |
| `alert_rules` | 2 reports at once, 1 cron, 1 geofence; 358 635 | `DuplicatesBounded`, `ExitsAreReported`, `StopsAreAlerted` | duplicates are as many as the calls that overlap; an exit seen by a report that no other overlaps is alerted or has an alert already; who stands still is alerted again and again |
| `messaging` | chat: 2 talkers, 2 conversations, 2 messages, 2 readings; push: 2 users, 2 devices, 1 sending; history: 3 posts; 700 148 (symmetric) | `DirectsBounded`, `BadgeMatchesReceipts`, `MutedAreSpared`, `TokensSpared`, `PagesComplete`, `FilesGoWithPosts` | see below |

`messaging` runs three machines that share no state, so `Messaging` lets one of them
act in each behaviour (`acting`): their states add up instead of multiplying, and no
behaviour of any of them is lost. It shows that two people have at most as many
conversations as there were calls looking for one at once; that the badge and the
receipts agree except on a message that crossed a reading or that one left halfway,
until the reader reads again; that a message goes to devices of people who allow it
at that minute; that tokens are deleted if and only if Expo did not know them, unless
a chunk failed; that pages skip nothing; and that posts and files are purged together.
It does not show that a page never repeats a post.

`HeardOnce` is about the current channel. A public channel kept during a private talk
is not the current one: a socket that listens to it as important is in both of its
rooms, and `HeardOnce` does not say otherwise.

The type invariants are theorems (section 4) and are not listed in the
configurations.

Why these sizes: a second device of one person is what separates users from
sockets; a third party is needed to slip in between two (a queue of two, a ghost
that a third clears, two calls that share a person); two channels to leave one
for another, two of the public kind and one private to keep a room. Overlapping
recoveries need a worker that dies while it is being replaced, and the fourth
worker lets that happen to the replacement again. `MaxCalls` bounds how many
`channel:join` and `channel:listen-important` of one socket await the database at
once: two are enough for their answers to come in either order. The proofs of
`RadioRooms_proofs` hold for every `MaxCalls`. Two requests, two reports and two
readings are what a race between a read and a write of the database takes, and two
talks what it takes for a recording to be overtaken. One geofence is enough for
`ExitsAreReported`, since the alert of another has the effect of an alert of its own,
and that is `fresh` in any state.

Every property of a passing run fails under a plausible slip of the code (the
operators marked "Mutant of" in the modules; `PROJECT.json` pairs them).

### What the code does not do

Some properties hold under a condition that the code does not guarantee; the
condition is in the configuration or in the property, and without it TLC finds the
behaviour in the second column.

| condition | without it |
|---|---|
| no `"again"` in `MidCall` of `RadioSfuCalm.cfg` (`HalfDuplex`, `NobodyIsCutOff`) | A second `ms:produce` of a socket for the same channel passes the tests, since the reservation it finds is its own. Both producers are made; the second takes the place of the first in `MsPeer.producer`, `ms:closeProducer` closes one and frees the channel, and the next socket is let in while the other microphone is open: two of them, where the comment says "un solo hablante a la vez por canal" (GW:867). If the second answer comes after that, it registers its socket over the speaker admitted meanwhile. |
| no `"release"` (the same) | The reservation that keeps the others out is given up while the worker makes the producer; another is let in. |
| no `"drop"` (the same) | A socket that disconnects while its `ms:produce` is in flight loses its reservation, another begins to talk, and then the first handler resumes and registers its dead producer over it. It is a ghost now, so a third is let in (with three sockets). |
| `LeftOpen` in `HalfDuplex` | With two `ms:createTransport` of a socket in flight the first transport is overwritten: its microphone stays open when the socket goes, and the next speaker joins it. With `MaxMaking = 1` nothing is left open (`NothingIsLeftOpen`). |
| `MaxMaking = 1` in `RadioSfuDrops.cfg` (`GhostsYield`) | A producer made on an overwritten transport after its socket has gone is open, so its recording starts, and `startRecording` puts the socket back in `msPeers`. |
| no `"record"` in `MidCall` of `RadioSfuDrops.cfg` (`GhostsYield`) | `startRecording` resumes after its socket has been cleaned up and puts it back in `msPeers`; a channel that the socket is still registered in (it talked in another one last) is busy until the worker or the server restarts. |
| `CallerMayDrop = FALSE` in `PrivateCallsEnd.cfg` (`AbsentHasGrace`) | A caller who drops while the call is looked up is in a ringing call without a grace window; once it is accepted, only the other party ends it. |
| `SelfCalls = FALSE` in `PrivateCalls.cfg` (`SessionsAgree`) | `private-radio:call` tests that the target is a member of the conversation, not that it is another one: somebody who names themselves rings on their own devices, and the session that called shows a call it makes while the others show one they get. `private_calls_end` allows it. |
| `DbMayFail = FALSE` in `RadioFloorTurns.cfg` (`SpeakerTold`) | A rejected `recordTransmission` leaves a speaker who was not told. |
| `mishaps = {}` (`FiledWhereSpoken`, `NoneLeftRunning`) | A talk that ends before its recording has started leaves an ffmpeg that nobody stops, or that the next talk of the socket stops and files as its own; so does a second `ms:produce` in flight, whose recording takes the place of the first. When the worker is replaced the gateway forgets its peers, and their recordings with them. |
| `calm`, `alone` (`OneSession`) | Two logins at once each revoke what they find and then make a session of their own: there are two. So do a login and a refresh that overlap it. Two refreshes with one token both succeed. A reset that overlaps a refresh leaves the session it was to end. |
| `alone` in `CodeSpentOnce`; the second term of `AttemptsBounded` | Codes compared at the same time all count as the same attempt, and one code may reset a password twice. |
| the number of calls in `DuplicatesBounded`, `DirectsBounded` | Find, then create: as many alerts or conversations as calls overlap. |
| `alone` in `ExitsAreReported` | Of two reports evaluated at once each reads the membership before and replaces it after: one may forget that the unit was in a fence without alerting its exit. |
| the alert in `ExitsAreReported` | The window is one of the unit and the type: the exit of a geofence is not alerted while there is an alert of another's. |
| `crossed` (`BadgeMatchesReceipts`) | A message stored before the time of a reading whose receipt comes after it counts as read for the badge and as unread in its receipt. |
| `~lost` (`TokensSpared`) | After a chunk that failed, the tickets that follow are matched to other messages, and a token that works may be deleted for one that does not. |
| `owed` (`PagesComplete`) | A follower never gets a post that was stamped before its cursor and appeared after it had passed; if its cursor is purged it gets nothing more. |

Others are visible in the models without a property that states them, and are
listed as hazards: a release that awaited the database announces in a public channel
the next speaker it read before the await, even if that person has let go meanwhile; a
channel switch keeps the floor of the channel left; a rebuilt send transport leaves a
registered speaker who is silent; a subscription made while in the channel gets nothing
once the channel is left. Two recovery loops may each make a worker.

## 4. What is proved

Every safety property of section 3 is a theorem: invariants, action properties and
the two refinements. They hold for any finite or infinite sets of sockets, users, channels
and calls, and any number of workers; where something is counted the set is finite
(requests, reports and crons, talkers and callers, devices, posts).

| theorem | statement | assumptions |
|---|---|---|
| `FloorTypes`, `FloorOnce`, `FloorEntriesOnline` | `TypeOK`, `FloorWellFormed`, `EntriesOnline` | |
| `SpeakersAreTold` | `SpeakerTold` | the database does not fail |
| `PrivateIsAnnounced` | `PrivateAnnounced` | |
| `FloorImplementsTurns` | `RadioFloor` implements `TurnQueue` | |
| `SfuTypes`, `ReservationsDieWithSocket` | `TypeOK`, `ReservationsLive` | |
| `GhostsAreCleared` | `GhostsYield` | `"record"` is not in `MidCall`; `MaxMaking = 1` or `"drop"` is not in it |
| `NothingIsLeftOpen` | `NothingStray`: no microphone of a socket that has gone is open | `MaxMaking = 1` |
| `OneTalksAtATime`, `SpeakerIsRegistered`, `SpeakersKeepTheChannel` | `HalfDuplex`, `SpeakerRegistered`, `NobodyIsCutOff` | no `"again"`, `"release"` or `"drop"` in `MidCall` |
| `CallTypes`, `OneCall`, `RingsTimed`, `WindowMeansGone` | `TypeOK`, `OneCallPerUser`, `RingsAreTimed`, `GraceMeansGone` | |
| `CallsImplementLines` | `PrivateCalls` implements `PhoneLines` | |
| `ClientsAgree` | `SessionsAgree` | nobody calls themselves |
| `AbsentHaveWindow` | `AbsentHasGrace` | callers do not drop during the lookup |
| `WorkerTypes`, `ReadyMeansAlive`, `SessionsFollowRouter` | `TypeOK`, `ReadyIsAlive`, `SessionsOnRouter` | |
| `RoomTypes`, `DataTracksRooms`, `PresenceIsExact`, `EarsSubscribed`, `NobodyHearsTwice` | `TypeOK`, `RoomsTracked`, `PresenceExact`, `EarsAreSubscribed`, `HeardOnce` | |
| `NoteTypes`, `OneNoteEach`, `NotesFiledWhereSpoken`, `NoFfmpegForgotten` | `TypeOK`, `SavedOnce`, `FiledWhereSpoken`, `NoneLeftRunning` | |
| `AuthTypes`, `SingleSession`, `CodesAreProtected`, `AttemptsAreBounded` | `TypeOK`, `OneSession`, `CodesProtect`, `AttemptsBounded` | finitely many requests |
| `ListedStayActive`, `CleanSyncMirrors` | `ListedAreSpared`, `SyncMirrors` | |
| `AlertTypes`, `FewDuplicates`, `ExitsReported` | `TypeOK`, `DuplicatesBounded`, `ExitsAreReported` | finitely many reports and crons, none of them both |
| `ChatTyped`, `FewDirects`, `BadgeAgrees` | `ChatTypes`, `DirectsBounded`, `BadgeMatchesReceipts` | two talkers, finitely many callers |
| `PushTyped`, `MutedSpared`, `TokensAreSpared` | `PushTypes`, `MutedAreSpared`, `TokensSpared` | finitely many devices; a day and a chunk have a size |
| `HistoryTyped`, `FilesFollowPosts`, `PagesAreComplete` | `HistoryTypes`, `FilesGoWithPosts`, `PagesComplete` | finitely many posts; a page has a size; posts are kept for a unit of time at least |
| `MessagingTyped` | `MessagingTypes` | those of the three |

The arguments:

- **Floor.** The three invariants hold together: dropping a user from a floor
  leaves no entry of theirs only because they are in it once, and a step keeps them
  in it once only because nobody waits for a free floor. `RadioFloor_proofs` has
  one lemma per operation of the service that gives what it keeps, and applies it
  to each handler. The refinement maps a floor to
  the users of its entries: promotion is `Pass`, a filter is `Withdraw`, a request
  is `Take`, `Line` or a stutter (a refreshed socket is the same person).
- **SFU.** Half duplex is not inductive. The strengthening is of two parts.
  `CallsHeld`: while a `ms:produce` is in flight its channel is reserved for the caller,
  has no speaker and no other call, the caller is connected and in `msPeers`, and so is
  whoever is registered and connected. `Microphones`: who talks is registered or was left
  open, and a socket has no second microphone in the channel of its producer, which
  closing the producer would leave unregistered. `"again"`, `"release"` and `"drop"` each
  break it. `NoStray`, if one transport is made at a time: while one is made the socket
  has none, and what is open is on the current one. Ghosts need that whoever is in
  `msPeers` is connected (`PeersConnected`), as is whoever will touch it again after an
  await: a call on an open transport, or a recording that starts.
- **Calls.** `OneCallPerUser` is kept by the test for vacancy, which comes after
  the lookup in the same step that adds the call. Agreement of the sessions needs
  that the two parties of a call differ and that nobody is in two. The refinement
  gives each user the line of the call they are in, which is one line by
  `OneCallPerUser`: a step that touches a call changes the lines of its two parties
  and no other (`OneCallMoves`). `CallDone` is `Ring`,
  `Accept` is `Answer`, and every end is `HangUp`: a timeout because it runs only for
  a call that rings, and the closing of a grace window, which ends all calls of the
  user, because there is one at most.
- **Worker.** A maker that waits for a router has a worker of its own which either
  lives or was that maker's to lose; sessions are on the present router because
  every replacement by a loop resets them, and the boot has none to reset.
- **Rooms.** `RoomsTracked` needs that the current channel, if public, is the
  public channel kept. Presence is exact because each handler announces every
  room it changes, which `RoomsTracked` tells.

- **Notes.** A note is saved in the step that takes it out of `"due"`, and it gets
  there only in `Finish`, which empties the peer: `Steady` says that the recording a
  peer holds was never finished. `Orderly`, kept as long as nothing was overtaken,
  says that what is being started or held is the talk of the producer, so that what
  `Finish` takes is the recording of the talk that ends.
- **Accounts.** `CalmIsSingle` needs that a request which has revoked and not yet
  created leaves no session, or the one it found and no other. Attempts are bounded
  by counting the requests that compare with a code: those that were let in below the
  limit, so the attempts counted and under way together pass it by one for each
  request but the first.
- **Synchronisation.** `ListedAreSpared` needs that whoever is listed is still to be
  dealt with or noted; `SyncMirrors` that, in a synchronisation that is clean, whoever
  was dealt with is active.

- **Alerts.** Duplicates are bounded by counting: as long as there is an alert nobody
  new sets out to create one, so the alerts there are and the evaluations about to
  create one are together no more than the evaluations there can be
  (`AlertsCounted`). An exit is reported because a report that no other
  overlaps (`AloneLeaves`) is the only one that deals with exits, and those it has
  before it are the ones of the membership it is going to replace.
- **Chat.** `DirectsBounded` counts the same way. `BadgeInv`, the strengthening of
  `BadgeMatchesReceipts`, is about messages and readings that overlap: a message in
  flight that no reading crossed has nobody reading it, a later stamp than any time
  written, and a receipt that is not `"read"` (`UnreadInFlight`); a reading under way
  has a later time than the messages it did not cross or is settling, and has written
  it once it is at the receipts (`ReadLater`); and the two records agree as long as no
  reading stands between writing the one and the other (`Agree`).
- **Push.** A queue holds only devices of people found to allow it, or that have moved
  since (`QueueAllowed`), because a queue is made in one step from the devices there
  are and every later change of hands is noted. That `isWithinDnd` computes the minutes
  from the first to the second around the clock (`WindowFacts`) is arithmetic modulo
  the day, for a day of any length. `Matched`: as long as no chunk failed there are as
  many tickets as messages given, so that the ticket in a position is about the message
  in that position, and those that say `DeviceNotRegistered` are those of the tokens
  Expo did not know.
- **History.** A post that appears is stamped at most one unit of time ago and posts are
  kept for at least one, so it is above the cutoff of any purge under way: the second
  look of the purge finds what the first did and whose files are gone (`FilesInv`), and
  everything purged is older than everything kept (`PurgedInv`). A page is cut from a
  strict total order of finitely many posts, so what it leaves out lies beyond it
  (`NewestFacts`, `OldestFacts`; that it has an end, `FirstExists`, is the
  well-foundedness of inclusion between finite sets). `ClientInv`: whatever the client is
  owed and does not have lies beyond its cursor. If the cursor was purged nothing kept
  lies before it, by `PurgedInv`, and the pager is right to stop.

TLC checked each of these strengthenings on the instance of its run before it was
proved.

Only model-checked: the liveness properties (`EveryTurnComes`, `RingingEnds`,
`GoneCallsEnd`, `RecoversOrExits`, `NotesAreDecided`, `StopsAreAlerted`). They rest on
fairness, which the prover cannot reason about (it has no `ENABLED`).

## 5. What is not modelled

- Receive transports and consumers, and the relay of old WebRTC offers (`rtc:*`) and
  of chunks, which change no state.
- `process.exit` is in `MediasoupWorker` only. The loss of all memory when the process
  restarts is modelled where something outlives it (`Restart` of `AlertRules`); nothing
  of the live radio is meant to.
- The manual `POST /alerts`, which looks for no earlier alert of its type.
  Acknowledging and resolving an alert: single updates that test nothing but that the
  alert exists. The presence of units and users and the queries of tracking.
- Group conversations, which have more receivers and no search for an existing one;
  malformed push tokens; quiet hours that do not parse; the CRUD of channels and
  their members; roles and who may call what.
- Access tokens, which are signed and not stored; `isOnline` of a user.
- Units, users, maps, directions, routes, geofences, media: a statement or two per
  request, proxies, disk.

## 6. Plan

1. `RadioConsumers`: receive transports and consumers against the end of their
   producer.
2. `RadioGateway`: rooms, floor and SFU composed over one `channelId` and one life
   of a socket, for the properties that relate them (the speaker is in the room).
3. Proofs: an abstract specification of the rooms of `RadioRooms`, shown to be
   implemented; the step lemmas of the liveness properties (what a ringing call or an
   abandoned one may turn into).
