-------------------------- MODULE RadioFloor_proofs --------------------------
(***************************************************************************)
(* The invariants of RadioFloor for every number of sockets, users and     *)
(* channels: first what the operations of FloorService do to one floor,    *)
(* then that each handler keeps the invariants.                            *)
(***************************************************************************)
EXTENDS RadioFloor, SequenceTheorems, TLAPS

(***************************************************************************)
(* What the operations of FloorService do to the floor of a channel.       *)
(***************************************************************************)

(* Taking out element i closes the gap and moves nothing else. *)
LEMMA RemoveAtFacts ==
    ASSUME NEW S, NEW q \in Seq(S), NEW i \in 1 .. Len(q)
    PROVE  /\ RemoveAt(q, i) \in Seq(S)
           /\ Len(RemoveAt(q, i)) = Len(q) - 1
           /\ \A j \in 1 .. Len(q) - 1 :
                 RemoveAt(q, i)[j] = IF j < i THEN q[j] ELSE q[j+1]
<1> DEFINE a == SubSeq(q, 1, i-1)
           b == SubSeq(q, i+1, Len(q))
<1>0. Len(q) \in Nat /\ i \in Nat
  BY LenProperties
<1>1. /\ a \in Seq(S) /\ Len(a) = i - 1
      /\ \A j \in 1 .. i - 1 : a[j] = q[j]
  BY <1>0, SubSeqProperties, ElementOfSeq
<1>2. /\ b \in Seq(S) /\ Len(b) = Len(q) - i
      /\ \A j \in 1 .. Len(q) - i : b[j] = q[j+i]
  <2>1. /\ b \in Seq(S)
        /\ Len(b) = IF i+1 <= Len(q) THEN Len(q) - (i+1) + 1 ELSE 0
        /\ \A j \in 1 .. Len(q) - (i+1) + 1 : b[j] = q[(i+1)+j-1]
    BY <1>0, SubSeqProperties, ElementOfSeq
  <2>2. ASSUME NEW j \in 1 .. Len(q) - i PROVE b[j] = q[j+i]
    <3>1. j \in 1 .. Len(q) - (i+1) + 1 /\ (i+1)+j-1 = j+i
      BY <1>0
    <3> HIDE DEF b
    <3> QED BY <2>1, <3>1
  <2> QED BY <1>0, <2>1, <2>2
<1>3. RemoveAt(q, i) = a \o b
  BY DEF RemoveAt
<1> HIDE DEF a, b
<1>4. /\ a \o b \in Seq(S)
      /\ Len(a \o b) = Len(a) + Len(b)
      /\ \A j \in 1 .. Len(a) + Len(b) :
            (a \o b)[j] = IF j <= Len(a) THEN a[j] ELSE b[j - Len(a)]
  BY <1>1, <1>2, ConcatProperties
<1>5. ASSUME NEW j \in 1 .. Len(q) - 1
      PROVE  (a \o b)[j] = IF j < i THEN q[j] ELSE q[j+1]
  <2>1. j \in 1 .. Len(a) + Len(b)
    BY <1>0, <1>1, <1>2
  <2>2. CASE j < i
    BY <1>0, <1>1, <1>4, <2>1, <2>2
  <2>3. CASE ~(j < i)
    <3>1. j - Len(a) \in 1 .. Len(q) - i /\ (j - Len(a)) + i = j + 1 /\ ~(j <= Len(a))
      BY <1>0, <1>1, <2>3
    <3>2. b[j - Len(a)] = q[j + 1]
      BY <1>2, <3>1
    <3> QED BY <1>4, <2>1, <2>3, <3>1, <3>2
  <2> QED BY <2>2, <2>3
<1> QED
  BY <1>0, <1>1, <1>2, <1>3, <1>4, <1>5

(* queue.filter: the entries of the others keep their order.              *)
LEMMA WithoutFacts ==
    ASSUME NEW q \in Seq(Sockets), NEW u
    PROVE  LET r == Without(q, u) IN
           /\ r \in Seq(Sockets)
           /\ \/ r = q /\ Places(q, u) = {}
              \/ \E i \in Places(q, u) :
                    /\ r = RemoveAt(q, i)
                    /\ Len(r) = Len(q) - 1
                    /\ \A j \in 1 .. Len(q) - 1 :
                          r[j] = IF j < i THEN q[j] ELSE q[j+1]
<1>1. CASE Places(q, u) = {}
  BY <1>1 DEF Without
<1>2. CASE Places(q, u) # {}
  <2>1. PICK i \in Places(q, u) : Without(q, u) = RemoveAt(q, i)
    BY <1>2 DEF Without
  <2>2. i \in 1 .. Len(q)
    BY LenProperties DEF Places
  <2> QED
    BY <2>1, <2>2, RemoveAtFacts
<1> QED
  BY <1>1, <1>2

(* queue.shift() ?? null: the floor goes to an entry of the queue, and the *)
(* user who had it is nowhere in the floor any more.                       *)
LEMMA PromoteFacts ==
    ASSUME NEW f \in Floors, OnceInFloor(f)
    PROVE  /\ Promote(f) \in Floors
           /\ OnceInFloor(Promote(f))
           /\ Entries(Promote(f)) \subseteq Entries(f)
           /\ f.current # None =>
                 \A e \in Entries(Promote(f)) : UserOf[e] # UserOf[f.current]
<1> USE DEF Floors
<1>1. CASE f.queue = <<>>
  BY <1>1, EmptySeq DEF Promote, FreeFloor, OnceInFloor, Entries, SpeakerOf
<1>2. CASE f.queue # <<>>
  <2> DEFINE q == f.queue
             g == Promote(f)
  <2>1. /\ g = [current |-> Head(q), queue |-> Tail(q)]
        /\ g.current = Head(q) /\ g.queue = Tail(q)
    BY <1>2 DEF Promote
  <2>2. /\ q \in Seq(Sockets) /\ Len(q) \in Nat \ {0}
        /\ DOMAIN q = 1 .. Len(q)
    BY <1>2, LenProperties, EmptySeq
  <2>3. /\ Head(q) \in Sockets /\ Head(q) = q[1]
        /\ Tail(q) \in Seq(Sockets)
        /\ DOMAIN Tail(q) = 1 .. Len(q) - 1
        /\ \A i \in 1 .. Len(q) - 1 : Tail(q)[i] = q[i+1]
    BY <1>2, <2>2, HeadTailProperties, LenProperties
  <2>4. g \in Floors
    BY <2>1, <2>3
  <2>5. \A i \in DOMAIN g.queue :
           g.queue[i] = q[i+1] /\ i \in Nat /\ i+1 \in DOMAIN q /\ i+1 # 1
    BY <2>1, <2>2, <2>3
  <2>6. g.current # None /\ g.current = q[1] /\ 1 \in DOMAIN q
    BY <2>1, <2>2, <2>3, NoneAssumption
  <2> HIDE DEF g
  <2>7. OnceInFloor(g)
    <3>1. ASSUME NEW i \in DOMAIN g.queue, NEW j \in DOMAIN g.queue,
                 UserOf[g.queue[i]] = UserOf[g.queue[j]]
          PROVE  i = j
      BY <2>5, <3>1 DEF OnceInFloor
    <3>2. ASSUME NEW i \in DOMAIN g.queue
          PROVE  UserOf[g.queue[i]] # SpeakerOf(g)
      BY <2>5, <2>6 DEF OnceInFloor, SpeakerOf
    <3> QED BY <2>6, <3>1, <3>2 DEF OnceInFloor
  <2>8. Entries(g) \subseteq Entries(f)
    BY <2>5, <2>6 DEF Entries
  <2>9. ASSUME f.current # None, NEW e \in Entries(g)
        PROVE  UserOf[e] # UserOf[f.current]
    BY <2>5, <2>6, <2>9 DEF Entries, OnceInFloor, SpeakerOf
  <2> QED BY <2>4, <2>7, <2>8, <2>9 DEF g
<1> QED
  BY <1>1, <1>2

(* Cancel takes out the user who waits, and nobody else.                   *)
LEMMA CancelFacts ==
    ASSUME NEW f \in Floors, OnceInFloor(f), NEW u
    PROVE  /\ Cancel(f, u) \in Floors
           /\ Cancel(f, u).current = f.current
           /\ OnceInFloor(Cancel(f, u))
           /\ Entries(Cancel(f, u)) \subseteq Entries(f)
           /\ ~Waits(Cancel(f, u), u)
<1> DEFINE q == f.queue
           r == Without(q, u)
           g == Cancel(f, u)
<1> USE DEF Floors
<1>1. q \in Seq(Sockets) /\ Len(q) \in Nat /\ DOMAIN q = 1 .. Len(q)
  BY LenProperties
<1>2. /\ g.current = f.current /\ g.queue = r
      /\ r \in Seq(Sockets) => g \in Floors
  BY DEF Cancel
<1>3. CASE r = q /\ Places(q, u) = {}
  BY <1>1, <1>2, <1>3 DEF OnceInFloor, SpeakerOf, Entries, Waits
<1>4. ASSUME NEW i \in Places(q, u), r \in Seq(Sockets), Len(r) = Len(q) - 1,
             \A j \in 1 .. Len(q) - 1 : r[j] = IF j < i THEN q[j] ELSE q[j+1]
      PROVE  /\ OnceInFloor(g)
             /\ Entries(g) \subseteq Entries(f)
             /\ ~Waits(g, u)
  <2>1. i \in 1 .. Len(q) /\ UserOf[q[i]] = u
    BY <1>1 DEF Places
  <2>2. DOMAIN r = 1 .. Len(q) - 1
    BY <1>4, LenProperties
  <2> DEFINE from(j) == IF j < i THEN j ELSE j+1
  <2>3. \A j \in DOMAIN r : from(j) \in DOMAIN q /\ from(j) # i /\ r[j] = q[from(j)]
    BY <1>1, <1>4, <2>1, <2>2
  <2>4. \A j, k \in DOMAIN r : from(j) = from(k) => j = k
    BY <1>1, <2>1, <2>2
  <2>5. q # <<>>
    BY <1>1, <2>1, EmptySeq
  <2> HIDE DEF from, r, g
  <2>6. \A j, k \in DOMAIN r : UserOf[r[j]] = UserOf[r[k]] => j = k
    BY <2>3, <2>4 DEF OnceInFloor
  <2>7. \A j \in DOMAIN r : UserOf[r[j]] # SpeakerOf(f)
    BY <2>3 DEF OnceInFloor
  <2>8. SpeakerOf(g) = SpeakerOf(f) /\ f.current # None
    BY <1>2, <2>5 DEF OnceInFloor, SpeakerOf
  <2>9. OnceInFloor(g)
    BY <1>2, <2>6, <2>7, <2>8 DEF OnceInFloor
  <2>10. Entries(g) \subseteq Entries(f)
    BY <1>2, <2>3 DEF Entries
  <2>11. \A j \in DOMAIN r : UserOf[r[j]] # u
    BY <1>1, <2>1, <2>3 DEF OnceInFloor
  <2> QED BY <1>2, <2>9, <2>10, <2>11 DEF Waits, Places
<1>5. r \in Seq(Sockets)
  BY <1>1, WithoutFacts
<1> QED
  <2>1. CASE r = q /\ Places(q, u) = {}
    BY <1>2, <1>3, <1>5, <2>1
  <2>2. CASE \E i \in Places(q, u) :
                /\ Len(r) = Len(q) - 1
                /\ \A j \in 1 .. Len(q) - 1 :
                      r[j] = IF j < i THEN q[j] ELSE q[j+1]
    BY <1>2, <1>4, <1>5, <2>2
  <2> QED BY <1>1, <2>1, <2>2, WithoutFacts

(* release: if the user had the word they are out of the floor.            *)
LEMMA ReleaseFacts ==
    ASSUME NEW f \in Floors, OnceInFloor(f), NEW u
    PROVE  /\ Release(f, u) \in Floors
           /\ OnceInFloor(Release(f, u))
           /\ Entries(Release(f, u)) \subseteq Entries(f)
           /\ ~IsSpeaker(Release(f, u), u)
<1>1. CASE IsSpeaker(f, u)
  <2>1. Release(f, u) = Promote(f) /\ f.current # None /\ UserOf[f.current] = u
    BY <1>1 DEF Release, IsSpeaker
  <2>2. IsSpeaker(Promote(f), u) => Promote(f).current \in Entries(Promote(f))
    BY DEF IsSpeaker, Entries
  <2> QED BY <2>1, <2>2, PromoteFacts DEF IsSpeaker
<1>2. CASE ~IsSpeaker(f, u)
  BY <1>2 DEF Release
<1> QED BY <1>1, <1>2

(* handleDisconnect: the user is nowhere in the floor any more.            *)
LEMMA DropFacts ==
    ASSUME NEW f \in Floors, OnceInFloor(f), NEW u
    PROVE  /\ Drop(f, u) \in Floors
           /\ OnceInFloor(Drop(f, u))
           /\ Entries(Drop(f, u)) \subseteq Entries(f)
           /\ \A e \in Entries(Drop(f, u)) : UserOf[e] # u
<1>1. CASE IsSpeaker(f, u)
  BY <1>1, PromoteFacts DEF Drop, IsSpeaker
<1>2. CASE ~IsSpeaker(f, u)
  <2>1. Drop(f, u) = Cancel(f, u)
    BY <1>2 DEF Drop
  <2>2. ASSUME NEW e \in Entries(Cancel(f, u)) PROVE UserOf[e] # u
    <3>1. CASE e = f.current /\ e # None
      BY <1>2, <3>1 DEF IsSpeaker
    <3>2. CASE \E i \in DOMAIN Cancel(f, u).queue : e = Cancel(f, u).queue[i]
      BY <3>2, CancelFacts DEF Waits, Places
    <3> QED BY <3>1, <3>2, CancelFacts DEF Entries
  <2> QED BY <2>1, <2>2, CancelFacts
<1> QED BY <1>1, <1>2

(* request: the socket that asks is the only entry that can be new.        *)
LEMMA RequestFacts ==
    ASSUME NEW f \in Floors, OnceInFloor(f), NEW s \in Sockets
    PROVE  /\ Request(f, s) \in Floors
           /\ OnceInFloor(Request(f, s))
           /\ Entries(Request(f, s)) \subseteq Entries(f) \cup {s}
           /\ Request(f, s).current \in {s, f.current}
<1> DEFINE u == UserOf[s]
           q == f.queue
           g == Request(f, s)
<1> USE DEF Floors
<1>1. q \in Seq(Sockets) /\ Len(q) \in Nat /\ DOMAIN q = 1 .. Len(q)
  BY LenProperties
<1>2. CASE f.current = None \/ IsSpeaker(f, u)
  <2>1. g.current = s /\ g.queue = q /\ g \in Floors
    BY <1>2 DEF Request
  <2>2. s # None
    BY NoneAssumption
  <2>3. \A i \in DOMAIN q : UserOf[q[i]] # UserOf[s]
    BY <1>2, EmptySeq DEF OnceInFloor, IsSpeaker, SpeakerOf
  <2> HIDE DEF g
  <2>4. OnceInFloor(g) /\ Entries(g) \subseteq Entries(f) \cup {s}
    BY <2>1, <2>2, <2>3 DEF OnceInFloor, SpeakerOf, Entries
  <2> QED BY <2>1, <2>4 DEF g
<1>3. CASE ~(f.current = None \/ IsSpeaker(f, u)) /\ Waits(f, u)
  <2> DEFINE r == [i \in DOMAIN q |-> IF i \in Places(q, u) THEN s ELSE q[i]]
  <2>1. g = [f EXCEPT !.queue = r]
    BY <1>3 DEF Request
  <2>2. \A i \in 1 .. Len(q) : r[i] \in Sockets
    BY <1>1, ElementOfSeq
  <2>3. r \in Seq(Sockets)
    BY <1>1, <2>2, IsASeq
  <2>4. g.current = f.current /\ g.queue = r /\ g \in Floors
    BY <2>1, <2>3
  <2>5. \A i \in DOMAIN r : i \in DOMAIN q /\ UserOf[r[i]] = UserOf[q[i]]
                            /\ r[i] \in {s, q[i]}
    BY DEF Places
  <2>6. DOMAIN r = DOMAIN q
    OBVIOUS
  <2> HIDE DEF g, r
  <2>7. OnceInFloor(g)
    <3>1. SpeakerOf(g) = SpeakerOf(f) /\ f.current # None
      BY <1>3, <2>4 DEF SpeakerOf
    <3> QED BY <2>4, <2>5, <2>6, <3>1 DEF OnceInFloor
  <2>8. Entries(g) \subseteq Entries(f) \cup {s}
    BY <2>4, <2>5, <2>6 DEF Entries
  <2> QED BY <2>4, <2>7, <2>8 DEF g
<1>4. CASE ~(f.current = None \/ IsSpeaker(f, u)) /\ ~Waits(f, u)
  <2> DEFINE r == Append(q, s)
  <2>1. g.current = f.current /\ g.queue = r /\ r \in Seq(Sockets) /\ g \in Floors
    BY <1>1, <1>4, AppendProperties DEF Request
  <2>2. /\ DOMAIN r = 1 .. Len(q) + 1
        /\ \A i \in 1 .. Len(q) : r[i] = q[i]
        /\ r[Len(q)+1] = s
    BY <1>1, AppendProperties, LenProperties
  <2>3. \A i \in DOMAIN q : UserOf[q[i]] # UserOf[s]
    BY <1>4 DEF Waits, Places
  <2>4. SpeakerOf(g) = SpeakerOf(f) /\ f.current # None /\ UserOf[s] # SpeakerOf(f)
    BY <1>4, <2>1 DEF SpeakerOf, IsSpeaker
  <2>5. \A i \in DOMAIN r : (i = Len(q) + 1 /\ r[i] = s) \/ (i \in DOMAIN q /\ r[i] = q[i])
    BY <1>1, <2>2
  <2> HIDE DEF g, r
  <2>6. OnceInFloor(g)
    <3>1. ASSUME NEW i \in DOMAIN r, NEW j \in DOMAIN r, UserOf[r[i]] = UserOf[r[j]]
          PROVE  i = j
      BY <2>3, <2>5, <3>1 DEF OnceInFloor
    <3>2. \A i \in DOMAIN r : UserOf[r[i]] # SpeakerOf(g)
      BY <2>4, <2>5 DEF OnceInFloor
    <3> QED BY <2>1, <2>4, <3>1, <3>2 DEF OnceInFloor
  <2>7. Entries(g) \subseteq Entries(f) \cup {s}
    BY <2>1, <2>5 DEF Entries
  <2> QED BY <2>1, <2>6, <2>7 DEF g
<1> QED
  BY <1>2, <1>3, <1>4

-----------------------------------------------------------------------------

FloorInv == TypeOK /\ FloorWellFormed /\ EntriesOnline

LEMMA FloorInvInit == Init => FloorInv
<1> SUFFICES ASSUME Init PROVE FloorInv
  OBVIOUS
<1>1. /\ FreeFloor \in Floors
      /\ OnceInFloor(FreeFloor)
      /\ Entries(FreeFloor) = {}
  BY EmptySeq DEF FreeFloor, Floors, OnceInFloor, Entries, SpeakerOf
<1>2. TypeOK
  BY <1>1 DEF TypeOK, Init, Idle
<1>3. FloorWellFormed /\ EntriesOnline
  BY <1>1 DEF Init, FloorWellFormed, EntriesOnline
<1> QED
  BY <1>2, <1>3 DEF FloorInv

(* A step that gives one channel a well-formed floor of online sockets,    *)
(* and takes nobody offline, keeps the invariant.                          *)
LEMMA OneFloorStep ==
    ASSUME FloorInv, NEW c \in Channels, NEW f \in Floors,
           floor' = [floor EXCEPT ![c] = f], OnceInFloor(f),
           \A e \in Entries(f) : Online(e),
           \A s \in Sockets : Online(s) => Online(s)', TypeOK'
    PROVE  FloorInv'
<1>1. \A d \in Channels : floor'[d] = IF d = c THEN f ELSE floor[d]
  BY DEF FloorInv, TypeOK
<1>2. \A d \in Channels : Entries(floor[d]) \subseteq Sockets
  <2> SUFFICES ASSUME NEW d \in Channels PROVE Entries(floor[d]) \subseteq Sockets
    OBVIOUS
  <2>1. floor[d] \in Floors
    BY DEF FloorInv, TypeOK
  <2> QED BY <2>1, ElementOfSeq, LenProperties DEF Floors, Entries
<1>3. Entries(f) \subseteq Sockets
  BY ElementOfSeq, LenProperties DEF Floors, Entries
<1>4. FloorWellFormed'
  BY <1>1 DEF FloorInv, FloorWellFormed
<1>5. EntriesOnline'
  <2> SUFFICES ASSUME NEW d \in Channels, NEW e \in Entries(floor'[d])
               PROVE  Online(e)'
    BY DEF EntriesOnline
  <2> QED BY <1>1, <1>2, <1>3 DEF FloorInv, EntriesOnline
<1> QED
  BY <1>4, <1>5 DEF FloorInv

LEMMA FloorInvNext == FloorInv /\ [Next]_vars => FloorInv'
<1> SUFFICES ASSUME FloorInv, [Next]_vars PROVE FloorInv'
  OBVIOUS
<1> USE DEF FloorInv
<1>0. /\ \A c \in Channels : floor[c] \in Floors /\ OnceInFloor(floor[c])
      /\ \A c \in Channels : \A e \in Entries(floor[c]) : Online(e)
      /\ \A s \in Sockets : UserOf[s] \in Users
  BY UserOfAssumption DEF TypeOK, FloorWellFormed, EntriesOnline
<1>s. \A f \in Floors : /\ f.current \in Sockets \cup {None}
                        /\ SpeakerOf(f) \in Users \cup {None}
  BY <1>0 DEF Floors, SpeakerOf
<1>c. None \notin Channels
  BY ChannelsAssumption
<1>1. ASSUME NEW s \in Sockets, Connect(s) PROVE FloorInv'
  BY <1>1, <1>0 DEF Connect, TypeOK, FloorWellFormed, EntriesOnline, Online
<1>2. ASSUME NEW s \in Sockets, NEW c \in Channels, Join(s, c) PROVE FloorInv'
  BY <1>2 DEF Join, TypeOK, FloorWellFormed, EntriesOnline, Online
<1>3. ASSUME NEW s \in Sockets, NEW c \in Channels, Leave(s, c) PROVE FloorInv'
  <2> DEFINE u == UserOf[s]
             after == Cancel(Release(floor[c], u), u)
  <2>1. /\ Release(floor[c], u) \in Floors
        /\ OnceInFloor(Release(floor[c], u))
        /\ Entries(Release(floor[c], u)) \subseteq Entries(floor[c])
    BY <1>0, ReleaseFacts
  <2>2. /\ after \in Floors
        /\ OnceInFloor(after)
        /\ Entries(after) \subseteq Entries(floor[c])
    BY <2>1, CancelFacts
  <2> HIDE DEF after
  <2>3. floor' = [floor EXCEPT ![c] = after]
    BY <1>3 DEF Leave, HandOver, after
  <2>4. TypeOK'
    BY <1>3, <1>s, <2>2 DEF Leave, HandOver, after, TypeOK
  <2>5. \A e \in Entries(after) : Online(e)
    BY <1>0, <2>2
  <2>6. conn' = conn
    BY <1>3 DEF Leave
  <2> QED BY <2>2, <2>3, <2>4, <2>5, <2>6, OneFloorStep DEF Online
<1>4. ASSUME NEW s \in Sockets, NEW c \in Channels, RequestFloor(s, c)
      PROVE  FloorInv'
  <2> DEFINE after == Request(floor[c], s)
  <2>1. /\ after \in Floors
        /\ OnceInFloor(after)
        /\ Entries(after) \subseteq Entries(floor[c]) \cup {s}
    BY <1>0, RequestFacts
  <2> HIDE DEF after
  <2>2. floor' = [floor EXCEPT ![c] = after] /\ conn' = conn /\ Online(s)
    BY <1>4 DEF RequestFloor, HandOver, after
  <2>3. TypeOK'
    BY <1>4, <1>s, <2>1 DEF RequestFloor, HandOver, after, TypeOK
  <2> QED BY <1>0, <2>1, <2>2, <2>3, OneFloorStep DEF Online
<1>5. ASSUME NEW s \in Sockets, NEW c \in Channels, NEW after,
             after = Release(floor[c], UserOf[s]),
             floor' = [floor EXCEPT ![c] = after],
             conn' = conn, TypeOK'
      PROVE  FloorInv'
  <2>1. /\ after \in Floors
        /\ OnceInFloor(after)
        /\ Entries(after) \subseteq Entries(floor[c])
    BY <1>0, <1>5, ReleaseFacts
  <2> QED BY <1>0, <1>5, <2>1, OneFloorStep DEF Online
<1>6. ASSUME NEW s \in Sockets, NEW c \in Channels, PttReleasePrivate(s, c)
      PROVE  FloorInv'
  <2>1. Release(floor[c], UserOf[s]) \in Floors
    BY <1>0, ReleaseFacts
  <2>2. TypeOK'
    BY <1>6, <1>s, <2>1 DEF PttReleasePrivate, HandOver, TypeOK
  <2> QED BY <1>5, <1>6, <2>2 DEF PttReleasePrivate, HandOver
<1>7. ASSUME NEW s \in Sockets, NEW c \in Channels, PttReleaseStart(s, c)
      PROVE  FloorInv'
  <2>1. Release(floor[c], UserOf[s]) \in Floors
    BY <1>0, ReleaseFacts
  <2>2. TypeOK'
    BY <1>7, <1>s, <2>1 DEF PttReleaseStart, Awaits, TypeOK
  <2> QED BY <1>5, <1>7, <2>2 DEF PttReleaseStart
<1>8. ASSUME NEW r \in Releases, PttReleaseDone(r) PROVE FloorInv'
  <2>1. TypeOK'
    BY <1>8, <1>0, <1>c DEF PttReleaseDone, TypeOK, Idle
  <2> QED BY <1>8, <2>1 DEF PttReleaseDone, FloorWellFormed, EntriesOnline, Online
<1>9. ASSUME NEW r \in Releases, PttReleaseFails(r) PROVE FloorInv'
  BY <1>9 DEF PttReleaseFails, TypeOK, Idle, FloorWellFormed, EntriesOnline, Online
<1>10. ASSUME NEW s \in Sockets, NEW c \in Channels, PttCancel(s, c)
       PROVE  FloorInv'
  <2> DEFINE after == Cancel(floor[c], UserOf[s])
  <2>1. /\ after \in Floors
        /\ OnceInFloor(after)
        /\ Entries(after) \subseteq Entries(floor[c])
    BY <1>0, CancelFacts
  <2> HIDE DEF after
  <2>2. floor' = [floor EXCEPT ![c] = after] /\ conn' = conn
    BY <1>10 DEF PttCancel, after
  <2>3. TypeOK'
    BY <1>10, <2>1, <2>2 DEF PttCancel, TypeOK
  <2> QED BY <1>0, <2>1, <2>2, <2>3, OneFloorStep DEF Online
<1>11. ASSUME NEW s \in Sockets, Disconnect(s) PROVE FloorInv'
  <2> DEFINE u == UserOf[s]
             after == [c \in Channels |-> Drop(floor[c], u)]
  <2>1. ASSUME NEW c \in Channels
        PROVE  /\ after[c] \in Floors
               /\ OnceInFloor(after[c])
               /\ Entries(after[c]) \subseteq Entries(floor[c])
               /\ \A e \in Entries(after[c]) : UserOf[e] # u
    BY <1>0, DropFacts
  <2>2. floor' = after /\ conn' = [conn EXCEPT ![s] = "off"]
    BY <1>11 DEF Disconnect
  <2>d. DOMAIN after = Channels
    OBVIOUS
  <2> HIDE DEF after
  <2>3. TypeOK'
    <3>1. floor' \in [Channels -> Floors]
      BY <2>1, <2>2, <2>d DEF after
    <3>2. \A c \in Channels : /\ after[c].current \in Sockets \cup {None}
                              /\ SpeakerOf(after[c]) \in Users \cup {None}
      BY <1>s, <2>1
    <3>3. /\ told' \in [Channels -> Sockets \cup {None}]
          /\ announced' \in [Channels -> Users \cup {None}]
      BY <1>11, <3>2 DEF Disconnect, TypeOK, after
    <3> QED BY <1>11, <3>1, <3>3 DEF Disconnect, TypeOK
  <2>4. FloorWellFormed'
    BY <2>1, <2>2 DEF FloorWellFormed
  <2>5. EntriesOnline'
    <3> SUFFICES ASSUME NEW c \in Channels, NEW e \in Entries(after[c])
                 PROVE  Online(e)'
      BY <2>2 DEF EntriesOnline
    <3>1. Online(e) /\ e # s
      BY <1>0, <2>1
    <3> QED BY <2>2, <3>1 DEF Online, TypeOK
  <2> QED BY <2>3, <2>4, <2>5
<1>12. CASE UNCHANGED vars
  BY <1>12 DEF vars, TypeOK, FloorWellFormed, EntriesOnline, Online
<1> QED
  BY <1>1, <1>2, <1>3, <1>4, <1>6, <1>7, <1>8, <1>9, <1>10, <1>11, <1>12
     DEF Next, ChannelStep

(* Types of the floor's state. *)
THEOREM FloorTypes == Spec => []TypeOK
<1>1. FloorInv => TypeOK
  BY DEF FloorInv
<1> QED BY <1>1, FloorInvInit, FloorInvNext, PTL DEF Spec

(* Nobody is twice in the floor of a channel (FloorWellFormed), whatever   *)
(* sockets of theirs request, cancel, leave and disconnect.                *)
THEOREM FloorOnce == Spec => []FloorWellFormed
<1>1. FloorInv => FloorWellFormed
  BY DEF FloorInv
<1> QED BY <1>1, FloorInvInit, FloorInvNext, PTL DEF Spec

(* The word is never with, nor promised to, a socket that has gone.        *)
THEOREM FloorEntriesOnline == Spec => []EntriesOnline
<1>1. FloorInv => EntriesOnline
  BY DEF FloorInv
<1> QED BY <1>1, FloorInvInit, FloorInvNext, PTL DEF Spec

-----------------------------------------------------------------------------
(* A step after which every channel either has the speaker it had and the  *)
(* same notices (told, releases in flight), or has told its speaker.       *)
LEMMA ToldStep ==
    ASSUME SpeakerTold, UNCHANGED releasing,
           \A c \in Channels :
              \/ told'[c] = floor'[c].current
              \/ /\ floor'[c].current = floor[c].current
                 /\ told'[c] = told[c]
    PROVE  SpeakerTold'
  BY DEF SpeakerTold

(* The step of one channel that announces what it does.                    *)
LEMMA HandOverStep ==
    ASSUME TypeOK, NEW c \in Channels, NEW f, HandOver(c, f)
    PROVE  /\ floor'[c] = f /\ told'[c] = f.current
           /\ announced'[c] = SpeakerOf(f)
           /\ \A d \in Channels \ {c} : /\ floor'[d] = floor[d]
                                        /\ told'[d] = told[d]
                                        /\ announced'[d] = announced[d]
  BY DEF HandOver, TypeOK

(* What each step but the two halves of a public release does to who       *)
(* speaks and to who has been told: it tells the new speaker, and the      *)
(* channel, in the same step.                                              *)
Prompt ==
    /\ UNCHANGED releasing
    /\ \A c \in Channels :
          \/ /\ told'[c] = floor'[c].current
             /\ announced'[c] = SpeakerOf(floor'[c])
          \/ /\ floor'[c].current = floor[c].current
             /\ told'[c] = told[c]
             /\ announced'[c] = announced[c]

LEMMA PromptSteps ==
    ASSUME FloorInv, Next
    PROVE  \/ Prompt
           \/ \E r \in Releases : PttReleaseDone(r) \/ PttReleaseFails(r)
           \/ \E s \in Sockets, c \in Public : PttReleaseStart(s, c)
<1>0. /\ TypeOK
      /\ \A d \in Channels : floor[d] \in Floors /\ OnceInFloor(floor[d])
  BY DEF FloorInv, TypeOK, FloorWellFormed
<1>1. ASSUME NEW s \in Sockets, Connect(s) PROVE Prompt
  BY <1>1 DEF Connect, Prompt
<1>2. ASSUME NEW s \in Sockets, NEW c \in Channels, Join(s, c) PROVE Prompt
  BY <1>2 DEF Join, Prompt
<1>3. ASSUME NEW s \in Sockets, NEW c \in Channels, Leave(s, c) PROVE Prompt
  <2> DEFINE u == UserOf[s]
             after == Cancel(Release(floor[c], u), u)
  <2>1. CASE IsSpeaker(floor[c], u)
    BY <1>0, <1>3, <2>1, HandOverStep DEF Leave, Prompt
  <2>2. CASE ~IsSpeaker(floor[c], u)
    <3>1. after = Cancel(floor[c], u)
      BY <2>2 DEF Release
    <3>2. after.current = floor[c].current
      BY <1>0, <3>1, CancelFacts
    <3> HIDE DEF after
    <3>3. /\ floor' = [floor EXCEPT ![c] = after]
          /\ UNCHANGED <<told, announced, releasing>>
      BY <1>3, <2>2 DEF Leave, after
    <3> QED BY <1>0, <3>2, <3>3 DEF Prompt, TypeOK
  <2> QED BY <2>1, <2>2
<1>4. ASSUME NEW s \in Sockets, NEW c \in Channels, RequestFloor(s, c) PROVE Prompt
  <2> DEFINE after == Request(floor[c], s)
  <2>1. after.current \in {s, floor[c].current}
    BY <1>0, RequestFacts
  <2> HIDE DEF after
  <2>2. CASE after.current = s
    BY <1>0, <1>4, <2>2, HandOverStep DEF RequestFloor, Prompt, after
  <2>3. CASE after.current # s
    <3>1. /\ floor' = [floor EXCEPT ![c] = after]
          /\ UNCHANGED <<told, announced, releasing>>
      BY <1>4, <2>3 DEF RequestFloor, after
    <3> QED BY <1>0, <2>1, <2>3, <3>1 DEF Prompt, TypeOK
  <2> QED BY <2>2, <2>3
<1>5. ASSUME NEW s \in Sockets, NEW c \in Channels, PttReleasePrivate(s, c) PROVE Prompt
  BY <1>0, <1>5, HandOverStep DEF PttReleasePrivate, Prompt
<1>6. ASSUME NEW s \in Sockets, NEW c \in Channels, PttCancel(s, c) PROVE Prompt
  <2>1. Cancel(floor[c], UserOf[s]).current = floor[c].current
    BY <1>0, CancelFacts
  <2> QED BY <1>0, <1>6, <2>1 DEF PttCancel, Prompt, TypeOK
<1>7. ASSUME NEW s \in Sockets, Disconnect(s) PROVE Prompt
  <2> SUFFICES ASSUME NEW d \in Channels
               PROVE  \/ /\ told'[d] = floor'[d].current
                         /\ announced'[d] = SpeakerOf(floor'[d])
                      \/ /\ floor'[d].current = floor[d].current
                         /\ told'[d] = told[d]
                         /\ announced'[d] = announced[d]
    BY <1>7 DEF Disconnect, Prompt
  <2>1. floor'[d] = Drop(floor[d], UserOf[s])
    BY <1>7 DEF Disconnect
  <2>2. CASE IsSpeaker(floor[d], UserOf[s])
    BY <1>7, <2>2 DEF Disconnect
  <2>3. CASE ~IsSpeaker(floor[d], UserOf[s])
    <3>1. floor'[d].current = floor[d].current
      BY <1>0, <2>1, <2>3, CancelFacts DEF Drop
    <3>2. told'[d] = told[d] /\ announced'[d] = announced[d]
      BY <1>7, <2>3 DEF Disconnect
    <3> QED BY <3>1, <3>2
  <2> QED BY <2>2, <2>3
<1> QED
  BY <1>1, <1>2, <1>3, <1>4, <1>5, <1>6, <1>7 DEF Next, ChannelStep,
     PttReleaseStart

LEMMA SpeakerToldNext ==
    ASSUME ~DbMayFail, FloorInv, SpeakerTold, [Next]_vars
    PROVE  SpeakerTold'
<1>0. TypeOK /\ None \notin Channels
  BY ChannelsAssumption DEF FloorInv
<1>1. ASSUME Prompt PROVE SpeakerTold'
  BY <1>1, ToldStep DEF Prompt
<1>2. ASSUME NEW s \in Sockets, NEW c \in Channels, PttReleaseStart(s, c)
      PROVE  SpeakerTold'
  <2> DEFINE after == Release(floor[c], UserOf[s])
  <2> SUFFICES ASSUME NEW d \in Channels, floor'[d].current # None
               PROVE  \/ told'[d] = floor'[d].current
                      \/ \E w \in Releases :
                            releasing'[w] = [chan |-> d, next |-> floor'[d].current]
    BY DEF SpeakerTold
  <2> HIDE DEF after
  <2> PICK r \in Releases :
         /\ releasing[r] = Idle
         /\ releasing' = [releasing EXCEPT ![r] =
                             [chan |-> c, next |-> after.current]]
    BY <1>2 DEF PttReleaseStart, Awaits, after
  <2>1. /\ floor' = [floor EXCEPT ![c] = after]
        /\ told' = [told EXCEPT ![c] = None]
        /\ releasing[r].chan = None
    BY <1>2 DEF PttReleaseStart, after, Idle
  <2>2. CASE d = c
    BY <1>0, <2>1, <2>2 DEF TypeOK
  <2>3. CASE d # c
    <3>1. floor'[d] = floor[d] /\ told'[d] = told[d]
      BY <1>0, <2>1, <2>3 DEF TypeOK
    <3>2. \A w \in Releases :
             releasing[w].chan = d => releasing'[w] = releasing[w]
      BY <1>0, <2>1 DEF TypeOK
    <3> QED BY <3>1, <3>2 DEF SpeakerTold
  <2> QED BY <2>2, <2>3
<1>3. ASSUME NEW r \in Releases, PttReleaseDone(r) PROVE SpeakerTold'
  <2> DEFINE c == releasing[r].chan
             next == releasing[r].next
  <2> SUFFICES ASSUME NEW d \in Channels, floor[d].current # None
               PROVE  \/ told'[d] = floor[d].current
                      \/ \E w \in Releases :
                            releasing'[w] = [chan |-> d, next |-> floor[d].current]
    BY <1>3 DEF SpeakerTold, PttReleaseDone
  <2>1. /\ c \in Channels
        /\ \A w \in Releases \ {r} : releasing'[w] = releasing[w]
        /\ told'[d] = IF d = c /\ next # None /\ floor[d].current = next
                      THEN next ELSE told[d]
    <3>1. c \in Public /\ c \in Channels
      BY <1>0, <1>3 DEF PttReleaseDone, TypeOK, Channels
    <3> QED BY <1>0, <1>3, <3>1 DEF PttReleaseDone, TypeOK
  <2>2. CASE told[d] = floor[d].current
    BY <2>1, <2>2
  <2>3. ASSUME NEW w \in Releases \ {r},
               releasing[w] = [chan |-> d, next |-> floor[d].current]
        PROVE  releasing'[w] = [chan |-> d, next |-> floor[d].current]
    BY <2>1, <2>3
  <2>4. CASE releasing[r] = [chan |-> d, next |-> floor[d].current]
    BY <2>1, <2>4
  <2> QED BY <2>2, <2>3, <2>4 DEF SpeakerTold
<1>4. ASSUME NEW r \in Releases PROVE ~PttReleaseFails(r)
  BY DEF PttReleaseFails
<1>5. CASE UNCHANGED vars
  BY <1>5 DEF vars, SpeakerTold
<1> QED
  BY <1>1, <1>2, <1>3, <1>4, <1>5, PromptSteps DEF Channels

(* As long as the database takes the record of every transmission, nobody  *)
(* has the word without having been told or about to be.                   *)
THEOREM SpeakersAreTold == ASSUME ~DbMayFail PROVE Spec => []SpeakerTold
<1>1. Init => SpeakerTold
  BY DEF Init, SpeakerTold, FreeFloor
<1>2. FloorInv /\ SpeakerTold /\ [Next]_vars => SpeakerTold'
  BY SpeakerToldNext
<1> QED BY <1>1, <1>2, FloorInvInit, FloorInvNext, PTL DEF Spec

(* In a private conversation every change of speaker is announced with it. *)
THEOREM PrivateIsAnnounced == Spec => []PrivateAnnounced
<1>1. Init => PrivateAnnounced
  BY DEF Init, PrivateAnnounced, FreeFloor, SpeakerOf, Channels
<1>2. ASSUME FloorInv, PrivateAnnounced, [Next]_vars PROVE PrivateAnnounced'
  <2>0. /\ TypeOK /\ Private \subseteq Channels
        /\ Public \cap Private = {}
    BY <1>2, ChannelsAssumption DEF FloorInv, Channels
  <2>1. ASSUME Prompt PROVE PrivateAnnounced'
    BY <1>2, <2>0, <2>1 DEF Prompt, PrivateAnnounced, SpeakerOf
  <2>2. ASSUME NEW s \in Sockets, NEW c \in Channels, PttReleaseStart(s, c)
        PROVE  PrivateAnnounced'
    <3>1. \A d \in Private : floor'[d] = floor[d]
      BY <2>0, <2>2 DEF PttReleaseStart, TypeOK
    <3> QED BY <1>2, <2>2, <3>1 DEF PttReleaseStart, PrivateAnnounced
  <2>3. ASSUME NEW r \in Releases, PttReleaseDone(r) PROVE PrivateAnnounced'
    <3>1. \A d \in Private : announced'[d] = announced[d]
      BY <2>0, <2>3 DEF PttReleaseDone, TypeOK
    <3> QED BY <1>2, <2>3, <3>1 DEF PttReleaseDone, PrivateAnnounced
  <2>4. ASSUME NEW r \in Releases, PttReleaseFails(r) PROVE PrivateAnnounced'
    BY <1>2, <2>4 DEF PttReleaseFails, PrivateAnnounced
  <2>5. CASE UNCHANGED vars
    BY <1>2, <2>5 DEF vars, PrivateAnnounced
  <2> QED
    BY <1>2, <2>1, <2>2, <2>3, <2>4, <2>5, PromptSteps DEF Channels
<1> QED BY <1>1, <1>2, FloorInvInit, FloorInvNext, PTL DEF Spec

-----------------------------------------------------------------------------
(* RadioFloor implements TurnQueue: each operation on the floor of a       *)
(* channel is one step, or none, of its line of people.                    *)

LEMMA QueueUsersType ==
    ASSUME NEW f \in Floors
    PROVE  /\ QueueUsers(f) \in Seq(Users)
           /\ Len(QueueUsers(f)) = Len(f.queue)
           /\ Len(f.queue) \in Nat
           /\ DOMAIN f.queue = 1 .. Len(f.queue)
           /\ DOMAIN QueueUsers(f) = 1 .. Len(f.queue)
           /\ \A i \in 1 .. Len(f.queue) : QueueUsers(f)[i] = UserOf[f.queue[i]]
<1>1. f.queue \in Seq(Sockets)
  BY DEF Floors
<1>2. Len(f.queue) \in Nat /\ DOMAIN f.queue = 1 .. Len(f.queue)
  BY <1>1, LenProperties
<1>3. \A i \in 1 .. Len(f.queue) : UserOf[f.queue[i]] \in Users
  BY <1>1, ElementOfSeq, UserOfAssumption
<1>4. [i \in 1 .. Len(f.queue) |-> UserOf[f.queue[i]]] \in Seq(Users)
  BY <1>2, <1>3, IsASeq
<1> QED
  BY <1>2, <1>4, LenProperties DEF QueueUsers

LEMMA PromoteIsPass ==
    ASSUME NEW f \in Floors, OnceInFloor(f)
    PROVE  IF QueueUsers(f) = <<>>
           THEN SpeakerOf(Promote(f)) = None /\ QueueUsers(Promote(f)) = <<>>
           ELSE /\ SpeakerOf(Promote(f)) = Head(QueueUsers(f))
                /\ QueueUsers(Promote(f)) = Tail(QueueUsers(f))
<1> DEFINE g == Promote(f)
<1>1. f.queue \in Seq(Sockets) /\ g \in Floors
  BY PromoteFacts DEF Floors
<1>2. CASE f.queue = <<>>
  <2>1. g.current = None /\ g.queue = <<>>
    BY <1>2 DEF Promote, FreeFloor
  <2>2. QueueUsers(f) = <<>> /\ QueueUsers(g) = <<>>
    BY <1>1, <1>2, <2>1, QueueUsersType, EmptySeq, SeqEqual
  <2> QED BY <2>1, <2>2 DEF SpeakerOf
<1>3. CASE f.queue # <<>>
  <2> DEFINE w == QueueUsers(f)
  <2>1. g.current = Head(f.queue) /\ g.queue = Tail(f.queue)
    BY <1>3 DEF Promote
  <2>2. w # <<>> /\ w \in Seq(Users) /\ Len(f.queue) \in Nat \ {0}
    BY <1>1, <1>3, QueueUsersType, EmptySeq
  <2>3. /\ Head(f.queue) = f.queue[1] /\ Head(f.queue) # None
        /\ Len(Tail(f.queue)) = Len(f.queue) - 1
        /\ \A i \in 1 .. Len(f.queue) - 1 : Tail(f.queue)[i] = f.queue[i+1]
    BY <1>1, <1>3, HeadTailProperties, NoneAssumption
  <2>4. SpeakerOf(g) = w[1]
    BY <2>1, <2>2, <2>3, QueueUsersType DEF SpeakerOf
  <2>5. /\ Head(w) = w[1] /\ Tail(w) \in Seq(Users)
        /\ Len(Tail(w)) = Len(f.queue) - 1
        /\ \A i \in 1 .. Len(f.queue) - 1 : Tail(w)[i] = w[i+1]
    BY <2>2, QueueUsersType, HeadTailProperties
  <2>6. /\ QueueUsers(g) \in Seq(Users)
        /\ Len(QueueUsers(g)) = Len(f.queue) - 1
        /\ \A i \in 1 .. Len(f.queue) - 1 : QueueUsers(g)[i] = Tail(w)[i]
    <3>1. /\ QueueUsers(g) \in Seq(Users)
          /\ Len(QueueUsers(g)) = Len(g.queue)
          /\ \A i \in 1 .. Len(g.queue) : QueueUsers(g)[i] = UserOf[g.queue[i]]
      BY <1>1, QueueUsersType
    <3>2. \A i \in 1 .. Len(f.queue) - 1 : w[i+1] = UserOf[f.queue[i+1]]
      BY <2>2, QueueUsersType
    <3> HIDE DEF w, g
    <3> QED BY <2>1, <2>2, <2>3, <2>5, <3>1, <3>2
  <2> HIDE DEF w, g
  <2>7. QueueUsers(g) = Tail(w)
    BY <2>5, <2>6, SeqEqual
  <2> QED BY <2>2, <2>4, <2>5, <2>7 DEF w, g
<1> QED
  BY <1>2, <1>3

LEMMA CancelIsWithdraw ==
    ASSUME NEW f \in Floors, OnceInFloor(f), NEW u
    PROVE  /\ SpeakerOf(Cancel(f, u)) = SpeakerOf(f)
           /\ \/ QueueUsers(Cancel(f, u)) = QueueUsers(f)
              \/ \E i \in DOMAIN QueueUsers(f) :
                    QueueUsers(Cancel(f, u)) = RemoveAt(QueueUsers(f), i)
<1> DEFINE g == Cancel(f, u)
           r == Without(f.queue, u)
           w == QueueUsers(f)
<1>1. f.queue \in Seq(Sockets) /\ g \in Floors /\ g.current = f.current
  BY CancelFacts DEF Floors
<1>2. g.queue = r
  BY DEF Cancel, Floors
<1>3. SpeakerOf(g) = SpeakerOf(f)
  BY <1>1 DEF SpeakerOf
<1>4. CASE r = f.queue
  BY <1>2, <1>3, <1>4 DEF QueueUsers
<1>5. ASSUME NEW i \in Places(f.queue, u), Len(r) = Len(f.queue) - 1,
             \A j \in 1 .. Len(f.queue) - 1 :
                r[j] = IF j < i THEN f.queue[j] ELSE f.queue[j+1]
      PROVE  i \in DOMAIN w /\ QueueUsers(g) = RemoveAt(w, i)
  <2>1. /\ i \in 1 .. Len(f.queue) /\ Len(f.queue) \in Nat
        /\ DOMAIN w = 1 .. Len(f.queue)
        /\ w \in Seq(Users) /\ Len(w) = Len(f.queue)
        /\ \A j \in 1 .. Len(f.queue) : w[j] = UserOf[f.queue[j]]
    BY <1>1, QueueUsersType DEF Places
  <2>2. /\ RemoveAt(w, i) \in Seq(Users)
        /\ Len(RemoveAt(w, i)) = Len(f.queue) - 1
        /\ \A j \in 1 .. Len(f.queue) - 1 :
              RemoveAt(w, i)[j] = IF j < i THEN w[j] ELSE w[j+1]
    <3> HIDE DEF w
    <3>1. w \in Seq(Users) /\ i \in 1 .. Len(w)
      BY <2>1
    <3>2. /\ RemoveAt(w, i) \in Seq(Users)
          /\ Len(RemoveAt(w, i)) = Len(w) - 1
          /\ \A j \in 1 .. Len(w) - 1 :
                RemoveAt(w, i)[j] = IF j < i THEN w[j] ELSE w[j+1]
      BY <3>1, RemoveAtFacts
    <3> QED BY <2>1, <3>2
  <2>3. /\ QueueUsers(g) \in Seq(Users)
        /\ Len(QueueUsers(g)) = Len(f.queue) - 1
        /\ \A j \in 1 .. Len(f.queue) - 1 : QueueUsers(g)[j] = UserOf[r[j]]
    BY <1>1, <1>2, <1>5, QueueUsersType
  <2> HIDE DEF w, g, r
  <2>4. \A j \in 1 .. Len(f.queue) - 1 : QueueUsers(g)[j] = RemoveAt(w, i)[j]
    BY <1>5, <2>1, <2>2, <2>3
  <2> QED BY <2>1, <2>2, <2>3, <2>4, SeqEqual
<1> QED
  BY <1>1, <1>3, <1>4, <1>5, WithoutFacts

LEMMA RequestIsTakeOrLine ==
    ASSUME NEW f \in Floors, OnceInFloor(f), NEW s \in Sockets
    PROVE  LET g == Request(f, s)
               u == UserOf[s]
           IN  \/ SpeakerOf(g) = SpeakerOf(f) /\ QueueUsers(g) = QueueUsers(f)
               \/ /\ SpeakerOf(f) = None /\ QueueUsers(f) = <<>>
                  /\ SpeakerOf(g) = u /\ QueueUsers(g) = QueueUsers(f)
               \/ /\ SpeakerOf(f) \notin {None, u}
                  /\ \A i \in DOMAIN QueueUsers(f) : QueueUsers(f)[i] # u
                  /\ SpeakerOf(g) = SpeakerOf(f)
                  /\ QueueUsers(g) = Append(QueueUsers(f), u)
<1> DEFINE g == Request(f, s)
           u == UserOf[s]
           w == QueueUsers(f)
<1>0. /\ f.queue \in Seq(Sockets) /\ g \in Floors /\ u \in Users
      /\ s # None /\ u # None
      /\ f.current # None => f.current \in Sockets
  BY RequestFacts, UserOfAssumption, NoneAssumption DEF Floors
<1>1. CASE f.current = None
  <2>1. g.current = s /\ g.queue = f.queue /\ f.queue = <<>>
    BY <1>1 DEF Request, Floors, OnceInFloor
  <2>2. w = <<>>
    BY <1>0, <2>1, QueueUsersType, EmptySeq, SeqEqual
  <2> QED BY <1>0, <1>1, <2>1, <2>2 DEF SpeakerOf, QueueUsers
<1>2. CASE IsSpeaker(f, u)
  <2>1. g.current = s /\ g.queue = f.queue
    BY <1>2 DEF Request, Floors
  <2> QED BY <1>0, <1>2, <2>1 DEF SpeakerOf, QueueUsers, IsSpeaker
<1>3. CASE ~(f.current = None \/ IsSpeaker(f, u)) /\ Waits(f, u)
  <2> DEFINE r == [i \in DOMAIN f.queue |->
                     IF i \in Places(f.queue, u) THEN s ELSE f.queue[i]]
  <2>1. g = [f EXCEPT !.queue = r]
    BY <1>3 DEF Request
  <2>2. g.current = f.current /\ g.queue = r
    BY <2>1 DEF Floors
  <2>3. DOMAIN r = DOMAIN f.queue
        /\ \A i \in DOMAIN f.queue : UserOf[r[i]] = UserOf[f.queue[i]]
    BY DEF Places
  <2> HIDE DEF g, r
  <2>4. QueueUsers(g) = QueueUsers(f)
    BY <2>2, <2>3 DEF QueueUsers
  <2> QED BY <2>2, <2>4 DEF SpeakerOf, g
<1>4. CASE ~(f.current = None \/ IsSpeaker(f, u)) /\ ~Waits(f, u)
  <2>1. g.current = f.current /\ g.queue = Append(f.queue, s)
    BY <1>4 DEF Request, Floors
  <2>2. SpeakerOf(g) = SpeakerOf(f) /\ SpeakerOf(f) # u /\ SpeakerOf(f) # None
    BY <1>0, <1>4, <2>1, UserOfAssumption, NoneAssumption DEF SpeakerOf, IsSpeaker
  <2>3. /\ w \in Seq(Users) /\ Len(w) = Len(f.queue) /\ Len(f.queue) \in Nat
        /\ DOMAIN w = 1 .. Len(f.queue) /\ DOMAIN f.queue = 1 .. Len(f.queue)
        /\ \A i \in 1 .. Len(f.queue) : w[i] = UserOf[f.queue[i]]
    BY QueueUsersType
  <2>4. \A i \in DOMAIN w : w[i] # u
    BY <1>4, <2>3 DEF Waits, Places
  <2>5. /\ Len(g.queue) = Len(f.queue) + 1
        /\ \A i \in 1 .. Len(f.queue) : g.queue[i] = f.queue[i]
        /\ g.queue[Len(f.queue) + 1] = s
    BY <1>0, <2>1, AppendProperties
  <2>6. /\ QueueUsers(g) \in Seq(Users)
        /\ Len(QueueUsers(g)) = Len(f.queue) + 1
        /\ \A i \in 1 .. Len(f.queue) + 1 : QueueUsers(g)[i] = UserOf[g.queue[i]]
    BY <1>0, <2>5, QueueUsersType
  <2>7. /\ Append(w, u) \in Seq(Users)
        /\ Len(Append(w, u)) = Len(f.queue) + 1
        /\ \A i \in 1 .. Len(f.queue) : Append(w, u)[i] = w[i]
        /\ Append(w, u)[Len(f.queue) + 1] = u
    BY <1>0, <2>3, AppendProperties
  <2> HIDE DEF g, w, u
  <2>8. \A i \in 1 .. Len(f.queue) + 1 : QueueUsers(g)[i] = Append(w, u)[i]
    BY <2>3, <2>5, <2>6, <2>7 DEF u
  <2>9. QueueUsers(g) = Append(w, u)
    BY <2>6, <2>7, <2>8, SeqEqual
  <2> QED BY <2>2, <2>4, <2>9 DEF g, w, u
<1> QED
  BY <1>1, <1>2, <1>3, <1>4

(* One channel's floor goes from floor[d] to floor'[d] by one operation.   *)
LEMMA TurnStep ==
    ASSUME FloorInv, NEW d \in Channels,
           \/ floor'[d] = floor[d]
           \/ floor[d].current # None /\ floor'[d] = Promote(floor[d])
           \/ \E u \in Users : floor'[d] = Cancel(floor[d], u)
           \/ \E s \in Sockets : floor'[d] = Request(floor[d], s)
    PROVE  \/ Turns!Stay(d)
           \/ Turns!Pass(d)
           \/ Turns!Withdraw(d)
           \/ \E u \in Users : Turns!Take(d, u) \/ Turns!Line(d, u)
<1>0. floor[d] \in Floors /\ OnceInFloor(floor[d])
  BY DEF FloorInv, TypeOK, FloorWellFormed
<1> DEFINE f == floor[d]
           g == floor'[d]
           w == QueueUsers(f)
<1>s. Turns!Stay(d) <=> SpeakerOf(g) = SpeakerOf(f) /\ QueueUsers(g) = w
  BY DEF Turns!Stay
<1>p. Turns!Pass(d) <=>
         /\ SpeakerOf(f) # None
         /\ \/ w = <<>> /\ SpeakerOf(g) = None /\ QueueUsers(g) = <<>>
            \/ /\ w # <<>>
               /\ SpeakerOf(g) = Head(w) /\ QueueUsers(g) = Tail(w)
  BY DEF Turns!Pass
<1>w. Turns!Withdraw(d) <=>
         /\ SpeakerOf(g) = SpeakerOf(f)
         /\ \E i \in DOMAIN w : QueueUsers(g) = RemoveAt(w, i)
  BY DEF Turns!Withdraw, Turns!RemoveAt, RemoveAt
<1>t. ASSUME NEW u
      PROVE  Turns!Take(d, u) <=>
                /\ SpeakerOf(f) = None /\ w = <<>>
                /\ SpeakerOf(g) = u /\ QueueUsers(g) = w
  BY DEF Turns!Take
<1>l. ASSUME NEW u
      PROVE  Turns!Line(d, u) <=>
                /\ SpeakerOf(f) \notin {None, u}
                /\ \A i \in DOMAIN w : w[i] # u
                /\ SpeakerOf(g) = SpeakerOf(f)
                /\ QueueUsers(g) = Append(w, u)
  BY DEF Turns!Line, Turns!InLine
<1>1. CASE g = f
  BY <1>1, <1>s
<1>2. CASE f.current # None /\ g = Promote(f)
  <2>1. SpeakerOf(f) # None
    BY <1>0, <1>2, NoneAssumption, UserOfAssumption DEF SpeakerOf, Floors
  <2> HIDE DEF f, g, w
  <2> QED BY <1>0, <1>2, <1>p, <2>1, PromoteIsPass DEF f, w
<1>3. ASSUME NEW u \in Users, g = Cancel(f, u)
      PROVE  Turns!Stay(d) \/ Turns!Withdraw(d)
  <2> HIDE DEF g
  <2> QED BY <1>0, <1>3, <1>s, <1>w, CancelIsWithdraw
<1>4. ASSUME NEW s \in Sockets, g = Request(f, s)
      PROVE  \/ Turns!Stay(d)
             \/ \E u \in Users : Turns!Take(d, u) \/ Turns!Line(d, u)
  <2>1. UserOf[s] \in Users
    BY UserOfAssumption
  <2> HIDE DEF g
  <2>2. \/ Turns!Stay(d)
        \/ Turns!Take(d, UserOf[s])
        \/ Turns!Line(d, UserOf[s])
    BY <1>0, <1>4, <1>s, <1>t, <1>l, RequestIsTakeOrLine
  <2> QED BY <2>1, <2>2
<1> QED
  BY <1>1, <1>2, <1>3, <1>4

LEMMA TurnsNext ==
    ASSUME FloorInv, [Next]_vars
    PROVE  Turns!Next
<1>0. TypeOK /\ \A s \in Sockets : UserOf[s] \in Users
  BY UserOfAssumption DEF FloorInv
<1> SUFFICES ASSUME NEW d \in Channels
             PROVE  \/ floor'[d] = floor[d]
                    \/ floor[d].current # None /\ floor'[d] = Promote(floor[d])
                    \/ \E u \in Users : floor'[d] = Cancel(floor[d], u)
                    \/ \E s \in Sockets : floor'[d] = Request(floor[d], s)
  BY TurnStep DEF Turns!Next
<1>1. CASE UNCHANGED floor
  BY <1>1
<1>2. ASSUME NEW s \in Sockets, NEW c \in Channels, NEW f,
             floor' = [floor EXCEPT ![c] = f]
      PROVE  floor'[d] = IF d = c THEN f ELSE floor[d]
  BY <1>0, <1>2 DEF TypeOK
<1>3. ASSUME NEW s \in Sockets, NEW c \in Channels, Leave(s, c)
      PROVE  \/ floor'[d] = floor[d]
             \/ floor[d].current # None /\ floor'[d] = Promote(floor[d])
             \/ \E u \in Users : floor'[d] = Cancel(floor[d], u)
  <2> DEFINE u == UserOf[s]
  <2>1. floor' = [floor EXCEPT ![c] = Cancel(Release(floor[c], u), u)]
    BY <1>3 DEF Leave, HandOver
  <2>2. CASE IsSpeaker(floor[c], u)
    <3> DEFINE g == Promote(floor[c])
    <3>1. floor[c] \in Floors /\ OnceInFloor(floor[c])
      BY DEF FloorInv, TypeOK, FloorWellFormed
    <3>2. g \in Floors /\ \A e \in Entries(g) : UserOf[e] # u
      BY <2>2, <3>1, PromoteFacts DEF IsSpeaker
    <3> HIDE DEF g
    <3>3. Places(g.queue, u) = {}
      BY <3>2 DEF Places, Entries
    <3>4. Cancel(g, u) = g
      BY <3>2, <3>3 DEF Cancel, Without, Floors
    <3> QED BY <1>2, <2>1, <2>2, <3>4 DEF Release, IsSpeaker, g
  <2>3. CASE ~IsSpeaker(floor[c], u)
    BY <1>0, <1>2, <2>1, <2>3 DEF Release
  <2> QED BY <2>2, <2>3
<1>4. ASSUME NEW s \in Sockets, NEW c \in Channels, CanRelease(s, c),
             floor' = [floor EXCEPT ![c] = Release(floor[c], UserOf[s])]
      PROVE  \/ floor'[d] = floor[d]
             \/ floor[d].current # None /\ floor'[d] = Promote(floor[d])
  BY <1>2, <1>4 DEF Release, CanRelease, IsSpeaker
<1>5. ASSUME NEW s \in Sockets, NEW c \in Channels, RequestFloor(s, c)
      PROVE  floor'[d] = floor[d] \/ floor'[d] = Request(floor[d], s)
  <2>1. floor' = [floor EXCEPT ![c] = Request(floor[c], s)]
    BY <1>5 DEF RequestFloor, HandOver
  <2> QED BY <1>2, <2>1
<1>6. ASSUME NEW s \in Sockets, NEW c \in Channels, PttCancel(s, c)
      PROVE  floor'[d] = floor[d] \/ floor'[d] = Cancel(floor[d], UserOf[s])
  <2>1. floor' = [floor EXCEPT ![c] = Cancel(floor[c], UserOf[s])]
    BY <1>6 DEF PttCancel
  <2> QED BY <1>2, <2>1
<1>7. ASSUME NEW s \in Sockets, Disconnect(s)
      PROVE  \/ floor[d].current # None /\ floor'[d] = Promote(floor[d])
             \/ floor'[d] = Cancel(floor[d], UserOf[s])
  BY <1>7 DEF Disconnect, Drop, IsSpeaker
<1>8. CASE \/ \E s \in Sockets : Connect(s) \/ \E c \in Channels : Join(s, c)
           \/ \E r \in Releases : PttReleaseDone(r) \/ PttReleaseFails(r)
           \/ UNCHANGED vars
  BY <1>1, <1>8 DEF Connect, Join, PttReleaseDone, PttReleaseFails, vars
<1>9. ASSUME NEW s \in Sockets, NEW c \in Channels,
             PttReleasePrivate(s, c) \/ PttReleaseStart(s, c)
      PROVE  \/ floor'[d] = floor[d]
             \/ floor[d].current # None /\ floor'[d] = Promote(floor[d])
  BY <1>4, <1>9 DEF PttReleasePrivate, PttReleaseStart, HandOver
<1> QED
  BY <1>0, <1>3, <1>5, <1>6, <1>7, <1>8, <1>9 DEF Next, ChannelStep

(* The floor implements the line of people: in every channel, in every     *)
(* step, the word is taken by whoever asks of a free channel, passes to    *)
(* the first in line, and nobody overtakes.                                *)
THEOREM FloorImplementsTurns == Spec => TurnsInOrder
<1>1. ASSUME Init PROVE Turns!Init
  <2>1. /\ SpeakerOf(FreeFloor) = None
        /\ QueueUsers(FreeFloor) = <<>>
    <3>1. FreeFloor \in Floors /\ Len(FreeFloor.queue) = 0
      BY EmptySeq DEF FreeFloor, Floors
    <3> QED BY <3>1, QueueUsersType, EmptySeq DEF SpeakerOf, FreeFloor
  <2> QED BY <1>1, <2>1 DEF Init, Turns!Init
<1>2. FloorInv /\ [Next]_vars => [Turns!Next]_(Turns!vars)
  BY TurnsNext
<1>3. QED
  BY <1>1, <1>2, FloorInvInit, FloorInvNext, PTL DEF Spec, TurnsInOrder, Turns!Spec
=============================================================================
