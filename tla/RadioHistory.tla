---------------------------- MODULE RadioHistory ----------------------------
(***************************************************************************)
(* The history of one radio channel: what is posted to it, the daily purge *)
(* of what is old and of its files, and clients that page through it,      *)
(* backwards from the newest post or forwards from the newest they have.   *)
(***************************************************************************)
EXTENDS FiniteSets, Naturals

CONSTANTS
    Posts,      \* ids of posts, 1..n in their order as the database sorts them
    Take,       \* posts in a page
    Retention,  \* age up to which posts are kept
    MaxTime     \* bound on the time

ASSUME PostsNumbered == IsFiniteSet(Posts) /\ Posts = 1..Cardinality(Posts)
ASSUME SomeTake == Take \in Nat \ {0}
ASSUME SomeRetention == Retention \in Nat \ {0}
ASSUME TimeBound == MaxTime \in Nat

VARIABLES
    time,       \* now
    kept,       \* the posts in the table
    posted,     \* those that were ever in it
    created,    \* RadioTransmission.createdAt
    files,      \* the posts whose file is on the disk
    purge,      \* the purge: "rest", or "files", and then the cutoff and what
    cutoff,     \* it found
    old,
    client      \* a client, which only reads

historyVars == <<time, kept, posted, created, files, purge, cutoff, old, client>>
purgeVars == <<purge, cutoff, old>>

None == 0
Cursors == Posts \cup {None}

(* A client: whether it pages backwards or follows what is new; what it    *)
(* will do next; the post it has got to, if any; what it was given; and as *)
(* history, what it ought to be given.                                     *)
Clients ==
    [way : {"back", "on"}, step : {"rest", "ask", "page", "done"}, cursor : Cursors,
     has : SUBSET Posts, owed : SUBSET Posts]
NewClient == [way |-> "back", step |-> "rest", cursor |-> None, has |-> {}, owed |-> {}]

HistoryTypes ==
    /\ time \in 0..MaxTime
    /\ kept \subseteq posted
    /\ posted \subseteq Posts
    /\ created \in [Posts -> 0..MaxTime]
    /\ files \subseteq posted
    /\ purge \in {"rest", "files"}
    /\ cutoff \in 0..MaxTime
    /\ client \in Clients
    /\ old \subseteq kept
    /\ purge = "rest" => old = {}
    /\ client.has \subseteq posted

HistoryInit ==
    /\ time = 0
    /\ kept = {}
    /\ posted = {}
    /\ created = [i \in Posts |-> 0]
    /\ files = {}
    /\ purge = "rest"
    /\ cutoff = 0
    /\ old = {}
    /\ client = NewClient

-----------------------------------------------------------------------------
(* Posts in order: by time, and by id where that is the same. *)
Before(i, j) ==
    \/ created[i] < created[j]
    \/ created[i] = created[j] /\ i < j

(* The first posts of a set, as many as a page takes, from either end.     *)
Newest(set) == {i \in set : Cardinality({j \in set : Before(i, j)}) < Take}
Oldest(set) == {i \in set : Cardinality({j \in set : Before(j, i)}) < Take}
Last(page) == CHOOSE i \in page : \A j \in page \ {i} : Before(j, i)
First(page) == CHOOSE i \in page : \A j \in page \ {i} : Before(i, j)

Tick ==
    /\ time < MaxTime
    /\ time' = time + 1
    /\ UNCHANGED <<kept, posted, created, files, purgeVars, client>>

(* A transmission, an image, a file or a text is posted.  It is stamped    *)
(* when its insertion begins, and there is to be seen when that ends.      *)
Post(i, t) ==
    /\ i \notin posted
    /\ t \in {time - 1, time} \cap Nat
    /\ posted' = posted \cup {i}
    /\ kept' = kept \cup {i}
    /\ created' = [created EXCEPT ![i] = t]
    /\ files' = files \cup {i}
    /\ UNCHANGED <<time, purgeVars, client>>

-----------------------------------------------------------------------------
Due(limit) == {i \in kept : created[i] < limit}

(* purgeOldTransmissions finds the posts that are too old... *)
PurgeLook ==
    /\ purge = "rest"
    /\ time >= Retention
    /\ Due(time - Retention) # {}
    /\ cutoff' = time - Retention
    /\ old' = Due(time - Retention)
    /\ purge' = "files"
    /\ UNCHANGED <<time, kept, posted, created, files, client>>

(* ... deletes their files, one after the other... *)
PurgeFile(i) ==
    /\ purge = "files"
    /\ i \in old
    /\ old' = old \ {i}
    /\ files' = files \ {i}
    /\ UNCHANGED <<time, kept, posted, created, purge, cutoff, client>>

PurgeEnds ==
    /\ purge' = "rest"
    /\ cutoff' = 0
    /\ old' = {}

(* Mutant of PurgeRows: the cutoff is computed again. *)
PurgeRowsNow ==
    /\ purge = "files"
    /\ old = {}
    /\ kept' = kept \ Due(time - Retention)
    /\ PurgeEnds
    /\ UNCHANGED <<time, posted, created, files, client>>

(* ... and then the posts themselves, found again. *)
PurgeRows ==
    /\ purge = "files"
    /\ old = {}
    /\ kept' = kept \ Due(cutoff)
    /\ PurgeEnds
    /\ UNCHANGED <<time, posted, created, files, client>>

(* The server stops, or the database refuses: until the next night.        *)
PurgeFails ==
    /\ purge = "files"
    /\ PurgeEnds
    /\ UNCHANGED <<time, kept, posted, created, files, client>>

-----------------------------------------------------------------------------
(* The client asks for the newest page. *)
PagerStarts ==
    /\ client.step = "rest"
    /\ client' = [way |-> "back", step |-> IF kept = {} THEN "done" ELSE "ask",
                 cursor |-> IF kept = {} THEN None ELSE First(Newest(kept)),
                 has |-> Newest(kept), owed |-> kept]
    /\ UNCHANGED <<time, kept, posted, created, files, purgeVars>>

(* history looks its cursor up: if it is gone there is nothing before it.  *)
PagerCursor ==
    /\ client.way = "back" /\ client.step = "ask"
    /\ client' = [client EXCEPT !.step = IF client.cursor \in kept THEN "page" ELSE "done"]
    /\ UNCHANGED <<time, kept, posted, created, files, purgeVars>>

(* Mutant of Older: posts of the same time as the cursor are passed over.  *)
OlderTime(i) == {j \in kept : created[j] < created[i]}

Older(i) == {j \in kept : Before(j, i)}

(* It answers the newest of those before the cursor. *)
PagerPage ==
    /\ client.way = "back" /\ client.step = "page"
    /\ LET page == Newest(Older(client.cursor))
       IN client' = [client EXCEPT
                       !.step = IF page = {} THEN "done" ELSE "ask",
                       !.cursor = IF page = {} THEN @ ELSE First(page),
                       !.has = @ \cup page]
    /\ UNCHANGED <<time, kept, posted, created, files, purgeVars>>

(* The client has the newest page, and from then on asks what came after *)
(* the newest post it has.                                                 *)
FollowerStarts ==
    /\ client.step = "rest"
    /\ kept # {}
    /\ client' = [way |-> "on", step |-> "ask", cursor |-> Last(Newest(kept)),
                    has |-> Newest(kept), owed |-> {}]
    /\ UNCHANGED <<time, kept, posted, created, files, purgeVars>>

FollowerCursor ==
    /\ client.way = "on" /\ client.step = "ask"
    /\ client.cursor \in kept
    /\ client' = [client EXCEPT !.step = "page",
                       !.owed = {i \in kept : Before(client.cursor, i)}]
    /\ UNCHANGED <<time, kept, posted, created, files, purgeVars>>

After(i) == Oldest({j \in kept : Before(i, j)})

(* It answers the oldest of those after the cursor. *)
FollowerPage ==
    /\ client.way = "on" /\ client.step = "page"
    /\ LET page == After(client.cursor)
       IN client' = [client EXCEPT
                          !.step = "ask",
                          !.cursor = IF page = {} THEN @ ELSE Last(page),
                          !.has = @ \cup page]
    /\ UNCHANGED <<time, kept, posted, created, files, purgeVars>>

HistoryNext ==
    \/ Tick
    \/ \E i \in Posts, t \in 0..MaxTime : Post(i, t)
    \/ PurgeLook
    \/ \E i \in Posts : PurgeFile(i)
    \/ PurgeRows
    \/ PurgeFails
    \/ PagerStarts
    \/ PagerCursor
    \/ PagerPage
    \/ FollowerStarts
    \/ FollowerCursor
    \/ FollowerPage

HistorySpec == HistoryInit /\ [][HistoryNext]_historyVars

-----------------------------------------------------------------------------
(* Pages neither skip nor lose a post: whoever pages back to the end has   *)
(* been given every post that there was when it began and is still there,  *)
(* even if its cursor was purged, as all before it were purged with it;    *)
(* and whoever follows does not get past a post that was there when it     *)
(* asked without being given it.                                           *)
PagesComplete ==
    /\ client.way = "back" /\ client.step = "done" =>
           client.owed \cap kept \subseteq client.has
    /\ client.way = "on" /\ client.step = "ask" =>
           \A i \in client.owed \cap kept :
               i \in client.has \/ Before(client.cursor, i)

(* A post loses its file only if it is too old to be kept, and a post that *)
(* is purged leaves none behind, however often the purge is cut short.     *)
FilesGoWithPosts ==
    /\ \A i \in kept \ files : created[i] + Retention < time
    /\ files \subseteq kept
=============================================================================
