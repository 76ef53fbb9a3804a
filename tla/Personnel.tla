------------------------------ MODULE Personnel ------------------------------
(***************************************************************************)
(* The accounts and their synchronisation with the personnel system.  A    *)
(* synchronisation reads the list of the people on duty, writes their      *)
(* accounts one by one, each over two calls of the database, and then      *)
(* deactivates whoever has a code that it did not note.  Supervisors start *)
(* them, at once if they like, and create and edit accounts meanwhile.     *)
(* Accounts without a code are not touched by any of it, and left out.     *)
(***************************************************************************)
EXTENDS Naturals

CONSTANTS
    People,     \* the operatorCodes
    Syncs,      \* calls of syncFromPersonal
    None

ASSUME PeopleAssumption == None \notin People

VARIABLES
    account,    \* User.isActive of each account
    listed,     \* the usable records a synchronisation received
    todo,       \* those it has not dealt with
    noted,      \* its activeOperatorCodes
    record,     \* the one whose account it has looked up
    found,      \* whether it had one
    syncing,    \* the synchronisations under way
    clean       \* history: those that neither failed at anything nor saw an
                \* account written by another

syncVars == <<account, listed, todo, noted, record, found, syncing, clean>>

SyncTypeOK ==
    /\ account \in [People -> {"none", "active", "inactive"}]
    /\ listed \in [Syncs -> SUBSET People]
    /\ todo \in [Syncs -> SUBSET People]
    /\ noted \in [Syncs -> SUBSET People]
    /\ record \in [Syncs -> People \cup {None}]
    /\ found \in [Syncs -> BOOLEAN]
    /\ syncing \subseteq Syncs
    /\ clean \subseteq Syncs

SyncInit ==
    /\ account \in [People -> {"none", "active"}]
    /\ listed = [y \in Syncs |-> {}]
    /\ todo = [y \in Syncs |-> {}]
    /\ noted = [y \in Syncs |-> {}]
    /\ record = [y \in Syncs |-> None]
    /\ found = [y \in Syncs |-> FALSE]
    /\ syncing = {}
    /\ clean = {}

-----------------------------------------------------------------------------
(* UsersService.create, AuthService.register *)
Enroll(a) ==
    /\ account[a] = "none"
    /\ account' = [account EXCEPT ![a] = "active"]
    /\ clean' = {}
    /\ UNCHANGED <<listed, todo, noted, record, found, syncing>>

(* UsersService.update *)
SetActive(a, state) ==
    /\ account[a] \notin {"none", state}
    /\ account' = [account EXCEPT ![a] = state]
    /\ clean' = {}
    /\ UNCHANGED <<listed, todo, noted, record, found, syncing>>

(* fetchPersonal has answered; records without a code or not on duty are   *)
(* left out of the list.                                                   *)
Fetch(y, list) ==
    /\ y \notin syncing
    /\ listed' = [listed EXCEPT ![y] = list]
    /\ todo' = [todo EXCEPT ![y] = list]
    /\ noted' = [noted EXCEPT ![y] = {}]
    /\ syncing' = syncing \cup {y}
    /\ clean' = clean \cup {y}
    /\ UNCHANGED <<account, record, found>>

(* Mutant of Look: the code is noted with the account that is found. *)
LookNotesFound(y, p) ==
    /\ p \in todo[y]
    /\ record[y] = None
    /\ noted' = IF account[p] = "none" THEN noted
                ELSE [noted EXCEPT ![y] = @ \cup {p}]
    /\ record' = [record EXCEPT ![y] = p]
    /\ found' = [found EXCEPT ![y] = account[p] # "none"]
    /\ UNCHANGED <<account, listed, todo, syncing, clean>>

(* The code is noted and its account looked up. *)
Look(y, p) ==
    /\ p \in todo[y]
    /\ record[y] = None
    /\ noted' = [noted EXCEPT ![y] = @ \cup {p}]
    /\ record' = [record EXCEPT ![y] = p]
    /\ found' = [found EXCEPT ![y] = account[p] # "none"]
    /\ UNCHANGED <<account, listed, todo, syncing, clean>>

(* The record is over, whatever became of it. *)
NextRecord(y) ==
    /\ record' = [record EXCEPT ![y] = None]
    /\ todo' = [todo EXCEPT ![y] = @ \ {record[y]}]
    /\ found' = [found EXCEPT ![y] = FALSE]
    /\ UNCHANGED <<listed, noted, syncing>>

(* The account is brought up to date and active, or created, which fails if*)
(* somebody else has created it.                                           *)
Write(y) ==
    /\ record[y] # None
    /\ found[y] \/ account[record[y]] = "none"
    /\ account' = [account EXCEPT ![record[y]] = "active"]
    /\ clean' = clean \cap {y}
    /\ NextRecord(y)

(* The database refuses a record: it is an error among others. *)
WriteFails(y) ==
    /\ record[y] # None
    /\ clean' = clean \ {y}
    /\ NextRecord(y)
    /\ UNCHANGED account

(* Mutant of Absent: everybody is absent from an empty list. *)
AbsentAll(y) == {p \in People : account[p] = "active"} \ noted[y]

(* Whom the list does not have, unless it is empty. *)
Absent(y) == {p \in People : noted[y] # {} /\ account[p] = "active"} \ noted[y]

(* Every record has been dealt with, and the call is over. *)
Ends(y) ==
    /\ y \in syncing
    /\ todo[y] = {}
    /\ record[y] = None
    /\ syncing' = syncing \ {y}
    /\ listed' = [listed EXCEPT ![y] = {}]
    /\ noted' = [noted EXCEPT ![y] = {}]
    /\ UNCHANGED <<todo, record, found>>

(* The end of syncFromPersonal: one updateMany. *)
Finish(y) ==
    /\ Ends(y)
    /\ account' = [a \in DOMAIN account |->
                      IF a \in Absent(y) THEN "inactive" ELSE account[a]]
    /\ clean' = {}

(* It fails. *)
FinishFails(y) ==
    /\ Ends(y)
    /\ clean' = clean \ {y}
    /\ UNCHANGED account

SyncStep(y) ==
    \/ \E list \in SUBSET People : Fetch(y, list)
    \/ \E p \in People : Look(y, p)
    \/ Write(y)
    \/ WriteFails(y)
    \/ Finish(y)
    \/ FinishFails(y)

SyncNext ==
    \/ \E a \in People : Enroll(a)
    \/ \E a \in People, state \in {"active", "inactive"} :
           SetActive(a, state)
    \/ \E y \in Syncs : SyncStep(y)

-----------------------------------------------------------------------------
(* Nobody on duty is shut out by an error: a synchronisation deactivates   *)
(* none of the people it was given, though writing their accounts failed.  *)
ListedAreSpared ==
    [][\A y \in Syncs : Finish(y) =>
          \A p \in listed[y] : account'[p] = account[p]]_account

(* A synchronisation that fails at nothing, and beside which nobody writes *)
(* accounts, leaves active exactly the people of its list, whatever the    *)
(* accounts were ("Idempotente").  An empty list changes nothing.          *)
SyncMirrors ==
    [][\A y \in Syncs : Finish(y) =>
          /\ listed[y] = {} => account' = account
          /\ y \in clean /\ listed[y] # {} =>
                 \A p \in People : account'[p] = "active" <=> p \in listed[y]
      ]_syncVars
=============================================================================
