----------------------------- MODULE PhoneLines -----------------------------
(***************************************************************************)
(* What private calls promise, in terms of people only: everybody has one  *)
(* line, and a call is between two of them.  It rings, it may be answered, *)
(* and it ends for both at the same time.  Call identifiers, sessions,     *)
(* lookups, timers and grace windows are not visible here.                 *)
(***************************************************************************)
CONSTANTS Users, None

VARIABLE line    \* the call each user is in

Free == [caller |-> None, target |-> None, state |-> "NONE"]

Init == line = [u \in Users |-> Free]

(* The lines of U become v, those of the others stay. *)
Become(U, v) == \A u \in Users : line'[u] = IF u \in U THEN v ELSE line[u]

(* Somebody whose line is free calls another such. *)
Ring(a, b) ==
    /\ line[a] = Free
    /\ line[b] = Free
    /\ Become({a, b}, [caller |-> a, target |-> b, state |-> "RINGING"])

(* The one called answers. *)
Answer(a) ==
    /\ line[a].state = "RINGING"
    /\ line[a].target = a
    /\ Become({line[a].caller, a}, [line[a] EXCEPT !.state = "ACTIVE"])

(* Both lines are free again: nobody is left on the phone alone. *)
HangUp(a) ==
    /\ line[a] # Free
    /\ Become({line[a].caller, line[a].target}, Free)

(* What a does changes the line of a. *)
Does(a) ==
    /\ line'[a] # line[a]
    /\ \/ \E b \in Users : Ring(a, b)
       \/ Answer(a)
       \/ HangUp(a)

Next == \E a \in Users : Does(a)

Spec == Init /\ [][Next]_line
=============================================================================
