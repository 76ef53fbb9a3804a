------------------------------ MODULE TurnQueue ------------------------------
(***************************************************************************)
(* What the floor of the radio promises, in terms of people only ("un solo *)
(* hablante a la vez y una cola de pedir la palabra",                      *)
(* radio-floor.service.ts): in each channel one holder at most, who gets   *)
(* the word because nobody had it or because they were first in line.      *)
(* Sockets, reconnections and announcements are not visible here.          *)
(***************************************************************************)
EXTENDS Naturals, Sequences, SequencesExt

CONSTANTS Channels, Users, None

VARIABLES holder, waiting

vars == <<holder, waiting>>

Init ==
    /\ holder = [c \in Channels |-> None]
    /\ waiting = [c \in Channels |-> <<>>]

InLine(c, u) == \E i \in DOMAIN waiting[c] : waiting[c][i] = u

(* A free channel has no line, and the first to ask has the word. *)
Take(c, u) ==
    /\ holder[c] = None
    /\ waiting[c] = <<>>
    /\ holder'[c] = u
    /\ waiting'[c] = waiting[c]

(* Whoever asks while another talks goes to the end of the line, once. *)
Line(c, u) ==
    /\ holder[c] \notin {None, u}
    /\ ~InLine(c, u)
    /\ holder'[c] = holder[c]
    /\ waiting'[c] = Append(waiting[c], u)

(* The word passes to the first in line, or to nobody. *)
Pass(c) ==
    /\ holder[c] # None
    /\ \/ /\ waiting[c] = <<>>
          /\ holder'[c] = None
          /\ waiting'[c] = <<>>
       \/ /\ waiting[c] # <<>>
          /\ holder'[c] = Head(waiting[c])
          /\ waiting'[c] = Tail(waiting[c])

(* Somebody gives up their place; the others keep their order. *)
Withdraw(c) ==
    /\ holder'[c] = holder[c]
    /\ \E i \in DOMAIN waiting[c] : waiting'[c] = RemoveAt(waiting[c], i)

Stay(c) == holder'[c] = holder[c] /\ waiting'[c] = waiting[c]

(* A disconnection moves several channels at once, each by one step. *)
Next ==
    \A c \in Channels :
        \/ Stay(c)
        \/ Pass(c)
        \/ Withdraw(c)
        \/ \E u \in Users : Take(c, u) \/ Line(c, u)

Spec == Init /\ [][Next]_vars
=============================================================================
