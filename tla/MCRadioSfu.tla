----------------------------- MODULE MCRadioSfu -----------------------------
(* Small instances of RadioSfu. *)
EXTENDS RadioSfu, TLC

(* Sockets differ in nothing, nor do channels, nor calls. *)
Symmetry ==
    Permutations(Sockets) \cup Permutations(Channels) \cup Permutations(Calls)
=============================================================================
