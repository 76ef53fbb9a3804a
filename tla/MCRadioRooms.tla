---------------------------- MODULE MCRadioRooms ----------------------------
(* A small instance of RadioRooms. *)
EXTENDS RadioRooms, TLC

CONSTANTS s1, s2, ana

(* Ana with two devices. *)
TwoDevices == s1 :> ana @@ s2 :> ana

(* Devices of one user are interchangeable, and so are public channels. *)
Symmetry == {f @@ g : f \in Permutations(Sockets), g \in Permutations(Public)}
=============================================================================
