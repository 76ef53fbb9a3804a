---------------------------- MODULE MCRadioFloor ----------------------------
(* Small instances of RadioFloor: the owner of each socket. *)
EXTENDS RadioFloor

CONSTANTS s1, s2, s3, s4, ana, beto, caro, r1, r2, r3

(* Ana is connected from two devices. *)
TwoUsers == s1 :> ana @@ s2 :> ana @@ s3 :> beto

(* Her devices are interchangeable, and so are the handlers in flight. *)
Symmetry == Permutations({s1, s2}) \cup Permutations({r1, r2, r3})

OneDevice == s1 :> ana @@ s3 :> beto @@ s4 :> caro
=============================================================================
