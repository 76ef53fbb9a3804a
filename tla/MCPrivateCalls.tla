---------------------------- MODULE MCPrivateCalls ----------------------------
(* Small instances of PrivateCalls. *)
EXTENDS PrivateCalls, TLC

CONSTANTS s1, s2, s3, s4, ana, beto, caro

(* Ana has two devices, or one that comes back. *)
ThreeUsers == s1 :> ana @@ s2 :> ana @@ s3 :> beto @@ s4 :> caro

(* Both parties may come back. *)
TwoUsers == s1 :> ana @@ s2 :> ana @@ s3 :> beto @@ s4 :> beto

(* Ana's devices are interchangeable; so are beto and caro, each with the   *)
(* device of his own; and so are call identifiers and handlers.             *)
Devices == Permutations({s1, s2})
Callees ==
    {s3 :> s3 @@ s4 :> s4 @@ beto :> beto @@ caro :> caro,
     s3 :> s4 @@ s4 :> s3 @@ beto :> caro @@ caro :> beto}
Symmetry ==
    {f @@ g @@ h @@ k : f \in Devices, g \in Callees,
                        h \in Permutations(CallIds), k \in Permutations(Lookups)}
=============================================================================
