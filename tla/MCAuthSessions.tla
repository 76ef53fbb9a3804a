--------------------------- MODULE MCAuthSessions ---------------------------
(* A small instance of AuthSessions. *)
EXTENDS AuthSessions, TLC

(* Requests, and rows of refreshToken, are interchangeable. *)
Symmetry == {f @@ g : f \in Permutations(Requests), g \in Permutations(Tokens)}
=============================================================================
