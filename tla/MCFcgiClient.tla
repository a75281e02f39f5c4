---------------------------- MODULE MCFcgiClient ----------------------------
(* The FastCGI pool with interchangeable quests and connections. *)
EXTENDS FcgiClient

CONSTANTS q1, q2, c1, c2, c3, c4

MCSymmetry == Permutations({q1, q2}) \cup Permutations({c1, c2, c3, c4})
=============================================================================
