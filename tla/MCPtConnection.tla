-------------------------- MODULE MCPtConnection --------------------------
(* PtConnection on small instances.                                        *)
EXTENDS PtConnection, TLC

(* Quests and connections are interchangeable.                             *)
Symmetry == Permutations(Quests) \cup Permutations(Conns)
=============================================================================
