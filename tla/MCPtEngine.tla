----------------------------- MODULE MCPtEngine -----------------------------
(* The engine with one adapter, two incoming and one outgoing connection. *)
EXTENDS PtEngine

CONSTANTS a1, i1, i2, o1, e1
=============================================================================
