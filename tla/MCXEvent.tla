------------------------------ MODULE MCXEvent ------------------------------
(***************************************************************************)
(* The dispatcher with a pool of one or two threads, in four setups: an    *)
(* edge-triggered and a level-triggered handler used with one descriptor;  *)
(* a concurrent edge-triggered handler; a one-shot handler that is not     *)
(* concurrent; two tasks.                                                  *)
(***************************************************************************)
EXTENDS XEvent, TLC

CONSTANTS t1, t2, edge, level, shot, k1, k2, f1, f2

MCFdOf == [h \in FdHandlers |-> IF h = shot THEN f2 ELSE f1]
MCSetups == {[used |-> {edge, level}, threads |-> 1, pending |-> 1],
             [used |-> {edge}, threads |-> 2, pending |-> 2],
             [used |-> {shot}, threads |-> 2, pending |-> 2],
             [used |-> {k1, k2}, threads |-> 2, pending |-> 2]}
\* For liveness: one handler that the kernel and callers both make ready.
MCLiveSetups == {[used |-> {edge}, threads |-> 2, pending |-> 1]}
MCSymmetry == Permutations({t1, t2})
=============================================================================
