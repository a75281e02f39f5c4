------------------------------ MODULE MCXTimer ------------------------------
(* XTimer on small instances.                                              *)
EXTENDS XTimer, TLC

(* Tasks are interchangeable, and so are the threads that use the timer.   *)
Symmetry == Permutations(Tasks) \cup Permutations(Users)
=============================================================================
