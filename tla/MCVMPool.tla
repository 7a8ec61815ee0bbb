------------------------------ MODULE MCVMPool ------------------------------
(* Small instances of VMPool: bridges of one tap, so that they fill. *)
EXTENDS VMPool, TLC

Symmetry == Permutations(Calls) \cup Permutations(Guarded)
=============================================================================
