---------------------------- MODULE MCFuncServe ----------------------------
(***************************************************************************)
(* Small instances of FuncServe.  The goroutines of one kind are           *)
(* interchangeable; symmetry is used by the runs that check no liveness.   *)
(***************************************************************************)
EXTENDS FuncServe, TLC

Symmetry == Permutations(Requests) \cup Permutations(Adds) \cup Permutations(Stops)
=============================================================================
