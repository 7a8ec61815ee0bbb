---------------------------- MODULE MCFuncPool ----------------------------
(* Two numeric functions on either side of the pinning limit. *)
EXTENDS FuncPool

CONSTANTS f1, f2

MCIntOf == [f \in Functions |-> IF f = f1 THEN 1 ELSE 2]
\* Draws that make the threshold negative and exactly zero.
MCDraws == {-3, -2}
=============================================================================
