----------------------------- MODULE ServeGate -----------------------------
(***************************************************************************)
(* What Function.Serve promises about admission (functions.go 224-230):    *)
(* requests enter in rounds of at most Capacity; a round is closed only    *)
(* when it is full, and closing it admits nobody of the next round early.  *)
(***************************************************************************)
EXTENDS Naturals

CONSTANT Capacity    \* a positive natural number

VARIABLE admitted    \* requests let in since the last round was closed

Init == admitted = 0

Admit == /\ admitted < Capacity
         /\ admitted' = admitted + 1

Drain == /\ admitted = Capacity
         /\ admitted' = 0

Next == Admit \/ Drain

Spec == Init /\ [][Next]_admitted
=============================================================================
