-------------------------- MODULE MCMemoryManager --------------------------
(* One VM of four pages: gaps between and runs of recorded pages. *)
EXTENDS MemoryManager

MCNumPages == [v \in VMs |-> 4]
=============================================================================
