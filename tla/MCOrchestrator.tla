-------------------------- MODULE MCOrchestrator --------------------------
(* Two VMs of the same image, so that their starts race for the image cache; the   *)
(* microVM of the second one is never created.                                     *)
EXTENDS Orchestrator

CONSTANTS v1, v2

MCImageOf == [v \in VMs |-> "image"]
MCHostFaults == [v \in VMs |-> IF v = v2 THEN {} ELSE {"error", "deadline", "tap"}]
MCBroken == [v \in VMs |-> IF v = v2 THEN {"createVM"} ELSE {}]
=============================================================================
