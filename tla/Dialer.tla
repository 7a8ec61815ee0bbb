------------------------------- MODULE Dialer -------------------------------
(***************************************************************************)
(* One call of timeoutDialer (functions.go): a worker goroutine redials    *)
(* until it is connected or told to stop, the caller waits for it or for   *)
(* the timeout, and after a timeout a third goroutine takes over a late    *)
(* connection to close it.  synC is unbuffered and closed by the worker's  *)
(* return; stopC is closed by the timeout.                                 *)
(*                                                                         *)
(* Each operator gives the attempts that one step can lead to.             *)
(***************************************************************************)
EXTENDS Naturals

Attempt == [caller : {"select", "connected", "timeout"},
            worker : {"loop", "dialing", "send", "ended"},
            drain : {"none", "receive", "done"},
            conn : {"none", "open", "returned", "closed"}]

NewAttempt == [caller |-> "select", worker |-> "loop", drain |-> "none", conn |-> "none"]

Stopped(a) == a.caller = "timeout"

\* The select of the worker: stopC closed, or the default branch.
WorkerSelect(a) ==
  {[a EXCEPT !.worker = IF Stopped(a) THEN "ended" ELSE "dialing"] : w \in {a.worker} \cap {"loop"}}

\* net.DialTimeout returns: connected, or refused and tried again.
WorkerDial(a) ==
  IF a.worker = "dialing"
    THEN {[a EXCEPT !.worker = "send", !.conn = "open"], [a EXCEPT !.worker = "loop"]}
    ELSE {}

\* The rendezvous on synC, with the caller or with the goroutine that replaced it.
Receive(a) ==
  IF a.worker # "send" THEN {}
  ELSE {b \in {[a EXCEPT !.caller = "connected", !.worker = "ended", !.conn = "returned"],
               [a EXCEPT !.drain = "done", !.worker = "ended", !.conn = "closed"]} :
          \/ a.caller = "select" /\ b.caller = "connected"
          \/ a.drain = "receive" /\ b.drain = "done"}

\* Mutant: nobody takes over.
TimeoutNoDrain(a) == IF a.caller = "select" THEN {[a EXCEPT !.caller = "timeout"]} ELSE {}

Timeout(a) ==
  IF a.caller = "select" THEN {[a EXCEPT !.caller = "timeout", !.drain = "receive"]} ELSE {}

\* Receiving from the closed synC.
DrainClosed(a) ==
  IF a.drain = "receive" /\ a.worker = "ended" THEN {[a EXCEPT !.drain = "done"]} ELSE {}

Settled(a) ==
  /\ a.worker = "ended" /\ a.drain \in {"none", "done"}
  /\ a.conn # "open" /\ (a.conn = "returned" <=> a.caller = "connected")
=============================================================================
