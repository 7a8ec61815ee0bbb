---------------------- MODULE FuncServeInstance_proofs ----------------------
(***************************************************************************)
(* Proofs about the instance behind a function (FuncServe): that a         *)
(* snapshot belongs to the VM in use, that no two goroutines start an      *)
(* instance at once, that a function with snapshots keeps one VM for ever, *)
(* and which requests find it running.  The gate's invariant (the module   *)
(* FuncServe_proofs) is what tells one round of requests from the next.    *)
(***************************************************************************)
EXTENDS FuncServe_proofs

\* The index of the Once that the field holds.
Current == Len(OnceAddInstance)

\* The goroutine has read the field OnceAddInstance and not left its round's instance.
Holding == {"once", "addLock", "addWait", "connect", "ready", "rlocked", "call", "snap",
            "snapping", "unlock", "retire", "retireWait"}

\* It runs the function passed to Do; Do has returned to it.
InDo == {"addLock", "addWait", "connect"}
PastDo == Holding \ (InDo \cup {"once"})

-----------------------------------------------------------------------------
(* The invariants. *)

\* A request that got an answer had a VM, and f.vmID never becomes empty again.
SnapInv ==
  /\ SnapshotOfCurrentVM
  /\ client.vm # 0 => vmID # 0
  /\ \A g \in Requests : pc[g] \in {"snap", "snapping"} => vmID # 0

\* What a goroutine knows of the Once it holds.  The request that closes the round still
\* holds the current one: only that request replaces it.
OnceOK(g) ==
  /\ pc[g] \in Holding => onceOf[g] \in 1..Current
  /\ pc[g] \in InDo => OnceAddInstance[onceOf[g]] = "running"
  /\ pc[g] \in PastDo => OnceAddInstance[onceOf[g]] = "done"
  /\ g \in Retirers /\ pc[g] \in Holding => onceOf[g] = Current
  /\ g \notin Requests => pc[g] \in {"stat", "once", "done"} \cup InDo

OnceInv ==
  /\ Current > 0
  /\ \A j \in 1..Current : j < Current => OnceAddInstance[j] = "done"
  /\ \A g \in Procs : OnceOK(g)
  /\ \A g, h \in Starting : g = h

\* Where the only VM of a function with snapshots is.
Single == Len(vms) = 1 /\ vmID = 1
Down == \/ vms = <<>> /\ OnceCreateSnapInstance = "new"
        \/ Single /\ vms[1].state = "offloaded" /\ OnceCreateSnapInstance = "done"
Waking == Single /\ vms[1].state = "running" /\ OnceCreateSnapInstance # "running"
Up == /\ Single /\ client.vm = 1
      /\ vms[1].state = IF OnceCreateSnapInstance = "running" THEN "paused" ELSE "running"

Ready == OnceAddInstance[Current] = "done"

\* What a goroutine knows of the VM.
VMOK(g) ==
  /\ pc[g] = "connect" => Waking
  /\ pc[g] \in {"snap", "snapping"} => client.open
  /\ pc[g] = "snapping" => OnceCreateSnapInstance = "running"
  /\ pc[g] \in {"unlock", "retire", "retireWait"} => OnceCreateSnapInstance = "done"

\* The connection is open, and the VM up, exactly while the current Once is done; before,
\* the VM is being woken by the goroutine at connect, or is down.
PhaseInv ==
  /\ client.open <=> Ready
  /\ Ready => Up
  /\ ~Ready /\ (\A g \in Procs : pc[g] # "connect") => Down

VMInv ==
  /\ ~crashed /\ snapshotsEnabled
  /\ \A g \in Requests : stopper[g] = "none"
  /\ isSnapshotReady <=> OnceCreateSnapInstance = "done"
  /\ PhaseInv
  /\ \A g \in Procs : VMOK(g)
  /\ \A g, h \in Procs : pc[g] = "snapping" /\ pc[h] = "snapping" => g = h

\* Requests of a pinned function have no place in a round; all others have one.
RoundInv ==
  /\ isPinnedInMem => Current = 1
  /\ \A g \in Requests : /\ isPinnedInMem => syncID[g] = -1 /\ pc[g] # "acquired"
                         /\ ~isPinnedInMem /\ pc[g] \in InService => syncID[g] \in 0..(ServedTh - 1)

-----------------------------------------------------------------------------
(* Snapshots. *)

LEMMA SetVMFacts ==
  ASSUME TypeOK, NEW v \in 0..Len(vms), NEW s \in VMStates, SetVM(v, s)
  PROVE  /\ Len(vms') = Len(vms)
         /\ \A i \in 1..Len(vms) : vms'[i].snap = vms[i].snap
         /\ \A i \in 1..Len(vms) : vms'[i].state = IF i = v THEN s ELSE vms[i].state
<1>1. vms \in [1..Len(vms) -> VM] /\ Len(vms) \in Nat
  BY DEF TypeOK
<1>2. vms' = [i \in 1..Len(vms) |-> IF i = v THEN [vms[i] EXCEPT !.state = s] ELSE vms[i]]
  BY <1>1 DEF SetVM
<1>3. \A i \in 1..Len(vms) : vms[i] \in VM
  BY <1>1
<1>4. \A i \in 1..Len(vms) : vms'[i] = IF i = v THEN [vms[i] EXCEPT !.state = s] ELSE vms[i]
  BY <1>2
<1> QED BY <1>3, <1>4, SetVMType DEF VM

\* A step that leaves f.vmID and isSnapshotReady alone.
LEMMA SnapFrame ==
  ASSUME TypeOK, SnapInv, UNCHANGED <<vmID, isSnapshotReady>>,
         vms' = vms \/ \E v \in 0..Len(vms), s \in VMStates : SetVM(v, s),
         client'.vm \in {client.vm, vmID},
         \A g \in Requests : pc'[g] \in {"snap", "snapping"} => pc[g] \in {"snap", "snapping"} \/ client.vm # 0
  PROVE  SnapInv'
<1>1. \A i \in 1..Len(vms) : vms'[i].snap = vms[i].snap
  BY SetVMFacts
<1>2. SnapshotOfCurrentVM'
  BY <1>1 DEF SnapInv, SnapshotOfCurrentVM, TypeOK
<1> QED BY <1>2 DEF SnapInv

LEMMA SnapNext ==
  ASSUME IInv, SnapInv, Next
  PROVE  SnapInv'
<1> USE DEF IInv
<1>1. ASSUME UNCHANGED <<vms, vmID, client, isSnapshotReady, pc>> PROVE SnapInv'
  BY <1>1 DEF SnapInv, SnapshotOfCurrentVM
<1>2. ASSUME Crash PROVE SnapInv'
  BY <1>1, <1>2 DEF Crash, vmVars, snapVars
<1>3. ASSUME NEW g \in Procs, NEW l \in Labels \ {"snap", "snapping"}, Goto(g, l),
             UNCHANGED <<vms, vmID, client, isSnapshotReady>>
      PROVE  SnapInv'
  BY <1>3, SnapFrame DEF Goto, TypeOK
<1>4. ASSUME NEW g \in Requests, ServeStep(g) PROVE SnapInv'
  <2>0. g \in Procs
    BY DEF Procs
  <2> USE <1>3, <2>0 DEF Labels, instVars, snapVars, vmVars
  <2>1. CASE Acquire(g)
    BY <2>1 DEF Acquire
  <2>2. CASE CountDown(g) \/ IncServed(g) \/ Reset(g) \/ Release(g)
    BY <2>2 DEF CountDown, IncServed, Reset, Release
  <2>3. CASE ServeRLock(g) \/ FwdRLock(g)
    BY <2>3 DEF ServeRLock, FwdRLock
  <2>4. CASE ReplyErr(g) \/ SnapSkip(g)
    BY <2>4 DEF ReplyErr, SnapSkip
  <2>5. CASE ServeRUnlock(g)
    <3>1. PICK l \in {"retire", "done"} : Goto(g, l)
      BY <2>5 DEF ServeRUnlock
    <3> QED BY <2>5, <3>1 DEF ServeRUnlock
  <2>6. CASE ReplyOK(g)
    <3>1. client.vm # 0 /\ UNCHANGED <<vms, vmID, client, isSnapshotReady>>
      BY <2>6 DEF ReplyOK, Reachable
    <3>2. \A h \in Requests : h # g => pc'[h] = pc[h]
      BY <2>6 DEF ReplyOK, Goto, TypeOK, Procs
    <3> QED BY <3>1, <3>2, SnapFrame
  <2>7. CASE SnapPause(g)
    <3>1. CASE Crash
      BY <1>2, <3>1
    <3>2. CASE ~Crash
      <4>1. /\ SetVM(vmID, "paused") /\ Goto(g, "snapping") /\ pc[g] = "snap"
            /\ UNCHANGED <<vmID, isSnapshotReady, client>>
        BY <2>7, <3>2 DEF SnapPause, At
      <4>2. \A h \in Requests : h # g => pc'[h] = pc[h]
        BY <4>1 DEF Goto, TypeOK, Procs
      <4>3. \E v \in 0..Len(vms), s \in VMStates : SetVM(v, s)
        BY <4>1 DEF TypeOK, VMStates
      <4> QED BY <4>1, <4>2, <4>3, SnapFrame
    <3> QED BY <3>1, <3>2
  <2>8. CASE SnapCreate(g)
    <3>1. /\ vms' = [vms EXCEPT ![vmID] = [state |-> "running", snap |-> TRUE]]
          /\ Goto(g, "unlock") /\ UNCHANGED <<vmID, client>> /\ pc[g] = "snapping"
      BY <2>8 DEF SnapCreate, At
    <3>2. vmID \in 1..Len(vms)
      BY <3>1 DEF SnapInv, TypeOK
    <3>3. vms'[vmID].snap
      BY <3>1, <3>2 DEF TypeOK
    <3>4. \A h \in Requests : h # g => pc'[h] = pc[h]
      BY <3>1 DEF Goto, TypeOK, Procs
    <3> QED BY <3>1, <3>2, <3>3, <3>4 DEF SnapInv, SnapshotOfCurrentVM
  <2> QED BY <1>4, <2>1, <2>2, <2>3, <2>4, <2>5, <2>6, <2>7, <2>8 DEF ServeStep
<1>5. ASSUME NEW g \in Procs, InstanceStep(g) PROVE SnapInv'
  <2> USE <1>3 DEF Labels, instVars, snapVars, vmVars
  <2>1. CASE ReadOnce(g) \/ OnceRun(g)
    BY <2>1 DEF ReadOnce, OnceRun
  <2>2. CASE OnceSkip(g)
    BY <2>2 DEF OnceSkip, AfterOnce
  <2>3. CASE LockBegin(g)
    BY <2>3 DEF LockBegin
  <2>4. CASE AddInstance(g)
    <3>1. CASE Crash
      BY <1>2, <3>1
    <3>2. CASE ~Crash
      <4>1. /\ IF isSnapshotReady THEN LoadInstance ELSE StartVM
            /\ Goto(g, "connect") /\ UNCHANGED <<client, isSnapshotReady>>
        BY <2>4, <3>2 DEF AddInstance
      <4>2. \A h \in Requests : pc'[h] \in {"snap", "snapping"} => pc[h] \in {"snap", "snapping"}
        BY <4>1 DEF Goto, TypeOK, Procs
      <4>3. CASE isSnapshotReady
        <5>1. SetVM(vmID, "running") /\ vmID' = vmID
          BY <4>1, <4>3 DEF LoadInstance
        <5>2. \E v \in 0..Len(vms), s \in VMStates : SetVM(v, s)
          BY <5>1 DEF TypeOK, VMStates
        <5> QED BY <4>1, <4>2, <5>1, <5>2, SnapFrame
      <4>4. CASE ~isSnapshotReady
        <5>1. vmID' # 0
          BY <4>1, <4>4 DEF StartVM, TypeOK
        <5> QED BY <4>1, <4>4, <5>1 DEF SnapInv, SnapshotOfCurrentVM
      <4> QED BY <4>3, <4>4
    <3> QED BY <3>1, <3>2
  <2>5. CASE Connect(g)
    <3>1. CASE Crash
      BY <1>2, <3>1
    <3>2. CASE ~Crash
      <4>1. /\ client' = [vm |-> vmID, open |-> TRUE] /\ Goto(g, AfterOnce(g))
            /\ UNCHANGED <<vms, vmID, isSnapshotReady>>
        BY <2>5, <3>2 DEF Connect
      <4>2. \A h \in Requests : pc'[h] \in {"snap", "snapping"} => pc[h] \in {"snap", "snapping"}
        BY <4>1 DEF Goto, TypeOK, Procs, AfterOnce
      <4> QED BY <4>1, <4>2, SnapFrame
    <3> QED BY <3>1, <3>2
  <2> QED BY <1>5, <2>1, <2>2, <2>3, <2>4, <2>5 DEF InstanceStep
<1>6. ASSUME NEW g \in Procs, RemoveStep(g), ~Crash PROVE SnapInv'
  <2>1. AfterRemove(g)
    BY <1>6 DEF RemoveStep, RemoveOffload, RemoveAsync, RemoveSync
  <2>2. \A h \in Requests : pc'[h] \in {"snap", "snapping"} => pc[h] \in {"snap", "snapping"}
    BY <2>1 DEF AfterRemove, Goto, TypeOK, Procs
  <2>3. vms' = vms \/ \E v \in 0..Len(vms), s \in VMStates : SetVM(v, s)
    BY <1>6 DEF RemoveStep, RemoveOffload, RemoveAsync, RemoveSync, TypeOK, VMStates
  <2>4. client' = client \/ client' = [client EXCEPT !.open = FALSE]
    BY <1>6 DEF RemoveStep, RemoveOffload, RemoveAsync, RemoveSync
  <2>5. client'.vm = client.vm
    BY <2>4 DEF TypeOK
  <2> QED BY <2>1, <2>2, <2>3, <2>5, SnapFrame DEF AfterRemove, snapVars
<1>7. ASSUME NEW g \in Requests, StopperStep(g), ~Crash PROVE SnapInv'
  <2>1. UNCHANGED <<vmID, client, isSnapshotReady, pc>>
    BY <1>7 DEF StopperStep, StopperBegin, StopperEnd, vmVars, snapVars
  <2>2. vms' = vms \/ \E v \in 0..Len(vms), s \in VMStates : SetVM(v, s)
    BY <1>7 DEF StopperStep, StopperBegin, StopperEnd, vmVars, TypeOK, VMStates
  <2> QED BY <2>1, <2>2, SnapFrame
<1> QED BY <1>2, <1>4, <1>5, <1>6, <1>7 DEF Next, Step, OrchError

\* isSnapshotReady speaks of the VM that f.vmID names now, for any number of requests,
\* AddInstance and StopSingleVM calls, in every mode and whatever fails
\* (functions.go 304, 354): the flag is set for the VM in use, and a VM of another name is
\* started only while the flag is not set.
THEOREM SnapshotCorrect == Spec => []SnapshotOfCurrentVM
<1>1. Init => SnapInv
  BY DEF Init, SnapInv, SnapshotOfCurrentVM, Procs
<1>2. IInv /\ SnapInv /\ [Next]_vars => SnapInv'
  <2>1. ASSUME SnapInv, UNCHANGED vars PROVE SnapInv'
    BY <2>1 DEF vars, instVars, vmVars, snapVars, SnapInv, SnapshotOfCurrentVM
  <2> QED BY <2>1, SnapNext
<1>3. SnapInv => SnapshotOfCurrentVM
  BY DEF SnapInv
<1> QED BY <1>1, <1>2, <1>3, Inductive, PTL DEF Spec

-----------------------------------------------------------------------------
(* The Onces. *)

\* A goroutine moves; the Onces stay.
LEMMA OnceFrame ==
  ASSUME TypeOK, OnceInv, NEW g \in Procs, NEW l \in Labels, Goto(g, l), UNCHANGED onceVars,
         \A h \in Requests : syncID'[h] = syncID[h] \/ (h = g /\ l \notin Holding),
         l \in Holding => pc[g] \in Holding,
         l \in InDo => pc[g] \in InDo,
         l \in PastDo => pc[g] \in PastDo \/ OnceAddInstance[onceOf[g]] = "done",
         g \notin Requests => l \in {"stat", "once", "done"} \cup InDo
  PROVE  OnceInv'
<1>1. pc'[g] = l /\ \A h \in Procs : h # g => pc'[h] = pc[h]
  BY DEF Goto, TypeOK
<1>2. UNCHANGED <<OnceAddInstance, onceOf>> /\ Current' = Current
  BY DEF onceVars, Current
<1>3. \A h \in Procs : pc'[h] \in Holding /\ h \in Retirers' => h \in Retirers
  BY <1>1 DEF Retirers, Holding, InService
<1>4. \A h \in Procs : OnceOK(h)'
  <2> SUFFICES ASSUME NEW h \in Procs PROVE OnceOK(h)'
    OBVIOUS
  <2>0. OnceOK(h)
    BY DEF OnceInv
  <2>1. CASE h = g
    BY <1>1, <1>2, <1>3, <2>0, <2>1 DEF OnceOK
  <2>2. CASE h # g
    BY <1>1, <1>2, <1>3, <2>0, <2>2 DEF OnceOK
  <2> QED BY <2>1, <2>2
<1>5. Starting' \subseteq Starting
  BY <1>1 DEF Starting, InDo
<1> QED BY <1>2, <1>4, <1>5 DEF OnceInv

LEMMA OnceServe ==
  ASSUME IInv, OnceInv, NEW g \in Requests, ServeStep(g), ~Crash
  PROVE  OnceInv'
<1> USE DEF IInv
<1>0. g \in Procs
  BY DEF Procs
<1>1. ASSUME NEW l \in Labels, Goto(g, l), UNCHANGED onceVars, syncID' = syncID,
             \/ l \notin Holding
             \/ l \in PastDo /\ pc[g] \in PastDo
      PROVE  OnceInv'
  BY <1>0, <1>1, OnceFrame DEF PastDo, Holding, InDo
<1> USE <1>0, <1>1 DEF At, Labels, Holding, PastDo, InDo, countVars, gateVars, instVars
<1>2. CASE Acquire(g)
  BY <1>2 DEF Acquire
<1>3. CASE CountDown(g)
  <2>1. Goto(g, "counted") /\ UNCHANGED onceVars /\ \A h \in Requests : h # g => syncID'[h] = syncID[h]
    BY <1>3 DEF CountDown, TypeOK
  <2> QED BY <2>1, OnceFrame
<1>4. CASE IncServed(g) \/ Reset(g) \/ Release(g)
  BY <1>4 DEF IncServed, Reset, Release
<1>5. CASE ServeRLock(g)
  BY <1>5 DEF ServeRLock
<1>6. CASE FwdRLock(g)
  BY <1>6 DEF FwdRLock
<1>7. CASE ReplyOK(g)
  <2>1. PICK l \in {"snap", "unlock"} : Goto(g, l)
    BY <1>7 DEF ReplyOK
  <2> QED BY <1>7, <2>1 DEF ReplyOK
<1>8. CASE ReplyErr(g)
  BY <1>8 DEF ReplyErr
<1>9. CASE SnapSkip(g)
  BY <1>9 DEF SnapSkip
<1>10. CASE SnapPause(g)
  BY <1>10 DEF SnapPause
<1>11. CASE SnapCreate(g)
  BY <1>11 DEF SnapCreate
<1>12. CASE ServeRUnlock(g)
  <2>1. PICK l \in {"retire", "done"} : Goto(g, l)
    BY <1>12 DEF ServeRUnlock
  <2> QED BY <1>12, <2>1 DEF ServeRUnlock
<1> QED BY <1>2, <1>3, <1>4, <1>5, <1>6, <1>7, <1>8, <1>9, <1>10, <1>11, <1>12 DEF ServeStep

\* The goroutine that marks a Once marks the current one: the earlier are done.
LEMMA OnceMark ==
  ASSUME TypeOK, OnceInv, NEW g \in Procs, NEW s \in {"running", "done"}, NEW l \in Labels,
         pc[g] \in {"once"} \cup InDo, OnceAddInstance[onceOf[g]] # "done", MarkOnce(g, s), Goto(g, l),
         onceOf' = onceOf, syncID' = syncID,
         s = "running" => Starting = {} /\ l = "addLock",
         s = "done" => pc[g] \in InDo /\ l = AfterOnce(g)
  PROVE  OnceInv' /\ onceOf[g] = Current /\ OnceAddInstance'[Current] = s /\ Current' = Current
<1>1. pc'[g] = l /\ \A h \in Procs : h # g => pc'[h] = pc[h]
  BY DEF Goto, TypeOK
<1>2. onceOf[g] \in 1..Current /\ onceOf[g] = Current
  <2>1. onceOf[g] \in 1..Current
    BY DEF OnceInv, OnceOK, Holding, InDo
  <2>2. Current \in Nat
    BY DEF Current, TypeOK
  <2> QED BY <2>1, <2>2 DEF OnceInv
<1>3. /\ Current' = Current /\ OnceAddInstance'[Current] = s
      /\ \A j \in 1..Current : j # Current => OnceAddInstance'[j] = OnceAddInstance[j]
  BY <1>2, MarkOnceType DEF MarkOnce, Current, TypeOK, OnceStates
<1>4. \A h \in Procs : OnceOK(h)'
  <2> SUFFICES ASSUME NEW h \in Procs PROVE OnceOK(h)'
    OBVIOUS
  <2>0. OnceOK(h)
    BY DEF OnceInv
  <2>1. CASE h = g
    <3>1. CASE s = "running"
      BY <1>1, <1>2, <1>3, <2>1, <3>1 DEF OnceOK, Holding, PastDo, InDo
    <3>2. CASE s = "done"
      <4>1. g \in Retirers' => g \in Retirers
        BY <1>1, <3>2 DEF AfterOnce, Retirers, InService, InDo
      <4>2. pc'[g] = IF g \in Requests THEN "ready" ELSE "done"
        BY <1>1, <3>2 DEF AfterOnce
      <4> QED BY <1>1, <1>2, <1>3, <2>1, <3>2, <4>1, <4>2 DEF OnceOK, Holding, PastDo, InDo
    <3> QED BY <3>1, <3>2
  <2>2. CASE h # g
    <3>1. h \in Retirers' <=> h \in Retirers
      BY <1>1, <2>2 DEF Retirers
    <3>2. pc[h] \notin InDo
      <4>1. s = "done" => g \in Starting
        BY DEF Starting, InDo
      <4>2. pc[h] \in InDo => h \in Starting
        BY DEF Starting, InDo
      <4> QED BY <2>2, <4>1, <4>2 DEF OnceInv
    <3>3. pc[h] \in PastDo => OnceAddInstance[onceOf[h]] = "done" /\ onceOf[h] \in 1..Current
      BY <2>0 DEF OnceOK, PastDo
    <3>4. pc[h] \in PastDo => onceOf[h] # Current /\ OnceAddInstance'[onceOf[h]] = "done"
      BY <1>2, <1>3, <3>3
    <3> QED BY <1>1, <1>3, <2>0, <2>2, <3>1, <3>2, <3>4 DEF OnceOK
  <2> QED BY <2>1, <2>2
<1>5. \A h, k \in Starting' : h = k
  <2>1. CASE s = "running"
    <3>1. \A h \in Starting' : h = g
      BY <1>1, <2>1 DEF Starting
    <3> QED BY <3>1
  <2>2. CASE s = "done"
    <3>1. Starting' \subseteq Starting
      BY <1>1, <2>2 DEF Starting, AfterOnce
    <3> QED BY <3>1 DEF OnceInv
  <2> QED BY <2>1, <2>2
<1> QED BY <1>2, <1>3, <1>4, <1>5 DEF OnceInv

LEMMA OnceInstance ==
  ASSUME Stops = {}, IInv, OnceInv, NEW g \in Procs, InstanceStep(g), ~Crash
  PROVE  OnceInv'
<1> USE DEF IInv
<1>0. OnceOK(g)
  BY DEF OnceInv
<1>1. CASE ReadOnce(g)
  <2>1. /\ pc[g] = "stat" /\ Goto(g, "once") /\ onceOf' = [onceOf EXCEPT ![g] = Current]
        /\ UNCHANGED <<OnceAddInstance, syncID>>
    BY <1>1 DEF ReadOnce, At, Current, countVars, gateVars
  <2>2. /\ pc'[g] = "once" /\ onceOf'[g] = Current /\ Current' = Current
        /\ \A h \in Procs : h # g => pc'[h] = pc[h] /\ onceOf'[h] = onceOf[h]
    BY <2>1 DEF Goto, TypeOK, Current
  <2>3. Current \in 1..Current
    BY DEF OnceInv, TypeOK, Current
  <2>4. OnceOK(g)'
    BY <2>2, <2>3 DEF OnceOK, Holding, InDo, PastDo
  <2>5. \A h \in Procs : h # g => OnceOK(h)'
    <3> SUFFICES ASSUME NEW h \in Procs, h # g PROVE OnceOK(h)'
      OBVIOUS
    <3>1. OnceOK(h)
      BY DEF OnceInv
    <3>2. h \in Retirers' <=> h \in Retirers
      BY <2>1, <2>2 DEF Retirers
    <3> QED BY <2>1, <2>2, <3>1, <3>2 DEF OnceOK
  <2>6. Starting' = Starting
    BY <2>1, <2>2 DEF Starting
  <2> QED BY <2>1, <2>2, <2>4, <2>5, <2>6 DEF OnceInv
<1>2. CASE OnceSkip(g)
  <2>1. /\ UNCHANGED <<onceVars, syncID>> /\ Goto(g, AfterOnce(g)) /\ pc[g] = "once"
        /\ OnceAddInstance[onceOf[g]] = "done"
    BY <1>2 DEF OnceSkip, At, countVars, gateVars, instVars
  <2>2. PICK l \in {"ready", "done"} : l = AfterOnce(g) /\ (g \notin Requests => l = "done")
    BY DEF AfterOnce
  <2>3. /\ l \in Holding => pc[g] \in Holding
        /\ l \notin InDo /\ l \in Labels
    BY <2>1 DEF Holding, InDo, Labels
  <2> QED BY <2>1, <2>2, <2>3, OnceFrame
<1>3. CASE OnceRun(g)
  <2>1. /\ pc[g] = "once" /\ OnceAddInstance[onceOf[g]] = "new" /\ MarkOnce(g, "running")
        /\ Goto(g, "addLock") /\ UNCHANGED <<onceOf, syncID>>
    BY <1>3 DEF OnceRun, At, countVars, gateVars
  <2>2. Starting = {}
    <3> SUFFICES ASSUME NEW h \in Starting PROVE FALSE
      OBVIOUS
    <3>1. h \in Procs /\ pc[h] \in InDo /\ OnceOK(h)
      BY DEF Starting, InDo, OnceInv
    <3>2. onceOf[h] \in 1..Current /\ OnceAddInstance[onceOf[h]] = "running"
      BY <3>1 DEF OnceOK, Holding, InDo
    <3>3. onceOf[g] \in 1..Current
      BY <1>0, <2>1 DEF OnceOK, Holding
    <3>4. Current \in Nat
      BY DEF TypeOK, Current
    <3>5. onceOf[h] = Current /\ onceOf[g] = Current
      BY <2>1, <3>2, <3>3, <3>4 DEF OnceInv
    <3> QED BY <2>1, <3>2, <3>5
  <2> QED BY <2>1, <2>2, OnceMark DEF Labels
<1>4. CASE LockBegin(g)
  <2>1. PICK l \in {"addWait", "retireWait"} :
          /\ Goto(g, l) /\ pc[g] = IF l = "addWait" THEN "addLock" ELSE "retire"
    BY <1>4 DEF LockBegin, At
  <2>2. UNCHANGED <<onceVars, syncID>>
    BY <1>4 DEF LockBegin, countVars, gateVars, instVars
  <2>3. g \notin Requests => l = "addWait"
    BY <1>0, <2>1 DEF OnceOK, InDo
  <2>4. /\ l \in Labels /\ pc[g] \in Holding
        /\ l \in InDo => pc[g] \in InDo
        /\ l \in PastDo => pc[g] \in PastDo
        /\ l = "addWait" => l \in InDo
    BY <2>1 DEF Holding, InDo, PastDo, Labels
  <2> QED BY <2>1, <2>2, <2>3, <2>4, OnceFrame
<1>5. CASE AddInstance(g)
  <2>1. /\ UNCHANGED <<onceVars, syncID>> /\ Goto(g, "connect") /\ pc[g] = "addWait"
    BY <1>5 DEF AddInstance, At, countVars, gateVars
  <2> QED BY <2>1, OnceFrame DEF Holding, InDo, PastDo, Labels
<1>6. CASE Connect(g)
  <2>1. /\ pc[g] = "connect" /\ MarkOnce(g, "done") /\ Goto(g, AfterOnce(g)) /\ UNCHANGED <<onceOf, syncID>>
    BY <1>6 DEF Connect, At, gateVars
  <2>2. AfterOnce(g) \in Labels
    BY DEF AfterOnce, Labels
  <2>3. OnceAddInstance[onceOf[g]] = "running"
    BY <1>0, <2>1 DEF OnceOK, InDo
  <2> QED BY <2>1, <2>2, <2>3, OnceMark DEF InDo
<1> QED BY <1>1, <1>2, <1>3, <1>4, <1>5, <1>6 DEF InstanceStep

\* When the Once is replaced it is done, and nobody starts an instance.
LEMMA OnceReplaced ==
  ASSUME Stops = {}, IInv, OnceInv, NEW g \in Procs, pc[g] = "retireWait"
  PROVE  g \in Requests /\ g \in Retirers /\ OnceAddInstance[Current] = "done" /\ Starting = {}
<1> USE DEF IInv
<1>0. OnceOK(g)
  BY DEF OnceInv
<1>1. g \in Requests
  BY <1>0 DEF OnceOK, InDo
<1>2. g \in Retirers
  BY <1>1 DEF GateInv, Retirers, Retiring, InService
<1>3. OnceAddInstance[Current] = "done"
  BY <1>0, <1>2 DEF OnceOK, Holding, PastDo, InDo
<1>4. Starting = {}
  <2> SUFFICES ASSUME NEW h \in Starting PROVE FALSE
    OBVIOUS
  <2>1. OnceOK(h) /\ pc[h] \in InDo
    BY DEF Starting, InDo, OnceInv
  <2>2. onceOf[h] \in 1..Current /\ OnceAddInstance[onceOf[h]] = "running"
    BY <2>1 DEF OnceOK, Holding, InDo
  <2>3. Current \in Nat
    BY DEF TypeOK, Current
  <2> QED BY <1>3, <2>2, <2>3 DEF OnceInv
<1> QED BY <1>1, <1>2, <1>3, <1>4

LEMMA OnceRemove ==
  ASSUME Stops = {}, IInv, OnceInv, NEW g \in Procs, RemoveStep(g), ~Crash
  PROVE  OnceInv'
<1> USE DEF IInv
<1>1. pc[g] = "retireWait" /\ AfterRemove(g)
  BY DEF RemoveStep, RemoveOffload, RemoveAsync, RemoveSync, At
<1>2. /\ g \in Requests /\ g \in Retirers /\ OnceAddInstance[Current] = "done" /\ Starting = {}
  BY <1>1, OnceReplaced
<1>3. /\ OnceAddInstance' = Append(OnceAddInstance, "new") /\ UNCHANGED <<onceOf, syncID>>
      /\ Goto(g, "reset")
  BY <1>1, <1>2 DEF AfterRemove, NewOnce, countVars, gateVars
<1>4. /\ pc'[g] = "reset" /\ \A h \in Procs : h # g => pc'[h] = pc[h]
  BY <1>3 DEF Goto, TypeOK
<1>5. /\ Current \in Nat /\ Current' = Current + 1
      /\ \A j \in 1..Current : OnceAddInstance'[j] = OnceAddInstance[j]
  BY <1>3 DEF TypeOK, Current
<1>6. \A j \in 1..Current' : j < Current' => OnceAddInstance'[j] = "done"
  <2> SUFFICES ASSUME NEW j \in 1..Current', j < Current' PROVE OnceAddInstance'[j] = "done"
    OBVIOUS
  <2>1. j \in 1..Current
    BY <1>5
  <2>2. OnceAddInstance[j] = "done"
    BY <1>2, <1>5, <2>1 DEF OnceInv
  <2> QED BY <1>5, <2>1, <2>2
<1>7. \A h \in Procs : OnceOK(h)'
  <2> SUFFICES ASSUME NEW h \in Procs PROVE OnceOK(h)'
    OBVIOUS
  <2>0. OnceOK(h)
    BY DEF OnceInv
  <2>1. CASE h = g
    BY <1>2, <1>4, <2>1 DEF OnceOK, Holding, InDo, PastDo
  <2>2. CASE h # g
    <3>1. h \notin Retirers'
      <4>1. h \in Retirers' => h \in Retirers
        BY <1>3, <1>4, <2>2 DEF Retirers
      <4> QED BY <1>2, <2>2, <4>1 DEF GateInv, OneRetirer
    <3>2. pc[h] \in Holding => onceOf[h] \in 1..Current' /\ OnceAddInstance'[onceOf[h]] = OnceAddInstance[onceOf[h]]
      BY <1>5, <2>0 DEF OnceOK
    <3> QED BY <1>3, <1>4, <2>0, <2>2, <3>1, <3>2 DEF OnceOK, InDo, PastDo, Holding
  <2> QED BY <2>1, <2>2
<1>8. Starting' = {}
  BY <1>2, <1>4 DEF Starting
<1> QED BY <1>5, <1>6, <1>7, <1>8 DEF OnceInv

LEMMA OnceStutter ==
  ASSUME OnceInv, UNCHANGED <<pc, onceVars, syncID>>
  PROVE  OnceInv'
BY DEF OnceInv, OnceOK, onceVars, Current, Retirers, Starting

LEMMA OnceNext ==
  ASSUME Stops = {}, IInv, OnceInv, [Next]_vars
  PROVE  OnceInv'
<1>1. ASSUME Crash PROVE OnceInv'
  BY <1>1, OnceStutter DEF Crash, countVars, gateVars
<1>2. ASSUME NEW g \in Requests, StopperStep(g), ~Crash PROVE OnceInv'
  BY <1>2, OnceStutter DEF StopperStep, StopperBegin, StopperEnd, countVars, gateVars
<1>3. CASE UNCHANGED vars
  BY <1>3, OnceStutter DEF vars, countVars, gateVars, instVars
<1> QED BY <1>1, <1>2, <1>3, OnceServe, OnceInstance, OnceRemove DEF Next, Step, OrchError

LEMMA OnceInit == ASSUME Stops = {}, Init PROVE OnceInv
<1>1. Current = 1 /\ OnceAddInstance[1] = "new"
  BY DEF Init, Current
<1>2. \A g \in Procs : pc[g] = IF g \in Requests THEN "idle" ELSE "stat"
  BY DEF Init, Procs
<1>3. Starting = {} /\ Retirers = {}
  BY <1>2 DEF Starting, Retirers, InService, Procs
<1>4. \A g \in Procs : OnceOK(g)
  BY <1>2, <1>3 DEF OnceOK, Holding, InDo, PastDo
<1> QED BY <1>1, <1>3, <1>4 DEF OnceInv

\* No two goroutines start an instance at once, for any number of requests, rounds and
\* AddInstance calls, in every mode and whatever fails, as long as StopSingleVM is not
\* called: the request that replaces sync.Once finds the one it replaces done, because
\* no other request of its kind can have replaced it since (functions.go 251, 411).
THEOREM StartsExclusive == ASSUME Stops = {} PROVE Spec => []NoDoubleStart
<1>1. Init => OnceInv
  BY OnceInit
<1>2. IInv /\ OnceInv /\ [Next]_vars => OnceInv'
  BY OnceNext
<1>3. IInv /\ OnceInv => NoDoubleStart
  <2>1. ASSUME IInv, OnceInv, NEW g \in Requests, pc[g] = "retireWait"
        PROVE  OnceAddInstance[Len(OnceAddInstance)] = "done"
    BY <2>1, OnceReplaced DEF Procs, Current
  <2> QED BY <2>1 DEF NoDoubleStart, OnceInv
<1> QED BY <1>1, <1>2, <1>3, Inductive, PTL DEF Spec

-----------------------------------------------------------------------------
(* One VM, in the state that the next call needs.                           *)
(*                                                                          *)
(* From here on the function only serves requests: snapshots are on, no     *)
(* StopSingleVM comes, and the orchestrator does not fail on its own.       *)
OnlyServes == Stops = {} /\ SnapshotModes = {TRUE} /\ ~OrchMayFail

AllInv == IInv /\ SnapInv /\ OnceInv /\ VMInv

VMView == <<vms, vmID, client, OnceCreateSnapInstance, isSnapshotReady, OnceAddInstance>>
ModeView == <<stopper, crashed, snapshotsEnabled>>

\* A goroutine moves; the VM, the connection and the Onces stay.
LEMMA VMFrame ==
  ASSUME TypeOK, VMInv, NEW g \in Procs, NEW l \in Labels, Goto(g, l), UNCHANGED <<VMView, ModeView>>,
         "connect" \notin {pc[g], l}, l # "snapping",
         l = "snap" => client.open,
         l \in {"unlock", "retire", "retireWait"} => OnceCreateSnapInstance = "done"
  PROVE  VMInv'
<1>1. pc'[g] = l /\ \A h \in Procs : h # g => pc'[h] = pc[h]
  BY DEF Goto, TypeOK
<1>2. UNCHANGED <<vms, vmID, client, OnceCreateSnapInstance, isSnapshotReady, OnceAddInstance,
                  stopper, crashed, snapshotsEnabled>>
  BY DEF VMView, ModeView
<1>3. (Waking <=> Waking') /\ (Up <=> Up') /\ (Down <=> Down') /\ (Ready <=> Ready')
  BY <1>2 DEF Waking, Up, Down, Single, Ready, Current
<1>4. PhaseInv'
  BY <1>1, <1>2, <1>3 DEF VMInv, PhaseInv
<1>5. \A h \in Procs : VMOK(h)'
  BY <1>1, <1>2, <1>3 DEF VMInv, VMOK
<1> QED BY <1>1, <1>2, <1>4, <1>5 DEF VMInv

\* While the instance is up nobody starts one.
LEMMA UpNoStart ==
  ASSUME TypeOK, OnceInv, Ready
  PROVE  \A g \in Procs : pc[g] \notin InDo
<1> SUFFICES ASSUME NEW g \in Procs, pc[g] \in InDo PROVE FALSE
  OBVIOUS
<1>1. onceOf[g] \in 1..Current /\ OnceAddInstance[onceOf[g]] = "running"
  BY DEF OnceInv, OnceOK, Holding, InDo
<1>2. Current \in Nat
  BY DEF Current, TypeOK
<1> QED BY <1>1, <1>2 DEF OnceInv, Ready

LEMMA VMSnapPause ==
  ASSUME AllInv, NEW g \in Requests, SnapPause(g), UNCHANGED options
  PROVE  VMInv'
<1> USE DEF AllInv, IInv
<1>0. g \in Procs /\ pc[g] = "snap" /\ OnceCreateSnapInstance = "new"
  BY DEF SnapPause, At, Procs
<1>1. client.open /\ Ready /\ Up
  BY <1>0 DEF VMInv, VMOK, PhaseInv
<1>2. Len(vms) = 1 /\ vmID = 1 /\ client.vm = 1 /\ vms[1].state = "running"
  BY <1>0, <1>1 DEF Up, Single
<1>3. /\ SetVM(1, "paused") /\ OnceCreateSnapInstance' = "running" /\ Goto(g, "snapping")
      /\ UNCHANGED <<vmID, client, isSnapshotReady, OnceAddInstance, stopper, crashed, snapshotsEnabled>>
  BY <1>2 DEF SnapPause, onceVars, stopVars, auxVars, options
<1>4. Len(vms') = 1 /\ vms'[1].state = "paused"
  BY <1>2, <1>3, SetVMFacts DEF VMStates
<1>5. pc'[g] = "snapping" /\ \A h \in Procs : h # g => pc'[h] = pc[h]
  BY <1>0, <1>3 DEF Goto, TypeOK
<1>6. Up' /\ Ready'
  BY <1>1, <1>2, <1>3, <1>4 DEF Up, Single, Ready, Current
<1>7. PhaseInv'
  BY <1>1, <1>3, <1>6 DEF PhaseInv
<1>8. \A h \in Procs : /\ pc[h] \notin {"connect", "snapping", "unlock", "retire", "retireWait"}
                       /\ pc'[h] \notin {"connect", "unlock", "retire", "retireWait"}
                       /\ pc'[h] = "snapping" => h = g
  BY <1>0, <1>1, <1>5, UpNoStart DEF VMInv, VMOK, InDo
<1>9. \A h \in Procs : VMOK(h)'
  BY <1>1, <1>3, <1>8 DEF VMOK
<1>10. isSnapshotReady' <=> OnceCreateSnapInstance' = "done"
  BY <1>0, <1>3 DEF VMInv
<1> QED BY <1>3, <1>7, <1>8, <1>9, <1>10 DEF VMInv

LEMMA VMSnapCreate ==
  ASSUME AllInv, NEW g \in Requests, SnapCreate(g), UNCHANGED options
  PROVE  VMInv'
<1> USE DEF AllInv, IInv
<1>0. g \in Procs /\ pc[g] = "snapping" /\ OnceCreateSnapInstance = "running"
  BY DEF SnapCreate, At, Procs, VMInv, VMOK
<1>1. client.open /\ Ready /\ Up
  BY <1>0 DEF VMInv, VMOK, PhaseInv
<1>2. Len(vms) = 1 /\ vmID = 1 /\ client.vm = 1
  BY <1>1 DEF Up, Single
<1>3. /\ vms' = [vms EXCEPT ![1] = [state |-> "running", snap |-> TRUE]]
      /\ OnceCreateSnapInstance' = "done" /\ isSnapshotReady' = TRUE /\ Goto(g, "unlock")
      /\ UNCHANGED <<vmID, client, OnceAddInstance, stopper, crashed, snapshotsEnabled>>
  BY <1>2 DEF SnapCreate, SnapshotReady, onceVars, stopVars, auxVars, options
<1>4. Len(vms') = 1 /\ vms'[1].state = "running"
  BY <1>2, <1>3 DEF TypeOK
<1>5. pc'[g] = "unlock" /\ \A h \in Procs : h # g => pc'[h] = pc[h]
  BY <1>0, <1>3 DEF Goto, TypeOK
<1>6. Up' /\ Ready'
  BY <1>1, <1>2, <1>3, <1>4 DEF Up, Single, Ready, Current
<1>7. PhaseInv'
  BY <1>1, <1>3, <1>6 DEF PhaseInv
<1>8. \A h \in Procs : pc'[h] \notin {"connect", "snapping"}
  BY <1>0, <1>1, <1>5, UpNoStart DEF VMInv, InDo
<1>9. \A h \in Procs : VMOK(h)'
  BY <1>1, <1>3, <1>8 DEF VMOK
<1> QED BY <1>3, <1>7, <1>8, <1>9 DEF VMInv

LEMMA VMServe ==
  ASSUME AllInv, NEW g \in Requests, ServeStep(g), UNCHANGED options
  PROVE  VMInv'
<1> USE DEF AllInv, IInv
<1>0. g \in Procs /\ VMOK(g)
  BY DEF Procs, VMInv
<1>1. ASSUME NEW l \in Labels, Goto(g, l), UNCHANGED <<VMView, stopper, crashed>>,
             "connect" \notin {pc[g], l}, l # "snapping",
             l = "snap" => client.open,
             l \in {"unlock", "retire", "retireWait"} => OnceCreateSnapInstance = "done"
      PROVE  VMInv'
  BY <1>0, <1>1, VMFrame DEF ModeView, options
<1> USE <1>1 DEF At, Labels, instVars, onceVars, snapVars, vmVars, stopVars, auxVars, VMView
<1>2. CASE Acquire(g)
  BY <1>2 DEF Acquire
<1>3. CASE CountDown(g) \/ IncServed(g)
  BY <1>3 DEF CountDown, IncServed
<1>4. CASE Reset(g) \/ Release(g)
  BY <1>4 DEF Reset, Release
<1>5. CASE ServeRLock(g) \/ FwdRLock(g)
  BY <1>5 DEF ServeRLock, FwdRLock
<1>6. CASE ReplyOK(g)
  <2>1. Goto(g, "snap") /\ client.open
    BY <1>6 DEF ReplyOK, Reachable, VMInv
  <2> QED BY <1>6, <2>1 DEF ReplyOK
<1>7. CASE ReplyErr(g)
  BY <1>7 DEF ReplyErr
<1>8. CASE SnapSkip(g)
  BY <1>8 DEF SnapSkip
<1>9. CASE SnapPause(g)
  BY <1>9, VMSnapPause
<1>10. CASE SnapCreate(g)
  BY <1>10, VMSnapCreate
<1>11. CASE ServeRUnlock(g)
  <2>1. PICK l \in {"retire", "done"} : Goto(g, l)
    BY <1>11 DEF ServeRUnlock
  <2>2. OnceCreateSnapInstance = "done" /\ pc[g] = "unlock"
    BY <1>0, <1>11 DEF ServeRUnlock, VMOK
  <2> QED BY <1>11, <2>1, <2>2 DEF ServeRUnlock
<1> QED BY <1>2, <1>3, <1>4, <1>5, <1>6, <1>7, <1>8, <1>9, <1>10, <1>11 DEF ServeStep

\* Waking the VM: the first start, or a load of the snapshot.
LEMMA VMAdd ==
  ASSUME AllInv, NEW g \in Procs, AddInstance(g), UNCHANGED options
  PROVE  VMInv'
<1> USE DEF AllInv, IInv
<1>0. pc[g] = "addWait"
  BY DEF AddInstance, At
<1>1. ~Ready /\ ~client.open
  BY <1>0, UpNoStart DEF InDo, VMInv, PhaseInv
<1>2. \A h \in Procs : h # g => pc[h] \notin InDo
  BY <1>0 DEF OnceInv, Starting, InDo
<1>3. Down
  BY <1>0, <1>1, <1>2 DEF VMInv, PhaseInv, InDo
<1>4. ~Crash /\ Single' /\ vms'[1].state = "running" /\ OnceCreateSnapInstance # "running"
  <2>1. CASE vms = <<>> /\ OnceCreateSnapInstance = "new"
    <3>1. ~isSnapshotReady
      BY <2>1 DEF VMInv
    <3>2. vms' = Append(vms, [state |-> "running", snap |-> FALSE]) /\ vmID' = Len(vms) + 1 /\ UNCHANGED crashed
      BY <3>1 DEF AddInstance, StartVM, auxVars
    <3>3. ~Crash
      BY <3>2 DEF Crash, VMInv
    <3> QED BY <2>1, <3>2, <3>3 DEF Single
  <2>2. CASE Single /\ vms[1].state = "offloaded" /\ OnceCreateSnapInstance = "done"
    <3>1. isSnapshotReady /\ vmID = 1 /\ Len(vms) = 1
      BY <2>2 DEF VMInv, Single
    <3>2. Loadable(vmID)
      BY <2>2, <3>1 DEF Loadable, SnapInv, SnapshotOfCurrentVM
    <3>3. SetVM(1, "running") /\ vmID' = 1 /\ UNCHANGED crashed
      BY <3>1, <3>2 DEF AddInstance, LoadInstance, auxVars
    <3>4. Len(vms') = 1 /\ vms'[1].state = "running"
      BY <3>1, <3>3, SetVMFacts DEF VMStates
    <3>5. ~Crash
      BY <3>3 DEF Crash, VMInv
    <3> QED BY <2>2, <3>3, <3>4, <3>5 DEF Single
  <2> QED BY <1>3, <2>1, <2>2 DEF Down
<1>5. /\ Goto(g, "connect")
      /\ UNCHANGED <<client, OnceCreateSnapInstance, isSnapshotReady, OnceAddInstance, stopper, crashed, snapshotsEnabled>>
  BY <1>4 DEF AddInstance, onceVars, snapVars, stopVars, auxVars, options
<1>6. pc'[g] = "connect" /\ \A h \in Procs : h # g => pc'[h] = pc[h]
  BY <1>5 DEF Goto, TypeOK
<1>7. ~Ready' /\ Waking'
  BY <1>1, <1>4, <1>5 DEF Ready, Current, Waking
<1>8. PhaseInv'
  BY <1>1, <1>5, <1>6, <1>7 DEF PhaseInv
<1>9. \A h \in Procs : VMOK(h)'
  BY <1>5, <1>6, <1>7 DEF VMInv, VMOK
<1> QED BY <1>5, <1>6, <1>8, <1>9 DEF VMInv

LEMMA VMConnect ==
  ASSUME AllInv, NEW g \in Procs, Connect(g), UNCHANGED options
  PROVE  VMInv'
<1> USE DEF AllInv, IInv
<1>0. pc[g] = "connect"
  BY DEF Connect, At
<1>1. Waking /\ vmID = 1 /\ Len(vms) = 1 /\ vms[1].state = "running" /\ OnceCreateSnapInstance # "running"
  BY <1>0 DEF VMInv, VMOK, Waking, Single
<1>2. /\ client' = [vm |-> 1, open |-> TRUE] /\ MarkOnce(g, "done") /\ Goto(g, AfterOnce(g))
      /\ UNCHANGED <<onceOf, syncID, vms, vmID, OnceCreateSnapInstance, isSnapshotReady, stopper, crashed,
                     snapshotsEnabled>>
  BY <1>1 DEF Connect, gateVars, snapVars, stopVars, auxVars, options
<1>3. OnceAddInstance'[Current] = "done" /\ Current' = Current
  <2>1. OnceAddInstance[onceOf[g]] = "running"
    BY <1>0 DEF OnceInv, OnceOK, InDo
  <2>2. AfterOnce(g) \in Labels
    BY DEF AfterOnce, Labels
  <2> QED BY <1>0, <1>2, <2>1, <2>2, OnceMark DEF InDo
<1>4. Ready' /\ client'.open /\ client'.vm = 1
  BY <1>2, <1>3 DEF Ready
<1>5. Up'
  BY <1>1, <1>2, <1>4 DEF Up, Single
<1>6. pc'[g] \in {"ready", "done"} /\ \A h \in Procs : h # g => pc'[h] = pc[h]
  BY <1>2 DEF Goto, TypeOK, AfterOnce
<1>7. \A h \in Procs : pc'[h] # "connect"
  BY <1>0, <1>6 DEF OnceInv, Starting
<1>8. PhaseInv'
  BY <1>4, <1>5 DEF PhaseInv
<1>9. \A h \in Procs : VMOK(h)'
  BY <1>2, <1>4, <1>6, <1>7 DEF VMInv, VMOK
<1> QED BY <1>2, <1>6, <1>8, <1>9 DEF VMInv

LEMMA VMInstance ==
  ASSUME AllInv, NEW g \in Procs, InstanceStep(g), UNCHANGED options
  PROVE  VMInv'
<1> USE DEF AllInv, IInv
<1>1. ASSUME NEW l \in Labels, Goto(g, l), UNCHANGED <<VMView, stopper, crashed>>,
             "connect" \notin {pc[g], l}, l \notin {"snap", "snapping"},
             l \in {"unlock", "retire", "retireWait"} => OnceCreateSnapInstance = "done"
      PROVE  VMInv'
  BY <1>1, VMFrame DEF ModeView, options
<1>2. CASE ReadOnce(g)
  BY <1>1, <1>2 DEF ReadOnce, At, Labels, snapVars, vmVars, stopVars, auxVars, VMView
<1>3. CASE OnceSkip(g)
  <2>1. AfterOnce(g) \in {"ready", "done"}
    BY DEF AfterOnce
  <2> QED BY <1>1, <1>3, <2>1
          DEF OnceSkip, At, Labels, instVars, onceVars, snapVars, vmVars, stopVars, auxVars, VMView
<1>4. CASE OnceRun(g)
  <2>1. /\ pc[g] = "once" /\ OnceAddInstance[onceOf[g]] = "new" /\ MarkOnce(g, "running") /\ Goto(g, "addLock")
        /\ UNCHANGED <<vms, vmID, client, OnceCreateSnapInstance, isSnapshotReady, stopper, crashed,
                       snapshotsEnabled>>
    BY <1>4 DEF OnceRun, At, snapVars, vmVars, stopVars, auxVars, options
  <2>2. onceOf[g] = Current
    <3>1. onceOf[g] \in 1..Current
      BY <2>1 DEF OnceInv, OnceOK, Holding
    <3>2. Current \in Nat
      BY DEF TypeOK, Current
    <3> QED BY <2>1, <3>1, <3>2 DEF OnceInv
  <2>3. OnceAddInstance'[Current] = "running" /\ Current' = Current
    <3>1. Current \in 1..Len(OnceAddInstance)
      BY DEF OnceInv, TypeOK, Current
    <3> QED BY <2>1, <2>2, <3>1, MarkOnceType DEF MarkOnce, TypeOK, OnceStates, Current
  <2>4. ~Ready /\ ~Ready'
    BY <2>1, <2>2, <2>3 DEF Ready
  <2>5. (Waking <=> Waking') /\ (Down <=> Down')
    BY <2>1 DEF Waking, Down, Single
  <2>6. pc'[g] = "addLock" /\ \A h \in Procs : h # g => pc'[h] = pc[h]
    BY <2>1 DEF Goto, TypeOK
  <2>7. PhaseInv'
    BY <2>1, <2>4, <2>5, <2>6 DEF VMInv, PhaseInv
  <2>8. \A h \in Procs : VMOK(h)'
    BY <2>1, <2>5, <2>6 DEF VMInv, VMOK
  <2> QED BY <2>1, <2>6, <2>7, <2>8 DEF VMInv
<1>5. CASE LockBegin(g)
  <2>1. PICK l \in {"addWait", "retireWait"} :
          /\ Goto(g, l) /\ pc[g] = IF l = "addWait" THEN "addLock" ELSE "retire"
    BY <1>5 DEF LockBegin, At
  <2>2. l = "retireWait" => OnceCreateSnapInstance = "done"
    BY <2>1 DEF VMInv, VMOK
  <2> QED BY <1>1, <1>5, <2>1, <2>2
          DEF LockBegin, Labels, instVars, onceVars, snapVars, vmVars, stopVars, auxVars, VMView
<1> QED BY <1>2, <1>3, <1>4, <1>5, VMAdd, VMConnect DEF InstanceStep

\* The retiring request offloads a VM that runs, has a snapshot, and is in nobody's hands.
LEMMA VMRemove ==
  ASSUME Stops = {}, AllInv, NEW g \in Procs, RemoveStep(g), UNCHANGED options
  PROVE  VMInv'
<1> USE DEF AllInv, IInv
<1>0. RemoveOffload(g) /\ pc[g] = "retireWait" /\ NoReaders
  BY DEF RemoveStep, RemoveAsync, RemoveSync, RemoveOffload, At, VMInv
<1>1. g \in Requests /\ Ready /\ \A h \in Procs : pc[h] # "connect"
  BY <1>0, OnceReplaced DEF Ready, Starting
<1>2. Up /\ OnceCreateSnapInstance = "done"
  BY <1>0, <1>1 DEF VMInv, PhaseInv, VMOK
<1>3. Len(vms) = 1 /\ vmID = 1 /\ vms[1].state = "running"
  BY <1>2 DEF Up, Single
<1>4. /\ SetVM(1, "offloaded") /\ client' = [client EXCEPT !.open = FALSE] /\ AfterRemove(g)
      /\ UNCHANGED stopper
  BY <1>0, <1>3 DEF RemoveOffload, InPool
<1>5. /\ OnceAddInstance' = Append(OnceAddInstance, "new") /\ Goto(g, "reset")
      /\ UNCHANGED <<vmID, OnceCreateSnapInstance, isSnapshotReady, crashed, snapshotsEnabled>>
  BY <1>1, <1>4 DEF AfterRemove, NewOnce, snapVars, auxVars, options
<1>6. Len(vms') = 1 /\ vms'[1].state = "offloaded"
  BY <1>3, <1>4, SetVMFacts DEF VMStates
<1>7. ~Ready' /\ Down' /\ client'.open = FALSE
  <2>1. OnceAddInstance'[Current'] = "new"
    BY <1>5 DEF TypeOK, Current
  <2>2. client'.open = FALSE
    BY <1>4 DEF TypeOK
  <2> QED BY <1>2, <1>3, <1>5, <1>6, <2>1, <2>2 DEF Ready, Down, Single
<1>8. pc'[g] = "reset" /\ \A h \in Procs : h # g => pc'[h] = pc[h]
  BY <1>5 DEF Goto, TypeOK
<1>9. \A h \in Procs : pc[h] \notin {"snap", "snapping"}
  BY <1>0 DEF NoReaders, LockInv, HeldAt
<1>10. PhaseInv'
  BY <1>7 DEF PhaseInv
<1>11. \A h \in Procs : VMOK(h)'
  BY <1>1, <1>2, <1>5, <1>8, <1>9 DEF VMOK
<1> QED BY <1>4, <1>5, <1>8, <1>9, <1>10, <1>11 DEF VMInv

LEMMA VMNext ==
  ASSUME OnlyServes, AllInv, [Next]_vars
  PROVE  VMInv'
<1> USE DEF OnlyServes
<1>1. CASE UNCHANGED vars
  <2>1. UNCHANGED <<pc, vms, vmID, client, OnceCreateSnapInstance, isSnapshotReady, OnceAddInstance,
                    stopper, crashed, snapshotsEnabled>>
    BY <1>1 DEF vars, instVars, onceVars, snapVars, vmVars, stopVars, auxVars, options
  <2>2. (Waking <=> Waking') /\ (Up <=> Up') /\ (Down <=> Down') /\ (Ready <=> Ready')
    BY <2>1 DEF Waking, Up, Down, Single, Ready, Current
  <2> QED BY <2>1, <2>2 DEF AllInv, VMInv, PhaseInv, VMOK
<1>2. ASSUME NEW g \in Procs, Step(g) PROVE VMInv'
  BY <1>2, VMServe, VMInstance, VMRemove DEF Step
<1>3. ASSUME NEW g \in Requests, StopperStep(g) PROVE FALSE
  BY <1>3 DEF StopperStep, StopperBegin, StopperEnd, AllInv, VMInv
<1> QED BY <1>1, <1>2, <1>3 DEF Next, OrchError

LEMMA VMInit == ASSUME OnlyServes, Init PROVE VMInv
<1>1. /\ vms = <<>> /\ OnceCreateSnapInstance = "new" /\ client.open = FALSE /\ ~crashed /\ snapshotsEnabled
      /\ ~isSnapshotReady
  BY DEF Init, OnlyServes
<1>2. ~Ready
  BY DEF Init, Ready, Current
<1>3. \A g \in Procs : pc[g] \in {"idle", "stat"}
  BY DEF Init, OnlyServes, Procs
<1>4. PhaseInv
  BY <1>1, <1>2 DEF PhaseInv, Down
<1>5. \A g \in Procs : VMOK(g)
  BY <1>3 DEF VMOK
<1>6. \A g \in Requests : stopper[g] = "none"
  BY DEF Init
<1> QED BY <1>1, <1>3, <1>4, <1>5, <1>6 DEF VMInv

\* The four invariants together are inductive.
THEOREM ServingInvariant == ASSUME OnlyServes PROVE Spec => []AllInv
<1>1. Init => SnapInv /\ OnceInv /\ VMInv
  <2>1. Init => SnapInv
    BY DEF Init, SnapInv, SnapshotOfCurrentVM, Procs
  <2> QED BY <2>1, OnceInit, VMInit DEF OnlyServes
<1>2. IInv /\ (SnapInv /\ OnceInv /\ VMInv) /\ [Next]_vars => (SnapInv /\ OnceInv /\ VMInv)'
  <2>1. ASSUME SnapInv, UNCHANGED vars PROVE SnapInv'
    BY <2>1 DEF vars, instVars, vmVars, snapVars, SnapInv, SnapshotOfCurrentVM
  <2> QED BY <2>1, SnapNext, OnceNext, VMNext DEF AllInv, OnlyServes
<1>3. IInv /\ (SnapInv /\ OnceInv /\ VMInv) => AllInv
  BY DEF AllInv
<1> QED BY <1>1, <1>2, <1>3, Inductive, PTL DEF Spec

\* With snapshots a function that only serves requests has one VM for ever, through any
\* number of rounds, requests and AddInstance calls, and no call to the orchestrator
\* panics (functions.go 359, 371, 450-460, 473, 481, 492-497).
THEOREM OneVMCorrect == ASSUME OnlyServes PROVE Spec => []OneVMForever
<1>1. AllInv => OneVMForever
  <2> SUFFICES ASSUME AllInv PROVE ~crashed /\ Len(vms) <= 1
    BY DEF OneVMForever
  <2>1. Len(vms) = 0 \/ Len(vms) = 1
    <3>1. CASE Ready
      BY <3>1 DEF AllInv, VMInv, PhaseInv, Up, Single
    <3>2. CASE ~Ready /\ \A g \in Procs : pc[g] # "connect"
      BY <3>2 DEF AllInv, VMInv, PhaseInv, Down, Single
    <3>3. CASE ~(\A g \in Procs : pc[g] # "connect")
      BY <3>3 DEF AllInv, VMInv, VMOK, Waking, Single
    <3> QED BY <3>1, <3>2, <3>3
  <2>2. Len(vms) <= 1
    <3>1. \A n \in 0..1 : n <= 1
      OBVIOUS
    <3>2. Len(vms) \in 0..1
      BY <2>1
    <3> QED BY ONLY <3>1, <3>2, Zenon
  <2>3. ~crashed
    BY DEF AllInv, VMInv
  <2> QED BY <2>2, <2>3
<1>2. Spec => []AllInv
  BY ServingInvariant
<1> QED BY <1>1, <1>2, PTL

-----------------------------------------------------------------------------
(* Which requests find the instance running. *)

LEMMA RoundNext ==
  ASSUME Stops = {}, IInv, OnceInv, RoundInv, [Next]_vars
  PROVE  RoundInv'
<1> USE DEF IInv
<1>1. isPinnedInMem' = isPinnedInMem
  BY DEF Next, Step, OrchError, StopperStep, vars, options
<1>2. ASSUME UNCHANGED <<OnceAddInstance, syncID>>,
             \A g \in Requests : pc'[g] \in InService => pc[g] \in InService \/ isPinnedInMem,
             isPinnedInMem => \A g \in Requests : pc'[g] = "acquired" => pc[g] = "acquired"
      PROVE  RoundInv'
  BY <1>1, <1>2 DEF RoundInv, Current
<1>3. ASSUME NEW g \in Procs, NEW l \in Labels, Goto(g, l), l # "acquired", pc[g] \in InService,
             syncID' = syncID, Len(OnceAddInstance') = Len(OnceAddInstance)
      PROVE  RoundInv'
  <2>1. \A h \in Requests : /\ pc'[h] \in InService => pc[h] \in InService
                            /\ pc'[h] = "acquired" => pc[h] = "acquired"
    BY <1>3 DEF Goto, TypeOK, Procs
  <2>2. Current' = Current
    BY <1>3 DEF Current
  <2>3. ASSUME NEW h \in Requests
        PROVE  /\ isPinnedInMem' => syncID'[h] = -1 /\ pc'[h] # "acquired"
               /\ ~isPinnedInMem' /\ pc'[h] \in InService => syncID'[h] \in 0..(ServedTh - 1)
    <3>1. /\ isPinnedInMem => syncID[h] = -1 /\ pc[h] # "acquired"
          /\ ~isPinnedInMem /\ pc[h] \in InService => syncID[h] \in 0..(ServedTh - 1)
      BY <2>3 DEF RoundInv
    <3>2. /\ pc'[h] \in InService => pc[h] \in InService
          /\ pc'[h] = "acquired" => pc[h] = "acquired"
      BY ONLY <2>1, h \in Requests
    <3>3. syncID'[h] = syncID[h]
      BY <1>3
    <3> QED BY ONLY <1>1, <3>1, <3>2, <3>3
  <2> QED BY <1>1, <2>2, <2>3 DEF RoundInv
<1>4. ASSUME Crash PROVE RoundInv'
  BY <1>2, <1>4 DEF Crash, countVars, gateVars, onceVars
<1>5. CASE UNCHANGED vars
  BY <1>2, <1>5 DEF vars, countVars, gateVars, instVars, onceVars
<1>6. ASSUME NEW g \in Requests, StopperStep(g), ~Crash PROVE RoundInv'
  BY <1>2, <1>6 DEF StopperStep, StopperBegin, StopperEnd, countVars, gateVars, onceVars
<1>7. ASSUME NEW g \in Requests, ServeStep(g), ~Crash PROVE RoundInv'
  <2>0. g \in Procs
    BY DEF Procs
  <2>1. CASE Acquire(g)
    <3>1. UNCHANGED <<OnceAddInstance, syncID>> /\ \A h \in Requests : h # g => pc'[h] = pc[h]
      BY <2>1 DEF Acquire, instVars, onceVars, Goto, TypeOK, Procs
    <3>2. (pc'[g] \in InService => isPinnedInMem) /\ (isPinnedInMem => pc'[g] # "acquired")
      BY <2>0, <2>1 DEF Acquire, Goto, TypeOK, InService
    <3> QED BY <1>2, <3>1, <3>2
  <2>2. CASE CountDown(g)
    <3>1. /\ servedSyncCounter \in 1..ServedTh
          /\ syncID' = [syncID EXCEPT ![g] = servedSyncCounter - 1] /\ Goto(g, "counted")
          /\ OnceAddInstance' = OnceAddInstance /\ pc[g] = "acquired"
      <4>1. servedSyncCounter > 0 /\ servedSyncCounter \in 0..ServedTh
        BY <2>2, GateCountDown DEF TypeOK
      <4>2. servedSyncCounter \in 1..ServedTh
        BY <4>1, ServedThAssumption
      <4> QED BY <2>2, <4>2 DEF CountDown, At, instVars, onceVars
    <3>2. /\ syncID'[g] = servedSyncCounter - 1
          /\ \A h \in Requests : h # g => syncID'[h] = syncID[h] /\ pc'[h] = pc[h]
      BY <3>1 DEF TypeOK, Goto, Procs
    <3>3. syncID'[g] \in 0..(ServedTh - 1)
      BY <3>1, <3>2, ServedThAssumption
    <3>4. ~isPinnedInMem
      BY <3>1 DEF RoundInv
    <3> QED BY <1>1, <3>1, <3>2, <3>3, <3>4 DEF RoundInv, Current
  <2>3. CASE ~(Acquire(g) \/ CountDown(g))
    <3> USE DEF At, Goto, Labels, InService, countVars, gateVars, instVars, onceVars
    <3>1. pc[g] \in InService /\ UNCHANGED <<syncID, OnceAddInstance>>
      BY <1>7, <2>3 DEF ServeStep, IncServed, ServeRLock, FwdRLock, ReplyOK, ReplyErr, SnapSkip,
         SnapPause, SnapCreate, ServeRUnlock, Reset, Release
    <3>2. PICK l \in Labels : l # "acquired" /\ pc' = [pc EXCEPT ![g] = l]
      BY <1>7, <2>3 DEF ServeStep, IncServed, ServeRLock, FwdRLock, ReplyOK, ReplyErr, SnapSkip,
         SnapPause, SnapCreate, ServeRUnlock, Reset, Release
    <3> HIDE DEF Labels, InService
    <3> QED BY <1>3, <2>0, <3>1, <3>2
  <2> QED BY <2>1, <2>2, <2>3
<1>8. ASSUME NEW g \in Procs, InstanceStep(g), ~Crash PROVE RoundInv'
  <2>1. pc[g] \in InService /\ syncID' = syncID
    BY <1>8 DEF InstanceStep, ReadOnce, OnceSkip, OnceRun, LockBegin, AddInstance, Connect, At,
       InService, countVars, gateVars
  <2>2. PICK l \in Labels : l # "acquired" /\ Goto(g, l)
    BY <1>8 DEF InstanceStep, ReadOnce, OnceSkip, OnceRun, LockBegin, AddInstance, Connect, AfterOnce, Labels
  <2>3. Len(OnceAddInstance') = Len(OnceAddInstance)
    BY <1>8, MarkOnceType DEF InstanceStep, ReadOnce, OnceSkip, OnceRun, LockBegin, AddInstance, Connect,
       instVars, onceVars, OnceStates
  <2> QED BY <1>3, <2>1, <2>2, <2>3
<1>9. ASSUME NEW g \in Procs, RemoveStep(g), ~Crash PROVE RoundInv'
  <2>1. pc[g] = "retireWait" /\ AfterRemove(g)
    BY <1>9 DEF RemoveStep, RemoveOffload, RemoveAsync, RemoveSync, At
  <2>2. g \in Requests /\ g \in Retirers
    BY <2>1, OnceReplaced
  <2>3. ~isPinnedInMem
    BY <2>2 DEF RoundInv, Retirers
  <2>4. Goto(g, "reset") /\ syncID' = syncID
    BY <2>1, <2>2 DEF AfterRemove, countVars, gateVars
  <2>5. \A h \in Requests : pc'[h] \in InService => pc[h] \in InService
    BY <2>1, <2>4 DEF Goto, TypeOK, Procs, InService
  <2> QED BY <1>1, <2>3, <2>4, <2>5 DEF RoundInv
<1> QED BY <1>4, <1>5, <1>6, <1>7, <1>8, <1>9 DEF Next, Step, OrchError

\* The request that closes its round, and every request of a pinned function, is forwarded
\* to an instance that runs, whatever ServedTh is (functions.go 275, 332-335).  The other
\* requests of a round may be slower than the one that closes it.
LastForwardedToLive ==
  \A g \in Requests : pc[g] = "call" /\ g \notin rWaiting /\ (syncID[g] = 0 \/ isPinnedInMem)
                        => Reachable \/ Stalled

\* The request that retires the instance, and any request of a pinned function, never finds
\* the connection closed or the VM offloaded (functions.go 251-275).
THEOREM LastForwardCorrect == ASSUME OnlyServes PROVE Spec => [](RoundInv /\ LastForwardedToLive)
<1>1. Init => RoundInv
  <2> SUFFICES ASSUME Init PROVE RoundInv
    OBVIOUS
  <2>1. Current = 1
    BY DEF Init, Current
  <2>2. \A g \in Requests : syncID[g] = -1 /\ pc[g] = "idle"
    BY DEF Init, Procs
  <2> QED BY <2>1, <2>2 DEF RoundInv, InService
<1>2. AllInv /\ RoundInv /\ [Next]_vars => RoundInv'
  BY RoundNext DEF AllInv, OnlyServes
<1>3. AllInv /\ RoundInv => LastForwardedToLive
  <2> SUFFICES ASSUME AllInv, RoundInv, NEW g \in Requests, pc[g] = "call", syncID[g] = 0 \/ isPinnedInMem
               PROVE  Reachable \/ Stalled
    BY DEF LastForwardedToLive
  <2>1. OnceOK(g) /\ OnceAddInstance[onceOf[g]] = "done" /\ onceOf[g] \in 1..Current
    BY DEF AllInv, OnceInv, OnceOK, Procs, PastDo, Holding, InDo
  <2>2. onceOf[g] = Current
    <3>1. CASE isPinnedInMem
      BY <2>1, <3>1 DEF RoundInv
    <3>2. CASE syncID[g] = 0
      BY <2>1, <3>2 DEF OnceOK, Retirers, Holding, InService
    <3> QED BY <3>1, <3>2
  <2>3. client.open /\ Up
    BY <2>1, <2>2 DEF AllInv, VMInv, PhaseInv, Ready
  <2> QED BY <2>3 DEF Up, Single, Reachable, Stalled
<1> QED BY <1>1, <1>2, <1>3, ServingInvariant, PTL DEF Spec

\* With servedTh = 1 every request closes its round: every one is forwarded to an instance
\* that runs, over an open connection (functions.go 275, 332-335).
THEOREM ForwardCorrect == ASSUME OnlyServes, ServedTh = 1 PROVE Spec => []ForwardedToLive
<1>1. RoundInv /\ LastForwardedToLive => ForwardedToLive
  <2> SUFFICES ASSUME RoundInv, LastForwardedToLive, NEW g \in Requests, pc[g] = "call", g \notin rWaiting
               PROVE  Reachable \/ Stalled
    BY DEF ForwardedToLive
  <2>1. isPinnedInMem \/ syncID[g] \in 0..(ServedTh - 1)
    BY DEF RoundInv, InService
  <2>2. isPinnedInMem \/ syncID[g] = 0
    BY <2>1
  <2> QED BY <2>2 DEF LastForwardedToLive
<1> QED BY <1>1, LastForwardCorrect, PTL
=============================================================================
