-------------------------- MODULE FuncServe_proofs --------------------------
(***************************************************************************)
(* Proofs about FuncServe for every set of goroutines and every ServedTh:  *)
(* types, the invariants of the admission gate, and that admission         *)
(* implements ServeGate.                                                   *)
(***************************************************************************)
EXTENDS FuncServe, FiniteSetTheorems, TLAPS

\* The read locks a goroutine holds are a function of where it is.
HeldAt(g) ==
  CASE pc[g] = "rlocked" -> IF g \in rWaiting THEN 0 ELSE 1
    [] pc[g] = "call" -> IF g \in rWaiting THEN 1 ELSE 2
    [] pc[g] \in {"snap", "snapping", "unlock"} -> 1
    [] OTHER -> 0

LockInv ==
  /\ \A g \in Procs : readers[g] = HeldAt(g)
  /\ \A g \in rWaiting : pc[g] \in {"rlocked", "call"}

\* The labels from RemoveInstance to the release of the permits.
Retiring == {"retire", "retireWait", "reset", "release"}

\* What makes the gate's properties inductive: who retires, and what that request
\* knows about the counter and the semaphore while it does.
GateInv ==
  /\ CounterMatchesSemaphore
  /\ OneRetirer
  /\ \A g \in Requests : pc[g] = "release" =>
        sem = ServedTh /\ servedSyncCounter = ServedTh /\ Acquired = {}
  /\ \A g \in Retirers : pc[g] # "release" =>
        sem = ServedTh /\ servedSyncCounter = 0 /\ Acquired = {}
  /\ \A g \in Requests : pc[g] \in Retiring => syncID[g] = 0
  /\ \A g \in Requests : pc[g] = "idle" => syncID[g] = -1

IInv == TypeOK /\ LockInv /\ GateInv

-----------------------------------------------------------------------------
(* A step that moves one goroutine inside its service and leaves the gate's *)
(* variables alone preserves the gate's invariant.                          *)
LEMMA GateFrame ==
  ASSUME TypeOK, GateInv, NEW g \in Procs, NEW l \in Labels,
         pc' = [pc EXCEPT ![g] = l],
         g \in Requests => /\ pc[g] \in InService \ {"release"}
                           /\ l \in (InService \ {"release"}) \cup {"done", "failed"}
                           /\ l \in Retiring => syncID[g] = 0,
         UNCHANGED gateVars
  PROVE  GateInv'
<1>1. \A h \in Requests : h # g => pc'[h] = pc[h]
  BY DEF TypeOK, Procs
<1>2. g \in Requests => pc'[g] = l
  BY DEF TypeOK
<1>3. Acquired' = Acquired
  BY <1>1, <1>2 DEF Acquired, InService
<1>4. Retirers' \subseteq Retirers
  BY <1>1, <1>2 DEF Retirers, InService, gateVars
<1>5. \A h \in Requests : pc'[h] = "release" <=> pc[h] = "release"
  BY <1>1, <1>2 DEF InService
<1>6. CounterMatchesSemaphore'
  BY <1>3, <1>5 DEF GateInv, CounterMatchesSemaphore, gateVars
<1>7. OneRetirer'
  BY <1>4 DEF GateInv, OneRetirer
<1>8. \A h \in Retirers' : pc'[h] # "release" =>
        sem' = ServedTh /\ servedSyncCounter' = 0 /\ Acquired' = {}
  BY <1>3, <1>4, <1>5 DEF GateInv, gateVars, Retirers
<1>9. \A h \in Requests : pc'[h] \in Retiring => syncID'[h] = 0
  BY <1>1, <1>2 DEF GateInv, gateVars
<1>10. \A h \in Requests : pc'[h] = "idle" => syncID'[h] = -1
  BY <1>1, <1>2 DEF GateInv, gateVars, InService
<1>11. \A h \in Requests : pc'[h] = "release" =>
        sem' = ServedTh /\ servedSyncCounter' = ServedTh /\ Acquired' = {}
  BY <1>3, <1>5 DEF GateInv, gateVars
<1>. QED
  BY <1>6, <1>7, <1>8, <1>9, <1>10, <1>11 DEF GateInv

LEMMA GateStutter ==
  ASSUME GateInv, UNCHANGED <<pc, gateVars>>
  PROVE  GateInv'
BY DEF GateInv, gateVars, CounterMatchesSemaphore, OneRetirer, Acquired, Retirers

LEMMA AcquiredFinite ==
  ASSUME NEW S \in SUBSET Requests
  PROVE  IsFiniteSet(S) /\ Cardinality(S) \in Nat
BY ProcsAssumption, FS_Subset, FS_CardinalityType

LEMMA GateAcquire ==
  ASSUME TypeOK, GateInv, NEW g \in Requests, Acquire(g)
  PROVE  GateInv'
<1>1. CASE isPinnedInMem
  <2>1. pc' = [pc EXCEPT ![g] = "counted"] /\ UNCHANGED gateVars /\ pc[g] = "idle"
    BY <1>1 DEF Acquire, Goto, At, gateVars
  <2>2. /\ \A h \in Requests : h # g => pc'[h] = pc[h]
        /\ pc'[g] = "counted" /\ syncID[g] = -1
    BY <2>1 DEF TypeOK, Procs, GateInv
  <2>3. Acquired' = Acquired /\ Retirers' = Retirers
    BY <2>1, <2>2 DEF Acquired, Retirers, gateVars, InService
  <2>. QED
    BY <2>1, <2>2, <2>3 DEF GateInv, CounterMatchesSemaphore, OneRetirer, gateVars,
       Retiring, Retirers
<1>2. CASE ~isPinnedInMem
  <2>1. /\ pc' = [pc EXCEPT ![g] = "acquired"] /\ pc[g] = "idle"
        /\ sem < ServedTh /\ sem' = sem + 1
        /\ UNCHANGED <<servedSyncCounter, syncID>>
    BY <1>2 DEF Acquire, Goto, At, PermitFree
  <2>2. /\ \A h \in Requests : h # g => pc'[h] = pc[h]
        /\ pc'[g] = "acquired"
    BY <2>1 DEF TypeOK, Procs
  <2>3. (\A h \in Requests : pc[h] # "release") /\ Retirers = {}
    BY <2>1, ServedThAssumption DEF GateInv, TypeOK, Retirers
  <2>4. Retirers' = {}
    BY <2>1, <2>2, <2>3 DEF Retirers, InService
  <2>5. Acquired' = Acquired \cup {g} /\ g \notin Acquired
    BY <2>1, <2>2 DEF Acquired
  <2>6. Cardinality(Acquired') = Cardinality(Acquired) + 1 /\ Cardinality(Acquired) \in Nat
    BY <2>5, AcquiredFinite, FS_AddElement DEF Acquired
  <2>7. sem' + servedSyncCounter' = ServedTh + Cardinality(Acquired')
    <3>1. sem + servedSyncCounter = ServedTh + Cardinality(Acquired)
      BY <2>3 DEF GateInv, CounterMatchesSemaphore
    <3>2. sem \in Nat /\ servedSyncCounter \in Nat
      BY ServedThAssumption DEF TypeOK
    <3>. QED
      BY <3>1, <3>2, <2>1, <2>6, ServedThAssumption
  <2>8. \A h \in Requests : pc'[h] # "release"
    BY <2>2, <2>3
  <2>9. \A h \in Requests : pc'[h] \in Retiring => syncID'[h] = 0
    BY <2>1, <2>2 DEF GateInv, Retiring
  <2>10. \A h \in Requests : pc'[h] = "idle" => syncID'[h] = -1
    BY <2>1, <2>2 DEF GateInv
  <2>. QED
    BY <2>4, <2>7, <2>8, <2>9, <2>10 DEF GateInv, CounterMatchesSemaphore, OneRetirer
<1>. QED
  BY <1>1, <1>2

\* Besides the invariant: the counter is positive when a request counts down.
LEMMA GateCountDown ==
  ASSUME TypeOK, GateInv, NEW g \in Requests, CountDown(g)
  PROVE  GateInv' /\ servedSyncCounter > 0
<1>1. /\ pc' = [pc EXCEPT ![g] = "counted"] /\ pc[g] = "acquired"
      /\ servedSyncCounter' = servedSyncCounter - 1
      /\ syncID' = [syncID EXCEPT ![g] = servedSyncCounter - 1]
      /\ sem' = sem
  BY DEF CountDown, Goto, At
<1>2. /\ \A h \in Requests : h # g => pc'[h] = pc[h] /\ syncID'[h] = syncID[h]
      /\ pc'[g] = "counted" /\ syncID'[g] = servedSyncCounter - 1
  BY <1>1 DEF TypeOK, Procs
<1>3. g \in Acquired /\ Acquired' = Acquired \ {g}
  BY <1>1, <1>2 DEF Acquired
<1>4. (\A h \in Requests : pc[h] # "release") /\ Retirers = {}
  BY <1>3 DEF GateInv, Retirers
<1>5. /\ Cardinality(Acquired') = Cardinality(Acquired) - 1
      /\ Cardinality(Acquired) \in Nat /\ Cardinality(Acquired') \in Nat
      /\ IsFiniteSet(Acquired')
  <2>1. IsFiniteSet(Acquired) /\ Cardinality(Acquired) \in Nat
    BY AcquiredFinite DEF Acquired
  <2>2. Cardinality(Acquired \ {g}) = Cardinality(Acquired) - 1 /\ IsFiniteSet(Acquired \ {g})
    BY <2>1, <1>3, FS_RemoveElement
  <2>3. Cardinality(Acquired \ {g}) \in Nat
    BY <2>2, FS_CardinalityType
  <2>. QED
    BY <1>3, <2>1, <2>2, <2>3
<1>6. sem + servedSyncCounter = ServedTh + Cardinality(Acquired)
  BY <1>4 DEF GateInv, CounterMatchesSemaphore
<1>7. servedSyncCounter > 0
  BY <1>5, <1>6, ServedThAssumption DEF TypeOK
<1>8. sem' + servedSyncCounter' = ServedTh + Cardinality(Acquired')
  <2>1. sem \in Nat /\ servedSyncCounter \in Nat
    BY ServedThAssumption DEF TypeOK
  <2>. QED
    BY <2>1, <1>1, <1>5, <1>6, ServedThAssumption
<1>9. Retirers' \subseteq {g}
  BY <1>2, <1>4 DEF Retirers
<1>10. ASSUME servedSyncCounter' = 0
       PROVE  sem' = ServedTh /\ Acquired' = {}
  <2>1. sem' = ServedTh /\ Cardinality(Acquired') = 0
    BY <1>1, <1>5, <1>8, <1>10, ServedThAssumption DEF TypeOK
  <2>. QED
    BY <2>1, <1>5, FS_EmptySet
<1>11. \A h \in Retirers' : sem' = ServedTh /\ servedSyncCounter' = 0 /\ Acquired' = {}
  BY <1>1, <1>2, <1>9, <1>10 DEF Retirers
<1>12. \A h \in Requests : pc'[h] # "release"
  BY <1>2, <1>4
<1>13. \A h \in Requests : pc'[h] \in Retiring => syncID'[h] = 0
  BY <1>2 DEF GateInv, Retiring
<1>14. \A h \in Requests : pc'[h] = "idle" => syncID'[h] = -1
  BY <1>2 DEF GateInv
<1>. QED
  BY <1>7, <1>8, <1>9, <1>11, <1>12, <1>13, <1>14
     DEF GateInv, CounterMatchesSemaphore, OneRetirer

LEMMA GateReset ==
  ASSUME TypeOK, GateInv, NEW g \in Requests, Reset(g)
  PROVE  GateInv'
<1>1. /\ pc' = [pc EXCEPT ![g] = "release"] /\ pc[g] = "reset"
      /\ servedSyncCounter' = ServedTh
      /\ UNCHANGED <<sem, syncID>>
  BY DEF Reset, ResetCounter, Goto, At
<1>2. /\ \A h \in Requests : h # g => pc'[h] = pc[h]
      /\ pc'[g] = "release"
  BY <1>1 DEF TypeOK, Procs
<1>3. g \in Retirers
  BY <1>1 DEF GateInv, Retirers, Retiring, InService
<1>4. sem = ServedTh /\ Acquired = {}
  BY <1>1, <1>3 DEF GateInv
<1>5. Acquired' = {}
  BY <1>2, <1>4 DEF Acquired
<1>6. Retirers' \subseteq Retirers
  BY <1>1, <1>2, <1>3 DEF Retirers
<1>7. \A h \in Retirers' : h = g
  BY <1>3, <1>6 DEF GateInv, OneRetirer
<1>8. \A h \in Requests : pc'[h] \in Retiring => syncID'[h] = 0
  BY <1>1, <1>2 DEF GateInv, Retiring
<1>9. \A h \in Requests : pc'[h] = "idle" => syncID'[h] = -1
  BY <1>1, <1>2 DEF GateInv
<1>. QED
  BY <1>1, <1>2, <1>4, <1>5, <1>7, <1>8, <1>9
     DEF GateInv, CounterMatchesSemaphore, OneRetirer

LEMMA GateRelease ==
  ASSUME TypeOK, GateInv, NEW g \in Requests, Release(g)
  PROVE  GateInv' /\ sem = ServedTh /\ sem' = 0
<1>1. /\ pc' = [pc EXCEPT ![g] = "done"] /\ pc[g] = "release"
      /\ sem' = sem - ServedTh
      /\ UNCHANGED <<servedSyncCounter, syncID>>
  BY DEF Release, ReleasePermits, Goto, At
<1>2. /\ \A h \in Requests : h # g => pc'[h] = pc[h]
      /\ pc'[g] = "done"
  BY <1>1 DEF TypeOK, Procs
<1>3. g \in Retirers
  BY <1>1 DEF GateInv, Retirers, Retiring, InService
<1>4. sem = ServedTh /\ servedSyncCounter = ServedTh /\ Acquired = {}
  BY <1>1 DEF GateInv
<1>5. sem' = 0 /\ servedSyncCounter' = ServedTh
  BY <1>1, <1>4, ServedThAssumption
<1>6. Acquired' = {}
  BY <1>2, <1>4 DEF Acquired
<1>7. Cardinality(Acquired') = 0
  BY <1>6, FS_EmptySet
<1>8. Retirers' = {}
  <2>1. Retirers' \subseteq Retirers \ {g}
    BY <1>1, <1>2 DEF Retirers, InService
  <2>. QED
    BY <2>1, <1>3 DEF GateInv, OneRetirer
<1>9. \A h \in Requests : pc'[h] \in Retiring => syncID'[h] = 0
  BY <1>1, <1>2 DEF GateInv, Retiring
<1>10. \A h \in Requests : pc'[h] # "release"
  <2>1. \A h \in Requests : pc'[h] = "release" => h \in Retirers'
    BY <1>9 DEF Retirers, Retiring, InService
  <2>. QED
    BY <2>1, <1>8
<1>11. \A h \in Requests : pc'[h] = "idle" => syncID'[h] = -1
  BY <1>1, <1>2 DEF GateInv
<1>12. sem' + servedSyncCounter' = ServedTh + Cardinality(Acquired')
  BY <1>5, <1>7, ServedThAssumption
<1>. QED
  BY <1>4, <1>5, <1>8, <1>9, <1>10, <1>11, <1>12
     DEF GateInv, CounterMatchesSemaphore, OneRetirer

-----------------------------------------------------------------------------
LEMMA GateNext ==
  ASSUME IInv, Next
  PROVE  GateInv'
<1>. USE DEF IInv
<1>1. ASSUME NEW g \in Procs, Crash PROVE GateInv'
  BY <1>1, GateStutter DEF Crash, countVars
<1>2. ASSUME NEW g \in Requests, ServeStep(g) PROVE GateInv'
  <2>0. g \in Procs
    BY DEF Procs
  <2>1. CASE Acquire(g)
    BY <2>1, GateAcquire
  <2>2. CASE CountDown(g)
    BY <2>2, GateCountDown
  <2>3. CASE Reset(g)
    BY <2>3, GateReset
  <2>4. CASE Release(g)
    BY <2>4, GateRelease
  <2>5. CASE IncServed(g)
    BY <2>0, <2>5, GateFrame DEF IncServed, At, Goto, Labels, InService, Retiring
  <2>6. CASE ServeRLock(g)
    BY <2>0, <2>6, GateFrame DEF ServeRLock, At, Goto, Labels, InService, Retiring, countVars
  <2>7. CASE FwdRLock(g)
    BY <2>0, <2>7, GateFrame DEF FwdRLock, At, Goto, Labels, InService, Retiring, countVars
  <2>8. CASE ReplyOK(g)
    <3>1. CASE snapshotsEnabled
      BY <2>0, <2>8, <3>1, GateFrame DEF ReplyOK, At, Goto, Labels, InService, Retiring, countVars
    <3>2. CASE ~snapshotsEnabled
      BY <2>0, <2>8, <3>2, GateFrame DEF ReplyOK, At, Goto, Labels, InService, Retiring, countVars
    <3>. QED
      BY <3>1, <3>2
  <2>9. CASE ReplyErr(g)
    BY <2>0, <2>9, GateFrame DEF ReplyErr, At, Goto, Labels, InService, Retiring, countVars
  <2>10. CASE SnapSkip(g)
    BY <2>0, <2>10, GateFrame DEF SnapSkip, At, Goto, Labels, InService, Retiring, countVars
  <2>11. CASE SnapPause(g)
    <3>1. CASE vms[vmID].state # "running"
      BY <2>0, <2>11, <3>1, <1>1 DEF SnapPause
    <3>2. CASE vms[vmID].state = "running"
      BY <2>0, <2>11, <3>2, GateFrame DEF SnapPause, At, Goto, Labels, InService, Retiring, countVars
    <3>. QED
      BY <3>1, <3>2
  <2>12. CASE SnapCreate(g)
    BY <2>0, <2>12, GateFrame DEF SnapCreate, At, Goto, Labels, InService, Retiring, countVars
  <2>13. CASE ServeRUnlock(g)
    <3>1. CASE IsLast(g)
      BY <2>0, <2>13, <3>1, GateFrame
         DEF ServeRUnlock, IsLast, At, Goto, Labels, InService, Retiring, countVars
    <3>2. CASE ~IsLast(g)
      BY <2>0, <2>13, <3>2, GateFrame
         DEF ServeRUnlock, At, Goto, Labels, InService, Retiring, countVars
    <3>. QED
      BY <3>1, <3>2
  <2>. QED
    BY <1>2, <2>1, <2>2, <2>3, <2>4, <2>5, <2>6, <2>7, <2>8, <2>9, <2>10, <2>11,
       <2>12, <2>13 DEF ServeStep
<1>3. ASSUME NEW g \in Procs, InstanceStep(g) PROVE GateInv'
  <2>1. CASE ReadOnce(g)
    BY <2>1, GateFrame DEF ReadOnce, At, Goto, Labels, InService, Retiring, countVars
  <2>2. CASE OnceSkip(g)
    <3>1. CASE g \in Requests
      BY <2>2, <3>1, GateFrame
         DEF OnceSkip, AfterOnce, At, Goto, Labels, InService, Retiring, countVars
    <3>2. CASE g \notin Requests
      BY <2>2, <3>2, GateFrame DEF OnceSkip, AfterOnce, At, Goto, Labels, countVars
    <3>. QED
      BY <3>1, <3>2
  <2>3. CASE OnceRun(g)
    BY <2>3, GateFrame DEF OnceRun, At, Goto, Labels, InService, Retiring, countVars
  <2>4. CASE LockBegin(g)
    <3>1. CASE At(g, "addLock") /\ Goto(g, "addWait")
      BY <2>4, <3>1, GateFrame
         DEF LockBegin, At, Goto, Labels, InService, Retiring, countVars
    <3>2. CASE At(g, "retire") /\ Goto(g, "retireWait")
      <4>1. g \in Requests => syncID[g] = 0
        BY <3>2 DEF At, GateInv, Retiring
      <4>. QED
        BY <2>4, <3>2, <4>1, GateFrame
           DEF LockBegin, At, Goto, Labels, InService, Retiring, countVars
    <3>. QED
      BY <2>4, <3>1, <3>2 DEF LockBegin
  <2>5. CASE AddInstance(g)
    <3>1. CASE isSnapshotReady /\ ~Loadable(vmID)
      BY <2>5, <3>1, <1>1 DEF AddInstance
    <3>2. CASE ~(isSnapshotReady /\ ~Loadable(vmID))
      BY <2>5, <3>2, GateFrame
         DEF AddInstance, At, Goto, Labels, InService, Retiring, countVars
    <3>. QED
      BY <3>1, <3>2
  <2>6. CASE Connect(g)
    <3>1. CASE vms[vmID].state # "running"
      BY <2>6, <3>1, <1>1 DEF Connect
    <3>2. CASE vms[vmID].state = "running" /\ g \in Requests
      BY <2>6, <3>2, GateFrame
         DEF Connect, AfterOnce, At, Goto, Labels, InService, Retiring
    <3>3. CASE vms[vmID].state = "running" /\ g \notin Requests
      BY <2>6, <3>3, GateFrame DEF Connect, AfterOnce, At, Goto, Labels
    <3>. QED
      BY <3>1, <3>2, <3>3
  <2>. QED
    BY <1>3, <2>1, <2>2, <2>3, <2>4, <2>5, <2>6 DEF InstanceStep
<1>4. ASSUME NEW g \in Procs, RemoveStep(g) PROVE GateInv'
  <2>1. ASSUME At(g, "retireWait"), AfterRemove(g) PROVE GateInv'
    <3>1. g \in Requests => syncID[g] = 0
      BY <2>1 DEF At, GateInv, Retiring
    <3>2. CASE g \in Requests
      BY <2>1, <3>1, <3>2, GateFrame
         DEF AfterRemove, At, Goto, Labels, InService, Retiring, countVars
    <3>3. CASE g \notin Requests
      BY <2>1, <3>3, GateFrame DEF AfterRemove, At, Goto, Labels, countVars
    <3>. QED
      BY <3>2, <3>3
  <2>. QED
    BY <1>1, <1>4, <2>1 DEF RemoveStep, RemoveOffload, RemoveAsync, RemoveSync
<1>5. ASSUME NEW g \in Requests, StopperStep(g) PROVE GateInv'
  <2>0. g \in Procs
    BY DEF Procs
  <2>1. CASE UNCHANGED <<pc, gateVars>>
    BY <2>1, GateStutter
  <2>. QED
    BY <1>1, <1>5, <2>0, <2>1 DEF StopperStep, StopperBegin, StopperEnd, countVars
<1>. QED
  BY <1>1, <1>2, <1>3, <1>4, <1>5 DEF Next, Step, OrchError

-----------------------------------------------------------------------------
(* A goroutine that is outside Serve's read-locked section, before and after *)
(* the step, does not disturb the bookkeeping of read locks.                 *)
ReadLocked == {"rlocked", "call", "snap", "snapping", "unlock"}

LEMMA LockFrame ==
  ASSUME TypeOK, LockInv, NEW g \in Procs, NEW l \in Labels,
         pc' = [pc EXCEPT ![g] = l],
         UNCHANGED <<readers, rWaiting>>,
         \/ pc[g] \notin ReadLocked /\ l \notin ReadLocked
         \/ {pc[g], l} \subseteq {"snap", "snapping", "unlock"}
  PROVE  LockInv'
<1>1. \A h \in Procs : h # g => pc'[h] = pc[h]
  BY DEF TypeOK
<1>2. pc'[g] = l
  BY DEF TypeOK
<1>3. g \notin rWaiting
  BY DEF LockInv, ReadLocked
<1>4. \A h \in rWaiting : pc'[h] \in {"rlocked", "call"}
  BY <1>1, <1>3 DEF LockInv, TypeOK
<1>5. \A h \in Procs : HeldAt(h)' = HeldAt(h)
  BY <1>1, <1>2 DEF HeldAt, ReadLocked
<1>. QED
  BY <1>4, <1>5 DEF LockInv

LEMMA LockStutter ==
  ASSUME LockInv, UNCHANGED <<pc, readers, rWaiting>>
  PROVE  LockInv'
BY DEF LockInv, HeldAt

LEMMA LockRead ==
  ASSUME TypeOK, LockInv, NEW g \in Procs, NEW l \in {"rlocked", "call"},
         At(g, IF l = "rlocked" THEN "ready" ELSE "rlocked"), RLock(g), Goto(g, l)
  PROVE  LockInv' /\ readers' \in [Procs -> 0..2] /\ rWaiting' \subseteq Procs
<1>1. /\ \A h \in Procs : h # g => pc'[h] = pc[h]
      /\ pc'[g] = l
      /\ g \notin rWaiting
      /\ pc[g] = IF l = "rlocked" THEN "ready" ELSE "rlocked"
  BY DEF TypeOK, Goto, At
<1>2. readers[g] = IF l = "rlocked" THEN 0 ELSE 1
  BY <1>1 DEF LockInv, HeldAt
<1>3. CASE wOwner = None
  <2>1. readers' = [readers EXCEPT ![g] = @ + 1] /\ rWaiting' = rWaiting
    BY <1>3 DEF RLock
  <2>2. /\ \A h \in Procs : h # g => readers'[h] = readers[h]
        /\ readers'[g] = readers[g] + 1
    BY <2>1 DEF TypeOK
  <2>3. \A h \in Procs : h # g => HeldAt(h)' = HeldAt(h)
    BY <1>1, <2>1 DEF HeldAt
  <2>4. HeldAt(g)' = readers[g] + 1
    BY <1>1, <1>2, <2>1 DEF HeldAt
  <2>5. \A h \in rWaiting' : pc'[h] \in {"rlocked", "call"}
    BY <1>1, <2>1 DEF LockInv, TypeOK
  <2>6. readers' \in [Procs -> 0..2]
    BY <1>2, <2>1 DEF TypeOK
  <2>. QED
    BY <2>1, <2>2, <2>3, <2>4, <2>5, <2>6 DEF LockInv, TypeOK
<1>4. CASE wOwner # None
  <2>1. readers' = readers /\ rWaiting' = rWaiting \cup {g}
    BY <1>4 DEF RLock
  <2>2. \A h \in Procs : h # g => HeldAt(h)' = HeldAt(h)
    BY <1>1, <2>1 DEF HeldAt
  <2>3. HeldAt(g)' = readers[g]
    BY <1>1, <1>2, <2>1 DEF HeldAt
  <2>4. \A h \in rWaiting' : pc'[h] \in {"rlocked", "call"}
    BY <1>1, <2>1 DEF LockInv, TypeOK
  <2>. QED
    BY <2>1, <2>2, <2>3, <2>4 DEF LockInv, TypeOK
<1>. QED
  BY <1>3, <1>4

LEMMA LockRelease ==
  ASSUME TypeOK, LockInv, NEW g \in Procs, NEW l \in Labels, NEW n \in {1, 2},
         g \notin rWaiting, RUnlock(g, n), Goto(g, l),
         \/ pc[g] = "call" /\ n = 1 /\ l \in {"snap", "unlock"}
         \/ pc[g] = "call" /\ n = 2 /\ l \notin ReadLocked
         \/ pc[g] = "unlock" /\ n = 1 /\ l \notin ReadLocked
  PROVE  LockInv' /\ readers' \in [Procs -> 0..2] /\ rWaiting' \subseteq Procs
<1>1. /\ \A h \in Procs : h # g => pc'[h] = pc[h] /\ readers'[h] = readers[h]
      /\ pc'[g] = l /\ readers'[g] = readers[g] - n
      /\ rWaiting' = rWaiting
  BY DEF TypeOK, Goto, RUnlock
<1>2. readers[g] = IF pc[g] = "call" THEN 2 ELSE 1
  BY DEF LockInv, HeldAt
<1>3. \A h \in Procs : h # g => HeldAt(h)' = HeldAt(h)
  BY <1>1 DEF HeldAt
<1>4. HeldAt(g)' = readers[g] - n
  BY <1>1, <1>2 DEF HeldAt, ReadLocked
<1>5. \A h \in rWaiting' : pc'[h] \in {"rlocked", "call"}
  BY <1>1 DEF LockInv, TypeOK
<1>6. readers' \in [Procs -> 0..2]
  <2>1. readers[g] - n \in 0..2
    BY <1>2
  <2>. QED
    BY <2>1 DEF TypeOK, RUnlock
<1>7. \A h \in Procs : readers[h] = HeldAt(h)
  BY DEF LockInv
<1>8. \A h \in Procs : readers'[h] = HeldAt(h)'
  BY <1>1, <1>3, <1>4, <1>7
<1>9. rWaiting' \subseteq Procs
  BY <1>1 DEF TypeOK
<1>. QED
  BY <1>5, <1>6, <1>8, <1>9 DEF LockInv

LEMMA LockUnlock ==
  ASSUME TypeOK, LockInv, NEW g \in Procs, NEW l \in Labels,
         pc[g] \notin ReadLocked, l \notin ReadLocked, Unlock, Goto(g, l)
  PROVE  LockInv' /\ readers' \in [Procs -> 0..2] /\ rWaiting' \subseteq Procs
<1>1. /\ \A h \in Procs : h # g => pc'[h] = pc[h]
      /\ pc'[g] = l
      /\ g \notin rWaiting
      /\ rWaiting' = {}
      /\ readers' = [p \in Procs |-> IF p \in rWaiting THEN readers[p] + 1 ELSE readers[p]]
  BY DEF TypeOK, Goto, Unlock, LockInv, ReadLocked
<1>2. \A h \in Procs : readers[h] = HeldAt(h)
  BY DEF LockInv
<1>3. \A h \in rWaiting : h \in Procs /\ pc[h] \in {"rlocked", "call"}
  BY DEF LockInv, TypeOK
<1>4. \A h \in Procs : readers'[h] = HeldAt(h)' /\ readers'[h] \in 0..2
  <2>. SUFFICES ASSUME NEW h \in Procs
               PROVE  readers'[h] = HeldAt(h)' /\ readers'[h] \in 0..2
    OBVIOUS
  <2>1. CASE h \in rWaiting
    BY <1>1, <1>2, <1>3, <2>1 DEF HeldAt
  <2>2. CASE h \notin rWaiting /\ h # g
    BY <1>1, <1>2, <2>2 DEF HeldAt, TypeOK
  <2>3. CASE h = g
    BY <1>1, <1>2, <2>3 DEF HeldAt, ReadLocked
  <2>. QED
    BY <2>1, <2>2, <2>3
<1>5. readers' \in [Procs -> 0..2]
  BY <1>1, <1>4
<1>. QED
  BY <1>1, <1>4, <1>5 DEF LockInv

LEMMA LockNext ==
  ASSUME IInv, Next
  PROVE  LockInv' /\ readers' \in [Procs -> 0..2] /\ rWaiting' \subseteq Procs
<1>. USE DEF IInv
<1>. DEFINE Goal == LockInv' /\ readers' \in [Procs -> 0..2] /\ rWaiting' \subseteq Procs
<1>0. ASSUME UNCHANGED <<pc, readers, rWaiting>> PROVE Goal
  BY <1>0, LockStutter DEF TypeOK
<1>1. ASSUME Crash PROVE Goal
  BY <1>0, <1>1 DEF Crash, lockVars
<1>2. ASSUME NEW g \in Procs, NEW l \in Labels,
             Goto(g, l), UNCHANGED <<readers, rWaiting>>,
             \/ pc[g] \notin ReadLocked /\ l \notin ReadLocked
             \/ {pc[g], l} \subseteq {"snap", "snapping", "unlock"}
      PROVE  Goal
  BY <1>2, LockFrame DEF Goto, TypeOK
<1>. HIDE DEF Goal
<1>3. ASSUME NEW g \in Requests, ServeStep(g) PROVE Goal
  <2>0. g \in Procs
    BY DEF Procs
  <2>. USE <1>2, <2>0 DEF At, Labels, ReadLocked, lockVars
  <2>1. CASE Acquire(g)
    <3>1. CASE isPinnedInMem
      BY <2>1, <3>1 DEF Acquire
    <3>2. CASE ~isPinnedInMem
      BY <2>1, <3>2 DEF Acquire
    <3>. QED
      BY <3>1, <3>2
  <2>2. CASE CountDown(g)
    BY <2>2 DEF CountDown
  <2>3. CASE IncServed(g)
    BY <2>3 DEF IncServed
  <2>4. CASE ServeRLock(g)
    BY <2>4, LockRead DEF ServeRLock, Goal
  <2>5. CASE FwdRLock(g)
    BY <2>5, LockRead DEF FwdRLock, Goal
  <2>6. CASE ReplyOK(g)
    <3>1. CASE snapshotsEnabled
      BY <2>6, <3>1, LockRelease DEF ReplyOK, Goal
    <3>2. CASE ~snapshotsEnabled
      BY <2>6, <3>2, LockRelease DEF ReplyOK, Goal
    <3>. QED
      BY <3>1, <3>2
  <2>7. CASE ReplyErr(g)
    BY <2>7, LockRelease DEF ReplyErr, Goal
  <2>8. CASE SnapSkip(g)
    BY <2>8 DEF SnapSkip
  <2>9. CASE SnapPause(g)
    BY <2>9, <1>1 DEF SnapPause
  <2>10. CASE SnapCreate(g)
    BY <2>10 DEF SnapCreate
  <2>11. CASE ServeRUnlock(g)
    <3>1. CASE IsLast(g)
      BY <2>11, <3>1, LockRelease DEF ServeRUnlock, Goal
    <3>2. CASE ~IsLast(g)
      BY <2>11, <3>2, LockRelease DEF ServeRUnlock, Goal
    <3>. QED
      BY <3>1, <3>2
  <2>12. CASE Reset(g)
    BY <2>12 DEF Reset
  <2>13. CASE Release(g)
    BY <2>13 DEF Release
  <2>. QED
    BY <1>3, <2>1, <2>2, <2>3, <2>4, <2>5, <2>6, <2>7, <2>8, <2>9, <2>10, <2>11,
       <2>12, <2>13 DEF ServeStep
<1>4. ASSUME NEW g \in Procs, InstanceStep(g) PROVE Goal
  <2>. USE <1>2 DEF At, Labels, ReadLocked, lockVars
  <2>1. CASE ReadOnce(g)
    BY <2>1 DEF ReadOnce
  <2>2. CASE OnceSkip(g)
    BY <2>2 DEF OnceSkip, AfterOnce
  <2>3. CASE OnceRun(g)
    BY <2>3 DEF OnceRun
  <2>4. CASE LockBegin(g)
    BY <2>4 DEF LockBegin
  <2>5. CASE AddInstance(g)
    BY <2>5, <1>1 DEF AddInstance
  <2>6. CASE Connect(g)
    <3>1. CASE vms[vmID].state # "running"
      BY <2>6, <3>1, <1>1 DEF Connect
    <3>2. CASE vms[vmID].state = "running"
      <4>1. AfterOnce(g) \in Labels /\ AfterOnce(g) \notin ReadLocked
        BY DEF AfterOnce
      <4>. QED
        BY <2>6, <3>2, <4>1, LockUnlock DEF Connect, Goal
    <3>. QED
      BY <3>1, <3>2
  <2>. QED
    BY <1>4, <2>1, <2>2, <2>3, <2>4, <2>5, <2>6 DEF InstanceStep
<1>5. ASSUME NEW g \in Procs, RemoveStep(g) PROVE Goal
  <2>1. ASSUME At(g, "retireWait"), AfterRemove(g) PROVE Goal
    <3>1. CASE g \in Requests
      BY <2>1, <3>1, LockUnlock DEF AfterRemove, Goal, At, Labels, ReadLocked
    <3>2. CASE g \notin Requests
      BY <2>1, <3>2, LockUnlock DEF AfterRemove, Goal, At, Labels, ReadLocked
    <3>. QED
      BY <3>1, <3>2
  <2>. QED
    BY <1>1, <1>5, <2>1 DEF RemoveStep, RemoveOffload, RemoveAsync, RemoveSync
<1>6. ASSUME NEW g \in Requests, StopperStep(g) PROVE Goal
  BY <1>0, <1>1, <1>6 DEF StopperStep, StopperBegin, StopperEnd, lockVars
<1>7. Goal
  BY <1>1, <1>3, <1>4, <1>5, <1>6 DEF Next, Step, OrchError
<1>. QED
  BY <1>7 DEF Goal

-----------------------------------------------------------------------------
\* TypeOK in three parts: the goroutines and the gate, the Onces and the lock, the
\* VMs and what names them.
TypeGate ==
  /\ pc \in [Procs -> Labels]
  /\ sem \in 0..ServedTh
  /\ servedSyncCounter \in 0..ServedTh
  /\ syncID \in [Requests -> -1..ServedTh]
  /\ served \in Nat /\ started \in Nat
  /\ crashed \in BOOLEAN

TypeLock ==
  /\ OnceAddInstance \in Seq(OnceStates)
  /\ onceOf \in [Procs -> 0..Len(OnceAddInstance)]
  /\ OnceCreateSnapInstance \in OnceStates
  /\ isSnapshotReady \in BOOLEAN
  /\ wOwner \in Procs \cup {None}
  /\ readers \in [Procs -> 0..2]
  /\ rWaiting \subseteq Procs

TypeVMs ==
  /\ vms \in Seq(VM)
  /\ vmID \in 0..Len(vms)
  /\ client \in [vm: 0..Len(vms), open: BOOLEAN]
  /\ fwdTo \in [Requests -> 0..Len(vms)]
  /\ stopper \in [Requests -> {"none", "begin", "stopping", "done"}]
  /\ stopVM \in [Requests -> 0..Len(vms)]

LEMMA TypeParts ==
  /\ TypeOK <=> TypeGate /\ TypeLock /\ TypeVMs
  /\ TypeOK' <=> TypeGate' /\ TypeLock' /\ TypeVMs'
BY DEF TypeOK, TypeGate, TypeLock, TypeVMs

LEMMA SetVMType ==
  ASSUME TypeOK, NEW v \in 0..Len(vms), NEW s \in VMStates, SetVM(v, s)
  PROVE  vms' \in Seq(VM) /\ Len(vms') = Len(vms)
<1>1. vms \in [1..Len(vms) -> VM] /\ Len(vms) \in Nat
  BY DEF TypeOK
<1>2. \A i \in 1..Len(vms) : [vms[i] EXCEPT !.state = s] \in VM
  BY <1>1 DEF VM
<1>3. vms' = [i \in 1..Len(vms) |-> IF i = v THEN [vms[i] EXCEPT !.state = s] ELSE vms[i]]
  BY <1>1 DEF SetVM
<1>4. vms' \in [1..Len(vms) -> VM]
  BY <1>1, <1>2, <1>3
<1>. QED
  BY <1>1, <1>4

LEMMA MarkOnceType ==
  ASSUME TypeOK, NEW g \in Procs, NEW s \in OnceStates, MarkOnce(g, s)
  PROVE  OnceAddInstance' \in Seq(OnceStates) /\ Len(OnceAddInstance') = Len(OnceAddInstance)
<1>1. OnceAddInstance \in [1..Len(OnceAddInstance) -> OnceStates] /\ Len(OnceAddInstance) \in Nat
  BY DEF TypeOK
<1>2. OnceAddInstance' \in [1..Len(OnceAddInstance) -> OnceStates]
  BY <1>1 DEF MarkOnce
<1>. QED
  BY <1>1, <1>2

LEMMA TypeNext ==
  ASSUME IInv, Next
  PROVE  TypeOK'
<1>. USE DEF IInv
<1>0. readers' \in [Procs -> 0..2] /\ rWaiting' \subseteq Procs
  BY LockNext
<1>1. ASSUME Crash PROVE TypeOK'
  BY <1>1 DEF Crash, TypeOK, countVars, gateVars, statVars, onceVars, snapVars, lockVars,
     vmVars, stopVars
<1>2. ASSUME NEW g \in Requests, ServeStep(g) PROVE TypeOK'
  <2>0. g \in Procs
    BY DEF Procs
  <2>. USE <1>0, <2>0 DEF Goto, Labels, countVars, gateVars, statVars, onceVars, snapVars,
       lockVars, vmVars, stopVars, instVars, auxVars
  <2>1. CASE Acquire(g)
    <3>1. sem' \in 0..ServedTh
      BY <2>1, ServedThAssumption DEF Acquire, PermitFree, TypeOK
    <3>. QED
      BY <2>1, <3>1 DEF Acquire, TypeOK
  <2>2. CASE CountDown(g)
    <3>1. servedSyncCounter > 0
      BY <2>2, GateCountDown
    <3>2. servedSyncCounter - 1 \in 0..ServedTh
      BY <3>1, ServedThAssumption DEF TypeOK
    <3>3. syncID' \in [Requests -> -1..ServedTh]
      BY <2>2, <3>2, ServedThAssumption DEF CountDown, TypeOK
    <3>. QED
      BY <2>2, <3>2, <3>3 DEF CountDown, TypeOK
  <2>3. CASE IncServed(g)
    BY <2>3, SMTT(60) DEF IncServed, TypeOK
  <2>4. CASE ServeRLock(g)
    BY <2>4 DEF ServeRLock, RLock, TypeOK
  <2>5. CASE FwdRLock(g)
    BY <2>5 DEF FwdRLock, RLock, TypeOK
  <2>6. CASE ReplyOK(g)
    BY <2>6 DEF ReplyOK, RUnlock, TypeOK
  <2>7. CASE ReplyErr(g)
    BY <2>7 DEF ReplyErr, RUnlock, TypeOK
  <2>8. CASE SnapSkip(g)
    BY <2>8 DEF SnapSkip, TypeOK
  <2>9. CASE SnapPause(g)
    <3>1. CASE vms[vmID].state # "running"
      BY <1>1, <2>9, <3>1 DEF SnapPause
    <3>2. CASE vms[vmID].state = "running"
      <4>1. SetVM(vmID, "paused")
        BY <2>9, <3>2 DEF SnapPause
      <4>2. vms' \in Seq(VM) /\ Len(vms') = Len(vms)
        BY <4>1, SetVMType DEF TypeOK, VMStates
      <4>. QED
        BY <2>9, <3>2, <4>2 DEF SnapPause, TypeOK, OnceStates
    <3>. QED
      BY <3>1, <3>2
  <2>10. CASE SnapCreate(g)
    <3>1. vms \in [1..Len(vms) -> VM] /\ Len(vms) \in Nat
      BY DEF TypeOK
    <3>2. vms' \in [1..Len(vms) -> VM]
      BY <2>10, <3>1 DEF SnapCreate, VM, VMStates
    <3>3. vms' \in Seq(VM) /\ Len(vms') = Len(vms)
      BY <3>1, <3>2
    <3>. QED
      BY <2>10, <3>3 DEF SnapCreate, SnapshotReady, TypeOK, OnceStates
  <2>11. CASE ServeRUnlock(g)
    BY <2>11 DEF ServeRUnlock, RUnlock, TypeOK
  <2>12. CASE Reset(g)
    BY <2>12, ServedThAssumption, SMTT(60) DEF Reset, ResetCounter, TypeOK
  <2>13. CASE Release(g)
    <3>1. sem' = 0
      BY <2>13, GateRelease
    <3>. QED
      BY <2>13, <3>1, ServedThAssumption DEF Release, TypeOK
  <2>. QED
    BY <1>2, <2>1, <2>2, <2>3, <2>4, <2>5, <2>6, <2>7, <2>8, <2>9, <2>10, <2>11,
       <2>12, <2>13 DEF ServeStep
<1>3. ASSUME NEW g \in Procs, InstanceStep(g) PROVE TypeOK'
  <2>. USE <1>0 DEF Goto, Labels, countVars, gateVars, statVars, onceVars, snapVars,
       lockVars, vmVars, stopVars, instVars, auxVars
  <2>1. CASE ReadOnce(g)
    BY <2>1 DEF ReadOnce, TypeOK
  <2>2. CASE OnceSkip(g)
    BY <2>2 DEF OnceSkip, AfterOnce, TypeOK
  <2>3. CASE OnceRun(g)
    <3>1. OnceAddInstance' \in Seq(OnceStates) /\ Len(OnceAddInstance') = Len(OnceAddInstance)
      BY <2>3, MarkOnceType DEF OnceRun, OnceStates
    <3>. QED
      BY <2>3, <3>1 DEF OnceRun, TypeOK
  <2>4. CASE LockBegin(g)
    BY <2>4 DEF LockBegin, TypeOK
  <2>5. CASE AddInstance(g)
    <3>1. CASE isSnapshotReady /\ ~Loadable(vmID)
      BY <1>1, <2>5, <3>1 DEF AddInstance
    <3>2. CASE isSnapshotReady /\ Loadable(vmID)
      <4>1. SetVM(vmID, "running") /\ vmID' = vmID
        BY <2>5, <3>2 DEF AddInstance, LoadInstance
      <4>2. vms' \in Seq(VM) /\ Len(vms') = Len(vms)
        BY <4>1, SetVMType DEF TypeOK, VMStates
      <4>. QED
        <5>1. TypeGate'
          BY <2>5, <3>2, TypeParts DEF AddInstance, TypeGate
        <5>2. TypeLock'
          BY <2>5, <3>2, TypeParts DEF AddInstance, TypeLock
        <5>3. TypeVMs'
          BY <2>5, <3>2, <4>1, <4>2, TypeParts DEF AddInstance, TypeVMs
        <5>. QED
          BY <5>1, <5>2, <5>3, TypeParts
    <3>3. CASE ~isSnapshotReady
      <4>1. /\ vms' = Append(vms, [state |-> "running", snap |-> FALSE])
            /\ vmID' = Len(vms) + 1
        BY <2>5, <3>3 DEF AddInstance, StartVM
      <4>2. [state |-> "running", snap |-> FALSE] \in VM
        BY DEF VM, VMStates
      <4>3. vms' \in Seq(VM) /\ Len(vms') = Len(vms) + 1 /\ Len(vms) \in Nat
        BY <4>1, <4>2 DEF TypeOK
      <4>4. 0..Len(vms) \subseteq 0..Len(vms') /\ vmID' \in 0..Len(vms')
        BY <4>1, <4>3
      <4>. QED
        <5>1. TypeGate'
          BY <2>5, <3>3, TypeParts DEF AddInstance, TypeGate
        <5>2. TypeLock'
          BY <2>5, <3>3, TypeParts DEF AddInstance, TypeLock
        <5>3. TypeVMs'
          BY <2>5, <3>3, <4>3, <4>4, TypeParts DEF AddInstance, TypeVMs
        <5>. QED
          BY <5>1, <5>2, <5>3, TypeParts
    <3>. QED
      BY <3>1, <3>2, <3>3
  <2>6. CASE Connect(g)
    <3>1. CASE vms[vmID].state # "running"
      BY <1>1, <2>6, <3>1 DEF Connect
    <3>2. CASE vms[vmID].state = "running"
      <4>1. OnceAddInstance' \in Seq(OnceStates) /\ Len(OnceAddInstance') = Len(OnceAddInstance)
        BY <2>6, <3>2, MarkOnceType DEF Connect, OnceStates
      <4>. QED
        <5>1. TypeGate'
          BY <2>6, <3>2, TypeParts DEF Connect, AfterOnce, TypeGate
        <5>2. TypeLock'
          BY <2>6, <3>2, <4>1, TypeParts DEF Connect, Unlock, TypeLock
        <5>3. TypeVMs'
          <6>1. /\ client' = [vm |-> vmID, open |-> TRUE]
                /\ UNCHANGED <<vms, vmID, fwdTo, stopper, stopVM>>
            BY <2>6, <3>2 DEF Connect
          <6>. QED
            BY <6>1, TypeParts DEF TypeVMs
        <5>. QED
          BY <5>1, <5>2, <5>3, TypeParts
    <3>. QED
      BY <3>1, <3>2
  <2>. QED
    BY <1>3, <2>1, <2>2, <2>3, <2>4, <2>5, <2>6 DEF InstanceStep
<1>4. ASSUME NEW g \in Procs, RemoveStep(g) PROVE TypeOK'
  <2>1. ASSUME AfterRemove(g), vms' \in Seq(VM), Len(vms') = Len(vms),
               client' \in [vm: 0..Len(vms), open: BOOLEAN],
               stopper' \in [Requests -> {"none", "begin", "stopping", "done"}]
        PROVE  TypeOK'
    <3>1. /\ OnceAddInstance' \in Seq(OnceStates) /\ Len(OnceAddInstance) \in Nat
          /\ Len(OnceAddInstance') = Len(OnceAddInstance) + 1
      BY <2>1 DEF AfterRemove, NewOnce, TypeOK, OnceStates
    <3>2. 0..Len(OnceAddInstance) \subseteq 0..Len(OnceAddInstance')
      BY <3>1
    <3>. QED
      <4>. USE <2>1, TypeParts DEF AfterRemove, countVars, gateVars, statVars, snapVars, auxVars
      <4>1. TypeGate'
        BY DEF Goto, Labels, TypeGate
      <4>2. TypeLock'
        BY <1>0, <3>1, <3>2 DEF Unlock, TypeLock
      <4>3. TypeVMs'
        BY DEF TypeVMs
      <4>. QED
        BY <4>1, <4>2, <4>3
  <2>2. CASE RemoveOffload(g)
    <3>1. CASE ~InPool(vmID)
      BY <1>1, <2>2, <3>1 DEF RemoveOffload
    <3>2. CASE InPool(vmID)
      <4>1. vms' \in Seq(VM) /\ Len(vms') = Len(vms)
        BY <2>2, <3>2, SetVMType DEF RemoveOffload, TypeOK, VMStates
      <4>. QED
        <5>1. /\ AfterRemove(g) /\ stopper' = stopper
              /\ client' = [client EXCEPT !.open = FALSE]
          BY <2>2, <3>2 DEF RemoveOffload
        <5>2. client' \in [vm: 0..Len(vms), open: BOOLEAN]
          BY <5>1 DEF TypeOK
        <5>. QED
          BY <2>1, <4>1, <5>1, <5>2 DEF TypeOK
    <3>. QED
      BY <3>1, <3>2
  <2>3. CASE RemoveAsync(g)
    BY <2>1, <2>3 DEF RemoveAsync, TypeOK
  <2>4. CASE RemoveSync(g)
    <3>1. CASE ~InPool(vmID)
      BY <1>1, <2>4, <3>1 DEF RemoveSync
    <3>2. CASE InPool(vmID)
      <4>1. vms' \in Seq(VM) /\ Len(vms') = Len(vms)
        BY <2>4, <3>2, SetVMType DEF RemoveSync, TypeOK, VMStates
      <4>. QED
        BY <2>1, <2>4, <3>2, <4>1 DEF RemoveSync, TypeOK
    <3>. QED
      BY <3>1, <3>2
  <2>. QED
    BY <1>4, <2>2, <2>3, <2>4 DEF RemoveStep
<1>5. ASSUME NEW g \in Requests, StopperStep(g) PROVE TypeOK'
  <2>. USE DEF countVars, gateVars, statVars, onceVars, snapVars, lockVars, vmVars, auxVars
  <2>1. CASE StopperBegin(g)
    <3>1. CASE ~InPool(vmID)
      BY <1>1, <2>1, <3>1 DEF StopperBegin
    <3>2. CASE InPool(vmID)
      <4>. USE <2>1, <3>2, TypeParts DEF StopperBegin
      <4>1. TypeGate'
        BY DEF TypeGate
      <4>2. TypeLock'
        BY DEF TypeLock
      <4>3. TypeVMs'
        <5>1. /\ stopVM' = [stopVM EXCEPT ![g] = vmID]
              /\ stopper' = [stopper EXCEPT ![g] = "stopping"]
              /\ UNCHANGED <<vms, vmID, client, fwdTo>>
          OBVIOUS
        <5>2. stopVM' \in [Requests -> 0..Len(vms)]
          BY <5>1 DEF TypeOK
        <5>. QED
          BY <5>1, <5>2 DEF TypeVMs
      <4>. QED
        BY <4>1, <4>2, <4>3
    <3>. QED
      BY <3>1, <3>2
  <2>2. CASE StopperEnd(g)
    <3>1. vms' \in Seq(VM) /\ Len(vms') = Len(vms)
      <4>1. CASE SetVM(stopVM[g], "stopped")
        BY <4>1, SetVMType DEF TypeOK, VMStates
      <4>. QED
        BY <2>2, <4>1 DEF StopperEnd, TypeOK
    <3>. QED
      <4>. USE <2>2, TypeParts DEF StopperEnd
      <4>1. TypeGate'
        BY DEF TypeGate
      <4>2. TypeLock'
        BY DEF TypeLock
      <4>3. TypeVMs'
        BY <3>1 DEF TypeVMs
      <4>. QED
        BY <4>1, <4>2, <4>3
  <2>. QED
    BY <1>5, <2>1, <2>2 DEF StopperStep
<1>. QED
  BY <1>1, <1>2, <1>3, <1>4, <1>5 DEF Next, Step, OrchError

-----------------------------------------------------------------------------
LEMMA IInvInit == Init => IInv
<1>. SUFFICES ASSUME Init PROVE IInv
  OBVIOUS
<1>1. TypeOK
  <2>1. OnceAddInstance \in Seq(OnceStates) /\ Len(OnceAddInstance) = 1
    BY DEF Init, OnceStates
  <2>2. vms \in Seq(VM) /\ Len(vms) = 0
    BY DEF Init
  <2>. QED
    <3>1. TypeGate
      <4>1. pc \in [Procs -> Labels]
        BY DEF Init, Labels
      <4>2. syncID \in [Requests -> -1..ServedTh]
        BY ServedThAssumption DEF Init
      <4>3. crashed \in BOOLEAN
        BY DEF Init
      <4>. QED
        BY <4>1, <4>2, <4>3, ServedThAssumption DEF Init, TypeGate
    <3>2. TypeLock
      <4>1. onceOf \in [Procs -> 0..Len(OnceAddInstance)]
        BY <2>1 DEF Init
      <4>2. isSnapshotReady \in BOOLEAN
        BY DEF Init
      <4>3. readers \in [Procs -> 0..2]
        BY DEF Init
      <4>. QED
        BY <2>1, <4>1, <4>2, <4>3 DEF Init, TypeLock, OnceStates
    <3>3. TypeVMs
      BY <2>2 DEF Init, TypeVMs
    <3>. QED
      BY <3>1, <3>2, <3>3, TypeParts
<1>2. LockInv
  BY DEF Init, LockInv, HeldAt
<1>3. GateInv
  <2>1. \A g \in Requests : pc[g] = "idle" /\ syncID[g] = -1
    BY DEF Init, Procs
  <2>2. Acquired = {} /\ Retirers = {}
    BY <2>1 DEF Acquired, Retirers
  <2>3. Cardinality(Acquired) = 0
    BY <2>2, FS_EmptySet
  <2>. QED
    BY <2>1, <2>2, <2>3, ServedThAssumption
       DEF Init, GateInv, CounterMatchesSemaphore, OneRetirer, Retiring
<1>. QED
  BY <1>1, <1>2, <1>3 DEF IInv

LEMMA IInvNext == IInv /\ [Next]_vars => IInv'
<1>. SUFFICES ASSUME IInv, [Next]_vars PROVE IInv'
  OBVIOUS
<1>1. CASE Next
  BY <1>1, TypeNext, LockNext, GateNext DEF IInv
<1>2. CASE UNCHANGED vars
  <2>. USE <1>2 DEF vars, IInv, countVars, gateVars, statVars, lockVars, instVars,
       onceVars, snapVars, vmVars, stopVars, auxVars
  <2>1. TypeOK'
    BY DEF TypeOK
  <2>2. LockInv'
    BY LockStutter
  <2>3. GateInv'
    BY GateStutter
  <2>. QED
    BY <2>1, <2>2, <2>3
<1>. QED
  BY <1>1, <1>2

\* The strengthened invariant holds in every reachable state of Function.Serve.
THEOREM Inductive == Spec => []IInv
BY IInvInit, IInvNext, PTL DEF Spec

\* Every field and local of Function keeps its type; in particular the countdown
\* never goes below zero and the semaphore never above servedTh.
THEOREM TypeCorrect == Spec => []TypeOK
<1>1. IInv => TypeOK
  BY DEF IInv
<1>. QED
  BY <1>1, Inductive, PTL

\* The countdown and the semaphore of Serve agree (functions.go 242-246, 318-319).
THEOREM CounterCorrect == Spec => []CounterMatchesSemaphore
<1>1. IInv => CounterMatchesSemaphore
  BY DEF IInv, GateInv
<1>. QED
  BY <1>1, Inductive, PTL

\* At most one request at a time is the one that shuts down the instance
\* (functions.go 228-229).
THEOREM RetirerUnique == Spec => []OneRetirer
<1>1. IInv => OneRetirer
  BY DEF IInv, GateInv
<1>. QED
  BY <1>1, Inductive, PTL

\* f.sem.Release(servedTh) finds all servedTh permits taken, and the plain store to
\* the counter races with no decrement (functions.go 318-319).
THEOREM ReleaseCorrect == Spec => []ReleaseExact
<1>1. IInv => ReleaseExact
  <2>. SUFFICES ASSUME IInv, NEW g \in Requests, pc[g] \in {"reset", "release"}
               PROVE  sem = ServedTh /\ Acquired = {}
    BY DEF ReleaseExact
  <2>1. g \in Retirers
    BY DEF IInv, GateInv, Retirers, Retiring, InService
  <2>. QED
    BY <2>1 DEF IInv, GateInv
<1>. QED
  BY <1>1, Inductive, PTL

LEMMA GateStep ==
  ASSUME IInv, Next
  PROVE  [Gate!Next]_sem
<1>. USE DEF IInv
<1>1. ASSUME sem' = sem PROVE [Gate!Next]_sem
  BY <1>1
<1>2. ASSUME NEW g \in Requests, Acquire(g) PROVE [Gate!Next]_sem
  BY <1>2 DEF Acquire, PermitFree, Gate!Next, Gate!Admit
<1>3. ASSUME NEW g \in Requests, Release(g) PROVE [Gate!Next]_sem
  <2>1. sem = ServedTh /\ sem' = 0
    BY <1>3, GateRelease
  <2>. QED
    BY <2>1 DEF Gate!Next, Gate!Drain
<1>4. ASSUME NEW g \in Requests, ServeStep(g), ~Acquire(g), ~Release(g) PROVE sem' = sem
  BY <1>4 DEF ServeStep, CountDown, IncServed, ServeRLock, FwdRLock, ReplyOK, ReplyErr,
     SnapSkip, SnapPause, SnapCreate, ServeRUnlock, Reset, Crash, countVars, gateVars
<1>5. ASSUME NEW g \in Procs, InstanceStep(g) \/ RemoveStep(g) \/ OrchError(g)
      PROVE  sem' = sem
  BY <1>5 DEF InstanceStep, ReadOnce, OnceSkip, OnceRun, LockBegin, AddInstance, Connect,
     RemoveStep, RemoveOffload, RemoveAsync, RemoveSync, AfterRemove, OrchError, Crash,
     countVars, gateVars
<1>6. ASSUME NEW g \in Requests, StopperStep(g) PROVE sem' = sem
  BY <1>6 DEF StopperStep, StopperBegin, StopperEnd, Crash, countVars, gateVars
<1>. QED
  BY <1>1, <1>2, <1>3, <1>4, <1>5, <1>6 DEF Next, Step

\* Admission in Function.Serve implements the abstract gate: rounds of at most
\* servedTh requests, closed only when full (functions.go 225-227).
THEOREM GateRefined == Spec => GateSpec
<1>1. Init => Gate!Init
  BY DEF Init, Gate!Init
<1>2. IInv /\ [Next]_vars => [Gate!Next]_sem
  <2>1. CASE UNCHANGED vars
    BY <2>1 DEF vars, countVars, gateVars
  <2>. QED
    BY <2>1, GateStep
<1>. QED
  BY <1>1, <1>2, Inductive, PTL DEF Spec, GateSpec, Gate!Spec
=============================================================================
