----------------------------- MODULE FuncServe -----------------------------
(***************************************************************************)
(* One function of the vHive daemon (functions.go): the goroutines of      *)
(* Function.Serve, FuncPool.AddInstance and server.StopSingleVM, which     *)
(* share the semaphore and countdown that bound a round of requests, the   *)
(* sync.Once that starts the instance, the sync.Once that snapshots it,    *)
(* the RWMutex around the instance, and the VMs behind it.                 *)
(*                                                                         *)
(* Every label of pc is a point at which the Go code can be preempted with *)
(* an effect on another goroutine.  The orchestrator (ctriface) appears    *)
(* through the effect of its calls on a VM.                                *)
(***************************************************************************)
EXTENDS Integers, Sequences, FiniteSets

CONSTANTS
  Requests,          \* goroutines in Function.Serve, one request each
  Adds,              \* goroutines in FuncPool.AddInstance
  Stops,             \* goroutines in server.StopSingleVM
  None,              \* no goroutine
  ServedTh,          \* f.servedTh, fixed by NewFunction
  SnapshotModes,     \* values of the flag -snapshots
  RPCMayFail,        \* a healthy instance may still answer with an error
  OrchMayFail        \* the orchestrator may return an error

Procs == Requests \cup Adds \cup Stops

ASSUME ProcsAssumption ==
  /\ IsFiniteSet(Requests)
  /\ Requests \cap Adds = {} /\ Requests \cap Stops = {} /\ Adds \cap Stops = {}
  /\ None \notin Procs

ASSUME ServedThAssumption == ServedTh \in Nat \ {0}

ASSUME FlagsAssumption ==
  SnapshotModes \cup {RPCMayFail, OrchMayFail} \subseteq BOOLEAN

VARIABLES
  isPinnedInMem,      \* f.isPinnedInMem, fixed by NewFunction
  snapshotsEnabled,   \* orch.GetSnapshotsEnabled(), fixed at startup
  pc,                 \* where each goroutine is
  sem,                \* permits of f.sem taken
  servedSyncCounter,  \* f.servedSyncCounter
  syncID,             \* Serve's local syncID
  served, started,    \* the function's FuncStat
  OnceAddInstance,    \* every sync.Once allocated so far; the field is the last
  onceOf,             \* the one a goroutine has read from the field
  OnceCreateSnapInstance,
  isSnapshotReady,
  wOwner,             \* the goroutine inside f.Lock(), waiting for readers or not
  readers,            \* read locks each goroutine holds
  rWaiting,           \* goroutines blocked in f.RLock()
  vms,                \* every VM started; f.lastInstanceID = Len(vms)
  vmID,               \* f.vmID as an index of vms, 0 for ""
  client,             \* f.funcClient and f.conn: the VM dialled, connection open?
  fwdTo,              \* the VM that a request was forwarded to, 0 before
  stopper,            \* the goroutine RemoveInstanceAsync spawns for a request
  stopVM,             \* the vmID it passes to orch.StopSingleVM
  crashed             \* a goroutine panicked: the daemon is gone

options == <<isPinnedInMem, snapshotsEnabled>>
gateVars == <<sem, servedSyncCounter, syncID>>
statVars == <<served, started>>
onceVars == <<OnceAddInstance, onceOf>>
snapVars == <<OnceCreateSnapInstance, isSnapshotReady>>
lockVars == <<wOwner, readers, rWaiting>>
vmVars   == <<vms, vmID, client>>
stopVars == <<stopper, stopVM>>
countVars == <<gateVars, statVars>>
auxVars  == <<fwdTo, crashed>>
instVars == <<onceVars, snapVars, vmVars, stopVars, auxVars>>
vars == <<options, pc, countVars, lockVars, instVars>>

Labels == {"idle", "acquired", "counted", "stat", "once", "addLock", "addWait",
           "connect", "ready", "rlocked", "call", "snap", "snapping", "unlock",
           "retire", "retireWait", "reset", "release", "done", "failed"}

OnceStates == {"new", "running", "done"}
VMStates == {"running", "paused", "offloaded", "stopped"}
VM == [state: VMStates, snap: BOOLEAN]

Init ==
  /\ isPinnedInMem \in BOOLEAN /\ snapshotsEnabled \in SnapshotModes
  /\ pc = [g \in Procs |->
             IF g \in Requests THEN "idle" ELSE IF g \in Adds THEN "stat" ELSE "retire"]
  /\ sem = 0
  /\ servedSyncCounter = ServedTh
  /\ syncID = [g \in Requests |-> -1]
  /\ served = 0 /\ started = 0
  /\ OnceAddInstance = <<"new">>
  /\ onceOf = [g \in Procs |-> 0]
  /\ OnceCreateSnapInstance = "new"
  /\ isSnapshotReady = FALSE
  /\ wOwner = None
  /\ readers = [g \in Procs |-> 0]
  /\ rWaiting = {}
  /\ vms = <<>> /\ vmID = 0
  /\ client = [vm |-> 0, open |-> FALSE]
  /\ fwdTo = [g \in Requests |-> 0]
  /\ stopper = [g \in Requests |-> "none"]
  /\ stopVM = [g \in Requests |-> 0]
  /\ crashed = FALSE

-----------------------------------------------------------------------------
(* Control and the Go runtime. *)

At(g, l) == ~crashed /\ g \notin rWaiting /\ pc[g] = l
Goto(g, l) == pc' = [pc EXCEPT ![g] = l]

\* logger.Panic: no recover anywhere, so the process ends with this step.
Crash == /\ crashed' = TRUE
         /\ UNCHANGED <<pc, countVars, onceVars, snapVars, lockVars, vmVars,
                        stopVars, fwdTo>>

\* sync.RWMutex: a writer first shuts out new readers, then waits for the ones
\* inside; its Unlock lets in every reader that queued meanwhile.
NoReaders == \A p \in Procs : readers[p] = 0

RLock(g) ==
  /\ IF wOwner = None
       THEN readers' = [readers EXCEPT ![g] = @ + 1] /\ UNCHANGED rWaiting
       ELSE rWaiting' = rWaiting \cup {g} /\ UNCHANGED readers
  /\ UNCHANGED wOwner

RUnlock(g, n) ==
  /\ readers' = [readers EXCEPT ![g] = @ - n]
  /\ UNCHANGED <<wOwner, rWaiting>>

Unlock ==
  /\ wOwner' = None
  /\ readers' = [p \in Procs |-> IF p \in rWaiting THEN readers[p] + 1 ELSE readers[p]]
  /\ rWaiting' = {}

-----------------------------------------------------------------------------
(* Function.Serve up to the instance. *)

\* Mutant: the semaphore does not bound the round.
PermitAlways == TRUE

PermitFree == sem < ServedTh

\* A pinned function skips the gate; any other takes one permit of the round.
Acquire(g) ==
  /\ At(g, "idle")
  /\ \/ /\ isPinnedInMem
        /\ Goto(g, "counted")
        /\ UNCHANGED sem
     \/ /\ ~isPinnedInMem /\ PermitFree
        /\ sem' = sem + 1
        /\ Goto(g, "acquired")
  /\ UNCHANGED <<servedSyncCounter, syncID, statVars, instVars, lockVars>>

CountDown(g) ==
  /\ At(g, "acquired")
  /\ servedSyncCounter' = servedSyncCounter - 1
  /\ syncID' = [syncID EXCEPT ![g] = servedSyncCounter - 1]
  /\ Goto(g, "counted")
  /\ UNCHANGED <<sem, statVars, instVars, lockVars>>

IncServed(g) ==
  /\ At(g, "counted")
  /\ served' = served + 1
  /\ Goto(g, "stat")
  /\ UNCHANGED <<gateVars, started, instVars, lockVars>>

\* The field is read without the lock; RemoveInstance replaces it under the lock.
ReadOnce(g) ==
  /\ At(g, "stat")
  /\ onceOf' = [onceOf EXCEPT ![g] = Len(OnceAddInstance)]
  /\ Goto(g, "once")
  /\ UNCHANGED <<countVars, OnceAddInstance, snapVars, lockVars, vmVars, stopVars,
                 auxVars>>

\* Mutants: the Once is never marked; it is never marked done.
MarkNever(g, state) == UNCHANGED OnceAddInstance
MarkRunning(g, state) == OnceAddInstance' = [OnceAddInstance EXCEPT ![onceOf[g]] = "running"]

\* sync.Once.Do: the others wait while it runs and skip it once it is done.
MarkOnce(g, state) == OnceAddInstance' = [OnceAddInstance EXCEPT ![onceOf[g]] = state]

AfterOnce(g) == IF g \in Requests THEN "ready" ELSE "done"

OnceSkip(g) ==
  /\ At(g, "once")
  /\ OnceAddInstance[onceOf[g]] = "done"
  /\ Goto(g, AfterOnce(g))
  /\ UNCHANGED <<countVars, instVars, lockVars>>

OnceRun(g) ==
  /\ At(g, "once")
  /\ OnceAddInstance[onceOf[g]] = "new"
  /\ MarkOnce(g, "running")
  /\ Goto(g, "addLock")
  /\ UNCHANGED <<countVars, onceOf, snapVars, lockVars, vmVars, stopVars, auxVars>>

-----------------------------------------------------------------------------
(* Function.AddInstance and Function.LoadInstance. *)

\* f.Lock() of AddInstance and of RemoveInstance.
LockBegin(g) ==
  /\ wOwner = None
  /\ \/ At(g, "addLock") /\ Goto(g, "addWait")
     \/ At(g, "retire") /\ Goto(g, "retireWait")
  /\ wOwner' = g
  /\ UNCHANGED <<countVars, instVars, readers, rWaiting>>

SetVM(v, s) == vms' = [vms EXCEPT ![v].state = s]

Loadable(v) == v # 0 /\ vms[v].state = "offloaded" /\ vms[v].snap

\* orch.StartVM under a name no earlier VM of the function had.
StartVM == /\ vms' = Append(vms, [state |-> "running", snap |-> FALSE])
           /\ vmID' = Len(vms) + 1

\* Mutant: the snapshot is ignored.
LoadInstanceFresh == StartVM

\* orch.LoadSnapshot and orch.ResumeVM: the VM keeps its identity.
LoadInstance == SetVM(vmID, "running") /\ UNCHANGED vmID

AddInstance(g) ==
  /\ At(g, "addWait") /\ NoReaders
  /\ IF isSnapshotReady /\ ~Loadable(vmID)
       THEN Crash
       ELSE /\ IF isSnapshotReady THEN LoadInstance ELSE StartVM
            /\ Goto(g, "connect")
            /\ UNCHANGED <<countVars, onceVars, snapVars, lockVars, client,
                           stopVars, auxVars>>

\* getFuncClient dials the guest and gives up, with a panic, after 60 seconds.
Connect(g) ==
  /\ At(g, "connect")
  /\ IF vms[vmID].state # "running"
       THEN Crash
       ELSE /\ client' = [vm |-> vmID, open |-> TRUE]
            /\ started' = started + 1
            /\ MarkOnce(g, "done")
            /\ Unlock
            /\ Goto(g, AfterOnce(g))
            /\ UNCHANGED <<gateVars, served, onceOf, snapVars, vms, vmID, stopVars,
                           auxVars>>

-----------------------------------------------------------------------------
(* Function.Serve with an instance: forward, snapshot once, retire. *)

ServeRLock(g) ==
  /\ At(g, "ready")
  /\ RLock(g)
  /\ Goto(g, "rlocked")
  /\ UNCHANGED <<countVars, instVars>>

\* fwdRPC takes the read lock again, under the one Serve already holds.
FwdRLock(g) ==
  /\ At(g, "rlocked")
  /\ RLock(g)
  /\ Goto(g, "call")
  /\ UNCHANGED <<countVars, instVars>>

Reachable == client.open /\ client.vm # 0 /\ vms[client.vm].state = "running"

\* A paused guest answers after it is resumed.
Stalled == client.open /\ client.vm # 0 /\ vms[client.vm].state = "paused"

ReplyOK(g) ==
  /\ At(g, "call") /\ Reachable
  /\ fwdTo' = [fwdTo EXCEPT ![g] = client.vm]
  /\ RUnlock(g, 1)
  /\ Goto(g, IF snapshotsEnabled THEN "snap" ELSE "unlock")
  /\ UNCHANGED <<countVars, onceVars, snapVars, vmVars, stopVars, crashed>>

\* Deadline or any other status: Serve releases the lock and returns at once.  (The panic
\* for an error that status.FromError cannot parse is left out: it parses every error
\* that a gRPC call returns.)
ReplyErr(g) ==
  /\ At(g, "call")
  /\ RPCMayFail \/ ~(Reachable \/ Stalled)
  /\ fwdTo' = [fwdTo EXCEPT ![g] = client.vm]
  /\ RUnlock(g, 2)
  /\ Goto(g, "failed")
  /\ UNCHANGED <<countVars, onceVars, snapVars, vmVars, stopVars, crashed>>

SnapSkip(g) ==
  /\ At(g, "snap")
  /\ OnceCreateSnapInstance = "done"
  /\ Goto(g, "unlock")
  /\ UNCHANGED <<countVars, instVars, lockVars>>

\* CreateInstanceSnapshot: orch.PauseVM ...
SnapPause(g) ==
  /\ At(g, "snap")
  /\ OnceCreateSnapInstance = "new"
  /\ IF vms[vmID].state # "running"
       THEN Crash
       ELSE /\ OnceCreateSnapInstance' = "running"
            /\ SetVM(vmID, "paused")
            /\ Goto(g, "snapping")
            /\ UNCHANGED <<countVars, onceVars, isSnapshotReady, lockVars, vmID,
                           client, stopVars, auxVars>>

\* Mutant: the snapshot is taken and forgotten.
SnapshotForgotten == UNCHANGED isSnapshotReady

SnapshotReady == isSnapshotReady' = TRUE

\* ... then orch.CreateSnapshot and orch.ResumeVM.
SnapCreate(g) ==
  /\ At(g, "snapping")
  /\ vms' = [vms EXCEPT ![vmID] = [state |-> "running", snap |-> TRUE]]
  /\ OnceCreateSnapInstance' = "done"
  /\ SnapshotReady
  /\ Goto(g, "unlock")
  /\ UNCHANGED <<countVars, onceVars, lockVars, vmID, client, stopVars, auxVars>>

\* Mutant: the countdown is off by one.
AmongLastTwo(g) == ~isPinnedInMem /\ syncID[g] <= 1

IsLast(g) == ~isPinnedInMem /\ syncID[g] = 0

ServeRUnlock(g) ==
  /\ At(g, "unlock")
  /\ RUnlock(g, 1)
  /\ Goto(g, IF IsLast(g) THEN "retire" ELSE "done")
  /\ UNCHANGED <<countVars, instVars>>

\* Mutant: the permits are not given back.
KeepPermits == UNCHANGED sem

ResetCounter == servedSyncCounter' = ServedTh
ReleasePermits == sem' = sem - ServedTh

\* ZeroServedStat and the counter's reset.
Reset(g) ==
  /\ At(g, "reset")
  /\ served' = 0
  /\ ResetCounter
  /\ Goto(g, "release")
  /\ UNCHANGED <<sem, syncID, started, instVars, lockVars>>

Release(g) ==
  /\ At(g, "release")
  /\ ReleasePermits
  /\ Goto(g, "done")
  /\ UNCHANGED <<servedSyncCounter, syncID, statVars, instVars, lockVars>>

-----------------------------------------------------------------------------
(* Function.RemoveInstance: by the retiring request, or by StopSingleVM. *)

\* orch.StopSingleVM and orch.Offload panic on a name the VM pool does not hold.
InPool(v) == v # 0 /\ vms[v].state # "stopped"

\* Mutant: the Once is not replaced.
KeepOnce == UNCHANGED OnceAddInstance

NewOnce == OnceAddInstance' = Append(OnceAddInstance, "new")

AfterRemove(g) ==
  /\ NewOnce
  /\ Unlock
  /\ Goto(g, IF g \in Requests THEN "reset" ELSE "done")
  /\ UNCHANGED <<countVars, onceOf, snapVars, vmID, stopVM, auxVars>>

\* Snapshots on: offload the VM and close the connection.
RemoveOffload(g) ==
  /\ At(g, "retireWait") /\ NoReaders /\ snapshotsEnabled
  /\ IF ~InPool(vmID)
       THEN Crash
       ELSE /\ SetVM(vmID, "offloaded")
            /\ client' = [client EXCEPT !.open = FALSE]
            /\ UNCHANGED stopper
            /\ AfterRemove(g)

\* Snapshots off, isSync false: the retiring request spawns a goroutine.
RemoveAsync(g) ==
  /\ At(g, "retireWait") /\ NoReaders /\ ~snapshotsEnabled /\ g \in Requests
  /\ stopper' = [stopper EXCEPT ![g] = "begin"]
  /\ UNCHANGED <<vms, client>>
  /\ AfterRemove(g)

\* Snapshots off, isSync true: server.StopSingleVM stops the VM under the lock, or
\* is told of an error.
RemoveSync(g) ==
  /\ At(g, "retireWait") /\ NoReaders /\ ~snapshotsEnabled /\ g \in Stops
  /\ IF ~InPool(vmID)
       THEN Crash
       ELSE /\ SetVM(vmID, "stopped") \/ (OrchMayFail /\ UNCHANGED vms)
            /\ UNCHANGED <<client, stopper>>
            /\ AfterRemove(g)

\* The spawned goroutine reads f.vmID when it runs, without the lock.
StopperBegin(g) ==
  /\ ~crashed /\ stopper[g] = "begin"
  /\ IF ~InPool(vmID)
       THEN Crash
       ELSE /\ stopVM' = [stopVM EXCEPT ![g] = vmID]
            /\ stopper' = [stopper EXCEPT ![g] = "stopping"]
            /\ UNCHANGED <<pc, countVars, onceVars, snapVars, lockVars, vmVars,
                           auxVars>>

\* An error is only logged; of two stoppers of one VM the second gets one.
StopperEnd(g) ==
  /\ ~crashed /\ stopper[g] = "stopping"
  /\ stopper' = [stopper EXCEPT ![g] = "done"]
  /\ \/ SetVM(stopVM[g], "stopped")
     \/ OrchMayFail /\ UNCHANGED vms
  /\ UNCHANGED <<pc, countVars, onceVars, snapVars, lockVars, vmID, client, stopVM,
                 auxVars>>

-----------------------------------------------------------------------------
\* Calls whose error ends in a panic.
InPanickingCall(g) ==
  \/ At(g, "addWait") /\ NoReaders
  \/ At(g, "connect")
  \/ At(g, "snap") /\ OnceCreateSnapInstance = "new"
  \/ At(g, "snapping")
  \/ At(g, "retireWait") /\ NoReaders /\ snapshotsEnabled

OrchError(g) == OrchMayFail /\ InPanickingCall(g) /\ Crash /\ UNCHANGED options

InstanceStep(g) == \/ ReadOnce(g) \/ OnceSkip(g) \/ OnceRun(g)
                   \/ LockBegin(g) \/ AddInstance(g) \/ Connect(g)

RemoveStep(g) == RemoveOffload(g) \/ RemoveAsync(g) \/ RemoveSync(g)

ServeStep(g) == \/ Acquire(g) \/ CountDown(g) \/ IncServed(g)
                \/ ServeRLock(g) \/ FwdRLock(g) \/ ReplyOK(g) \/ ReplyErr(g)
                \/ SnapSkip(g) \/ SnapPause(g) \/ SnapCreate(g)
                \/ ServeRUnlock(g) \/ Reset(g) \/ Release(g)

StopperStep(g) == (StopperBegin(g) \/ StopperEnd(g)) /\ UNCHANGED options

Step(g) == /\ \/ g \in Requests /\ ServeStep(g)
              \/ InstanceStep(g)
              \/ RemoveStep(g)
           /\ UNCHANGED options

Next == \/ \E g \in Procs : Step(g) \/ OrchError(g)
        \/ \E g \in Requests : StopperStep(g)

Spec == Init /\ [][Next]_vars

\* The Go scheduler runs every goroutine that can run, and every blocking call of
\* Serve has a deadline.
FairSpec == /\ Spec
            /\ \A g \in Procs : WF_vars(Step(g))
            /\ \A g \in Requests : WF_vars(StopperStep(g))

-----------------------------------------------------------------------------
(* Properties. *)

\* Every variable keeps the shape of the field or local variable it stands for.
TypeOK ==
  /\ pc \in [Procs -> Labels]
  /\ sem \in 0..ServedTh
  /\ servedSyncCounter \in 0..ServedTh
  /\ syncID \in [Requests -> -1..ServedTh]
  /\ served \in Nat /\ started \in Nat
  /\ OnceAddInstance \in Seq(OnceStates)
  /\ onceOf \in [Procs -> 0..Len(OnceAddInstance)]
  /\ OnceCreateSnapInstance \in OnceStates
  /\ isSnapshotReady \in BOOLEAN
  /\ wOwner \in Procs \cup {None}
  /\ readers \in [Procs -> 0..2]
  /\ rWaiting \subseteq Procs
  /\ vms \in Seq(VM)
  /\ vmID \in 0..Len(vms)
  /\ client \in [vm: 0..Len(vms), open: BOOLEAN]
  /\ fwdTo \in [Requests -> 0..Len(vms)]
  /\ stopper \in [Requests -> {"none", "begin", "stopping", "done"}]
  /\ stopVM \in [Requests -> 0..Len(vms)]
  /\ crashed \in BOOLEAN

Acquired == {g \in Requests : pc[g] = "acquired"}

\* Counted and not yet returned.
InService == {"counted", "stat", "once", "addLock", "addWait", "connect", "ready",
              "rlocked", "call", "snap", "snapping", "unlock", "retire",
              "retireWait", "reset", "release"}
Retirers == {g \in Requests : syncID[g] = 0 /\ pc[g] \in InService}

\* The atomic counter and the semaphore, updated in separate steps of Serve
\* (functions.go 242-246 and 318-319), never drift apart: outside the window
\* between the two resets they differ only by the goroutines that hold a permit
\* and have not counted down yet.
CounterMatchesSemaphore ==
  (\A g \in Requests : pc[g] # "release") =>
     sem + servedSyncCounter = ServedTh + Cardinality(Acquired)

\* "The goroutine with syncID==0 shuts down the instance" (functions.go 228-229):
\* there is never a second one, even when the counter has been reset while slow
\* requests of the previous round are still being served.
OneRetirer == \A g, h \in Retirers : g = h

\* f.sem.Release(servedTh) (functions.go 319) panics if the semaphore holds fewer
\* permits, and the plain store to the counter (318) must not race with an atomic
\* decrement: when a request is about to release, the round is complete.
ReleaseExact ==
  \A g \in Requests : pc[g] \in {"reset", "release"} =>
     sem = ServedTh /\ Acquired = {}

Gate == INSTANCE ServeGate WITH Capacity <- ServedTh, admitted <- sem

\* Admission of Serve implements the abstract gate: rounds of at most servedTh
\* requests, closed only when full (functions.go 225-227).
GateSpec == Gate!Spec

\* "The tap, the shim and the vmID remain the same" (functions.go 481): with snapshots
\* a function that only serves requests never has a second VM, however many rounds it
\* goes through, and that VM is always in the state the next orchestrator call needs, so
\* that none panics (functions.go 359, 371, 450-460, 473, 492-497).
OneVMForever == ~crashed /\ Len(vms) <= 1

Starting == {g \in Procs : pc[g] \in {"addLock", "addWait", "connect"}}

\* Two sync.Once objects never start instances at the same time, although goroutines of
\* an earlier round may still hold the earlier one (functions.go 251), and none is
\* starting one when a retiring request replaces the Once (functions.go 411).
NoDoubleStart ==
  /\ \A g, h \in Starting : g = h
  /\ \A g \in Requests : pc[g] = "retireWait" =>
       OnceAddInstance[Len(OnceAddInstance)] = "done"

\* isSnapshotReady (functions.go 304, 354) speaks of the VM that f.vmID names now,
\* also when StopSingleVM removes instances while a snapshot is taken.
SnapshotOfCurrentVM ==
  isSnapshotReady => vmID # 0 /\ vms[vmID].snap

\* A request is forwarded to an instance that is running (or paused for its
\* snapshot) over an open connection (functions.go 275, 332-335).
ForwardedToLive ==
  \A g \in Requests : pc[g] = "call" /\ g \notin rWaiting => Reachable \/ Stalled

\* "Instance shutdown is performed asynchronously because all instances have unique
\* IDs" (functions.go 230): the spawned goroutine stops the instance of the round
\* that its request closed.
AsyncStopHitsRetired ==
  \A g \in Requests : stopper[g] \in {"stopping", "done"} => stopVM[g] = fwdTo[g]

\* The error branch of the forwarded call returns without retiring the instance
\* (functions.go 278-293).
RetirerFailed == \E h \in Requests : syncID[h] = 0 /\ pc[h] = "failed"

\* Every Serve, AddInstance and StopSingleVM returns, unless the daemon ends or the
\* request that had to retire the instance failed: then its round stays closed.
EveryCallReturns ==
  \A g \in Procs : <>(crashed \/ RetirerFailed \/ pc[g] \in {"done", "failed"})
=============================================================================
