---------------------------- MODULE Orchestrator ----------------------------
(***************************************************************************)
(* The orchestrator (ctriface/iface.go, orch.go).  StartVM is a sequence   *)
(* of calls to containerd and firecracker-containerd, each of which leaves *)
(* an undo step in a deferred function; StopSingleVM takes the same things *)
(* down; Pause, Resume, CreateSnapshot, LoadSnapshot and Offload drive the *)
(* microVM.  A VM's caller (Function, the CRI coordinator) issues one call *)
(* at a time for it.  While those calls go on, StopActiveVMs (the StopVMs  *)
(* RPC or SIGTERM) stops every VM of the pool, and a StopSingleVM RPC or a *)
(* late asynchronous removal may stop any VM, one that is gone or was      *)
(* never started included.                                                 *)
(***************************************************************************)
EXTENDS Integers, Sequences, FiniteSets

CONSTANTS
  VMs,
  ImageOf,     \* the image of each VM
  Broken,      \* per VM, the calls that the host never serves
  HostFaults,  \* per VM, what may go wrong: "error", "deadline", "tap"
  Strays       \* the VMs that somebody besides their caller may stop

ASSUME OrchestratorAssumption ==
  /\ DOMAIN ImageOf = VMs /\ DOMAIN Broken = VMs
  /\ HostFaults \in [VMs -> SUBSET {"error", "deadline", "tap"}]
  /\ Strays \subseteq VMs

VARIABLES
  options,      \* what the orchestrator was created with
  vm,           \* per VM: its pool entry and what the host holds for it
  pc, step,     \* per actor and VM: the call in progress; StartVM's position
  owner,        \* what a VM's caller knows of it
  loader,       \* the goroutine spawned by LoadSnapshot
  cachedImages,
  raced,        \* cachedImages was accessed during a write
  td, listed,   \* StopActiveVMs and the copy of the pool's map it works on
  strays,       \* the VMs that a stray StopSingleVM was called for
  crashed       \* a panic or a fatal error: the daemon is gone

vars == <<options, vm, pc, step, owner, loader, cachedImages, raced, td, listed, strays, crashed>>

\* The caller of a VM, and whoever else stops it: StopActiveVMs or a stray StopSingleVM.
Actors == {"caller", "other"}

NoVM ==
  [pool |-> FALSE,     \* present in vmPool
   handle |-> "none",  \* vm.Task and vm.TaskCh: none, task, both
   container |-> FALSE, task |-> "none", fc |-> "none", snap |-> FALSE,
   mm |-> "none",      \* the memory manager's entry
   io |-> FALSE,       \* present in workloadIo
   expired |-> FALSE,  \* history: StartVM's deadline passed,
   refused |-> FALSE]  \*   the host refused an undo step

\* The OrchestratorOptions with a say in what the orchestrator calls.
Options == [snapshotsEnabled : BOOLEAN, isUPFEnabled : BOOLEAN]

\* main refuses user-level page faults without snapshots.
AcceptedOptions == {o \in Options : o.isUPFEnabled => o.snapshotsEnabled}

Init ==
  /\ options \in AcceptedOptions
  /\ vm = [v \in VMs |-> NoVM]
  /\ pc = [a \in Actors |-> [v \in VMs |-> "idle"]]
  /\ step = [v \in VMs |-> 1]
  /\ owner = [v \in VMs |-> "new"]
  /\ loader = [v \in VMs |-> "none"]
  /\ cachedImages = {} /\ raced = FALSE
  /\ td = "none" /\ listed = {} /\ strays = {}
  /\ crashed = FALSE

Running == ~crashed /\ td # "exited"
At(a, v, l) == Running /\ pc[a][v] = l
Goto(a, v, l) == pc' = [pc EXCEPT ![a][v] = l]

\* A caller's call returns; k is what the caller now knows of the VM.
Returns(v, k) == Goto("caller", v, "idle") /\ owner' = [owner EXCEPT ![v] = k]

Panic == /\ crashed' = TRUE
         /\ UNCHANGED <<options, vm, pc, step, owner, loader, cachedImages, raced, td, listed, strays>>

-----------------------------------------------------------------------------
(* containerd, firecracker-containerd and the taps (external): when a call can be     *)
(* served and what it changes.                                                        *)

\* VMPool.GetVM finds the VM; VMPool.GetVMMap copies the map.
GetVM(v) == vm[v].pool
GetVMMap == {v \in VMs : vm[v].pool}

GuestRuns(r) == r.fc \in {"running", "resumed"}

Can(call, r) ==
  CASE call = "createVM"        -> r.fc = "none"
    [] call = "newTask"         -> GuestRuns(r)
    [] call = "taskStart"       -> GuestRuns(r) /\ r.task = "created"
    [] call = "kill"            -> GuestRuns(r) /\ r.task \in {"created", "running", "dying"}
    [] call = "deleteTask"      -> r.task = "exited"
    [] call = "deleteContainer" -> r.container /\ r.task = "none"
    [] call = "stopVM"          -> r.fc # "none"
    [] call = "pause"           -> GuestRuns(r)
    [] call = "resume"          -> r.fc \in {"paused", "loaded"}
    [] call = "createSnapshot"  -> r.fc = "paused"
    [] call = "fcOffload"       -> r.fc \notin {"none", "offloaded"}
    [] call = "fcLoad"          -> r.fc = "offloaded" /\ r.snap
    [] call = "register"        -> r.mm = "none"
    [] OTHER                    -> TRUE

Effect(call, r) ==
  CASE call = "createVM"        -> [r EXCEPT !.fc = "running"]
    [] call = "newContainer"    -> [r EXCEPT !.container = TRUE]
    [] call = "newTask"         -> [r EXCEPT !.task = "created"]
    [] call = "taskStart"       -> [r EXCEPT !.task = "running"]
    [] call = "kill"            -> [r EXCEPT !.task = "dying"]
    [] call = "deleteTask"      -> [r EXCEPT !.task = "none"]
    [] call = "deleteContainer" -> [r EXCEPT !.container = FALSE]
    [] call = "stopVM"          -> [r EXCEPT !.fc = "none",
                                             !.task = IF @ = "none" THEN @ ELSE "exited"]
    [] call = "pause"           -> [r EXCEPT !.fc = "paused"]
    [] call = "resume"          -> [r EXCEPT !.fc = IF @ = "loaded" /\ options.isUPFEnabled
                                                      THEN "resumed" ELSE "running"]
    [] call = "createSnapshot"  -> [r EXCEPT !.snap = TRUE]
    [] call = "fcOffload"       -> [r EXCEPT !.fc = "offloaded"]
    [] call = "fcLoad"          -> [r EXCEPT !.fc = "loaded"]
    [] OTHER                    -> r

\* Mutant: StartVM keeps the task to itself.
BookkeepNoTask(call, r) ==
  CASE call = "allocate"     -> [r EXCEPT !.pool = TRUE]
    [] call = "newContainer" -> [r EXCEPT !.io = TRUE]
    [] call = "register"     -> [r EXCEPT !.mm = "registered"]
    [] call = "free"         -> [r EXCEPT !.pool = FALSE]
    [] OTHER                 -> r

\* What the orchestrator itself notes down when a call has succeeded.  The workload's
\* writer is stored right after the container was created.
Bookkeep(call, r) ==
  CASE call = "allocate"     -> [r EXCEPT !.pool = TRUE]
    [] call = "newContainer" -> [r EXCEPT !.io = TRUE]
    [] call = "newTask"      -> [r EXCEPT !.handle = "task"]
    [] call = "wait"         -> [r EXCEPT !.handle = "both"]
    [] call = "register"     -> [r EXCEPT !.mm = "registered"]
    [] call = "free"         -> [r EXCEPT !.pool = FALSE]
    [] OTHER                 -> r

Apply(call, v) == vm' = [vm EXCEPT ![v] = Bookkeep(call, Effect(call, @))]

\* The steps of StartVM that use no client of containerd or firecracker-containerd.
Local == {"allocate", "mkdir", "register"}

\* After StopActiveVMs has closed the clients every call that uses one fails.
CallOK(call, v) ==
  Can(call, vm[v]) /\ call \notin Broken[v] /\ (td = "closed" => call \in Local)
MayFail(call, v) == ~CallOK(call, v) \/ "error" \in HostFaults[v]

\* A killed task dies in its own time.
TaskExits(v) ==
  /\ Running /\ vm[v].task = "dying"
  /\ vm' = [vm EXCEPT ![v].task = "exited"]
  /\ UNCHANGED <<options, pc, step, owner, loader, cachedImages, raced, td, listed, strays, crashed>>

-----------------------------------------------------------------------------
(* StartVM. *)

StartSteps == <<"allocate", "lookup", "pull", "store", "createVM", "newContainer",
                "newTask", "wait", "taskStart", "mkdir", "register">>

\* The steps that are given the caller's context, which has a deadline.
WithContext == {"pull", "createVM", "newContainer", "newTask", "wait", "taskStart"}

\* Mutant: the pool entry is kept.
DeferredNoFree(s) ==
  CASE s = "createVM" -> "stopVM" [] s = "newContainer" -> "deleteContainer"
    [] s = "newTask" -> "deleteTask" [] s \in {"wait", "taskStart"} -> "kill" [] OTHER -> "none"

\* The deferred function that a completed step leaves behind.
Deferred(s) ==
  CASE s = "allocate"              -> "free"
    [] s = "createVM"              -> "stopVM"
    [] s = "newContainer"          -> "deleteContainer"
    [] s = "newTask"               -> "deleteTask"
    [] s \in {"wait", "taskStart"} -> "kill"
    [] OTHER                       -> "none"

CurrentStep(v) == StartSteps[step[v]]

StartVM(v) ==
  /\ At("caller", v, "idle") /\ owner[v] = "new"
  /\ Goto("caller", v, "start")
  /\ UNCHANGED <<options, vm, step, owner, loader, cachedImages, raced, td, listed, strays, crashed>>

\* The step after the current one; the memory manager is told only with UPF.
Advance(v, n) ==
  IF n > Len(StartSteps) \/ (StartSteps[n] = "register" /\ ~options.isUPFEnabled)
    THEN Returns(v, "up") /\ UNCHANGED step
    ELSE step' = [step EXCEPT ![v] = n] /\ UNCHANGED <<pc, owner>>

StartStep(v) ==
  /\ At("caller", v, "start")
  /\ CurrentStep(v) \notin {"lookup", "store"}
  /\ CallOK(CurrentStep(v), v)
  /\ Apply(CurrentStep(v), v)
  /\ Advance(v, step[v] + 1)
  /\ UNCHANGED <<options, loader, cachedImages, raced, td, listed, strays, crashed>>

\* getImage reads and writes a plain map: an access while another start writes is
\* undefined, and the Go runtime may kill the process.
ImageConflict(v) == \E w \in VMs \ {v} : At("caller", w, "start") /\ CurrentStep(w) = "store"

ImageLookup(v) ==
  /\ At("caller", v, "start") /\ CurrentStep(v) = "lookup"
  /\ raced' = (raced \/ ImageConflict(v))
  /\ \/ /\ Advance(v, step[v] + (IF ImageOf[v] \in cachedImages THEN 3 ELSE 1))
        /\ UNCHANGED crashed
     \/ ImageConflict(v) /\ crashed' = TRUE /\ UNCHANGED <<pc, step, owner>>
  /\ UNCHANGED <<options, vm, loader, cachedImages, td, listed, strays>>

\* The end of the write that began when the pull returned.
ImageStore(v) ==
  /\ At("caller", v, "start") /\ CurrentStep(v) = "store"
  /\ raced' = (raced \/ ImageConflict(v))
  /\ \/ /\ cachedImages' = cachedImages \cup {ImageOf[v]}
        /\ Advance(v, step[v] + 1)
        /\ UNCHANGED crashed
     \/ /\ ImageConflict(v)
        /\ crashed' = TRUE /\ UNCHANGED <<pc, step, owner, cachedImages>>
  /\ UNCHANGED <<options, vm, loader, td, listed, strays>>

\* A step returns an error.  (vm.Container and vm.Task then hold nil, as good as unset.)
\* After a deadline the host may have done what it was asked nevertheless.
StartFails(v) ==
  /\ At("caller", v, "start")
  /\ CurrentStep(v) \notin {"lookup", "store"}
  /\ \/ MayFail(CurrentStep(v), v) /\ UNCHANGED vm
     \/ /\ CurrentStep(v) \in WithContext /\ "deadline" \in HostFaults[v]
        /\ \E done \in BOOLEAN :
              /\ done => CallOK(CurrentStep(v), v)
              /\ vm' = [vm EXCEPT ![v] =
                   [IF done THEN Effect(CurrentStep(v), @) ELSE @ EXCEPT !.expired = TRUE]]
  /\ Goto("caller", v, "undo")
  /\ UNCHANGED <<options, step, owner, loader, cachedImages, raced, td, listed, strays, crashed>>

\* Free has no use for the host but to remove the tap of a VM that is in the pool.
Refusable(call, v) ==
  IF call = "free" THEN "tap" \in HostFaults[v] /\ vm[v].pool
                    ELSE "error" \in HostFaults[v] \/ call \in Broken[v] \/ td = "closed"

\* The deferred functions run in reverse order; an error is logged and the next runs.
\* All but Free use StartVM's context.
UndoStep(v) ==
  /\ At("caller", v, "undo")
  /\ \/ /\ step[v] = 1
        /\ Returns(v, "unstarted")
        /\ UNCHANGED <<vm, step>>
     \/ /\ step[v] > 1
        /\ step' = [step EXCEPT ![v] = @ - 1]
        /\ LET undo == Deferred(StartSteps[step[v] - 1])
               served == undo = "free" \/ (CallOK(undo, v) /\ ~vm[v].expired)
           IN  \/ undo # "none" /\ served /\ Apply(undo, v)
               \/ undo # "none" /\ Refusable(undo, v) /\ vm' = [vm EXCEPT ![v].refused = TRUE]
               \/ /\ undo # "none" /\ ~served /\ undo \notin Broken[v] /\ td # "closed"
                  /\ UNCHANGED vm
               \/ undo = "none" /\ UNCHANGED vm
        /\ UNCHANGED <<pc, owner>>
  /\ UNCHANGED <<options, loader, cachedImages, raced, td, listed, strays, crashed>>

-----------------------------------------------------------------------------
(* StopSingleVM, for a VM's caller or for somebody else. *)

StopEnds(a, v, ok) ==
  IF a = "caller" THEN Returns(v, IF ok THEN "stopped" ELSE "failed")
                  ELSE Goto(a, v, IF ok THEN "stopped" ELSE "failed") /\ UNCHANGED owner

\* The caller stops the VM it holds.
StopSingleVM(v) ==
  /\ At("caller", v, "idle") /\ owner[v] = "up"
  /\ Goto("caller", v, "getVM")
  /\ UNCHANGED <<options, vm, step, owner, loader, cachedImages, raced, td, listed, strays, crashed>>

\* StopSingleVM itself asks for nothing: without snapshots the RPC stops whatever instance
\* the function has or has had, and RemoveInstanceAsync's goroutine reads f.vmID when it
\* gets to run.  At most one such stop per VM, and not while StopActiveVMs is stopping it.
StrayStop(v) ==
  /\ At("other", v, "idle") /\ v \in Strays /\ ~options.snapshotsEnabled
  /\ strays' = strays \cup {v}
  /\ Goto("other", v, "getVM")
  /\ UNCHANGED <<options, vm, step, owner, loader, cachedImages, raced, td, listed, crashed>>

\* GetVM panics if the VM is gone, and *vm.Task if StartVM has not got that far.
StopGetVM(a, v) ==
  /\ At(a, v, "getVM")
  /\ \/ (~GetVM(v) \/ vm[v].handle = "none") /\ Panic
     \/ /\ GetVM(v) /\ vm[v].handle # "none"
        /\ Goto(a, v, "kill")
        /\ UNCHANGED <<options, vm, step, owner, loader, cachedImages, raced, td, listed, strays, crashed>>

\* <-vm.TaskCh: a nil channel blocks for ever.  The channel is ready when the task has
\* exited, or as soon as StartVM has returned, because its caller cancels the context
\* that task.Wait was given.  The sleep of 500 ms that follows guarantees nothing.
StopAwait(a, v) ==
  /\ At(a, v, "await")
  /\ \/ vm[v].handle = "task" /\ Goto(a, v, "blocked")
     \/ /\ vm[v].handle = "both"
        /\ pc["caller"][v] \in {"start", "undo"} => vm[v].task \in {"exited", "none"}
        /\ Goto(a, v, "deleteTask")
  /\ UNCHANGED <<options, vm, step, owner, loader, cachedImages, raced, td, listed, strays, crashed>>

\* Mutant: the container is left to the snapshotter.
NextStopKeepContainer ==
  [kill |-> "await", deleteTask |-> "stopVM", deleteContainer |-> "stopVM", stopVM |-> "free"]

NextStop ==
  [kill |-> "await", deleteTask |-> "deleteContainer", deleteContainer |-> "stopVM",
   stopVM |-> "free"]

StopStep(a, v) ==
  /\ Running /\ pc[a][v] \in DOMAIN NextStop
  /\ LET call == pc[a][v]
     IN  \/ CallOK(call, v) /\ Apply(call, v) /\ Goto(a, v, NextStop[call]) /\ UNCHANGED owner
         \/ MayFail(call, v) /\ StopEnds(a, v, FALSE) /\ UNCHANGED vm
  /\ UNCHANGED <<options, step, loader, cachedImages, raced, td, listed, strays, crashed>>

\* vmPool.Free, then workloadIo.Delete.
StopFree(a, v) ==
  /\ At(a, v, "free")
  /\ \/ vm' = [vm EXCEPT ![v].pool = FALSE, ![v].io = FALSE] /\ StopEnds(a, v, TRUE)
     \/ Refusable("free", v) /\ StopEnds(a, v, FALSE) /\ UNCHANGED vm
  /\ UNCHANGED <<options, step, loader, cachedImages, raced, td, listed, strays, crashed>>

-----------------------------------------------------------------------------
(* PauseVM, ResumeVM, CreateSnapshot: one call each. *)

OneCall(v, call, from, to) ==
  /\ At("caller", v, "idle") /\ owner[v] \in from
  /\ \/ CallOK(call, v) /\ Apply(call, v) /\ owner' = [owner EXCEPT ![v] = to]
     \/ MayFail(call, v) /\ owner' = [owner EXCEPT ![v] = "failed"] /\ UNCHANGED vm
  /\ UNCHANGED <<options, pc, step, loader, cachedImages, raced, td, listed, strays, crashed>>

\* Both callers pause a VM only to take its one snapshot, with snapshots enabled.
PauseVM(v) == options.snapshotsEnabled /\ ~vm[v].snap /\ OneCall(v, "pause", {"up"}, "paused")
ResumeVM(v) == OneCall(v, "resume", {"paused", "loaded"}, "up")
CreateSnapshot(v) == OneCall(v, "createSnapshot", {"paused"}, "paused")

-----------------------------------------------------------------------------
(* Offload. *)

\* GetVM panics for a VM that is gone.  Function offloads a running VM, the
\* coordinator a paused one.
Offload(v) ==
  /\ At("caller", v, "idle") /\ options.snapshotsEnabled /\ owner[v] \in {"up", "paused"}
  /\ \/ ~GetVM(v) /\ Panic
     \/ /\ GetVM(v)
        /\ Goto("caller", v, IF options.isUPFEnabled THEN "deactivate" ELSE "fcOffload")
        /\ UNCHANGED <<options, vm, step, owner, loader, cachedImages, raced, td, listed, strays, crashed>>

\* With snapshots the RPC offloads: of a function that never had an instance, the VM that
\* is not there.
StrayOffload(v) ==
  /\ At("caller", v, "idle") /\ owner[v] = "new" /\ v \in Strays /\ options.snapshotsEnabled
  /\ strays' = strays \cup {v} /\ crashed' = TRUE
  /\ UNCHANGED <<options, vm, pc, step, owner, loader, cachedImages, raced, td, listed>>

\* memoryManager.Deactivate of a VM that is not active: nothing if it never was, an error
\* if it no longer is.
OffloadDeactivate(v) ==
  /\ At("caller", v, "deactivate")
  /\ \/ vm[v].mm = "inactive" /\ Returns(v, "unloaded")
     \/ vm[v].mm \in {"none", "registered"} /\ Goto("caller", v, "fcOffload") /\ UNCHANGED owner
  /\ UNCHANGED <<options, vm, step, loader, cachedImages, raced, td, listed, strays, crashed>>

\* Of an active one: the send on the unbuffered quitCh waits for the poller, which sits in
\* EpollWait until the guest's next page fault; a paused guest has none, and no guest has
\* to have one.  If the munmap that follows fails, Deactivate returns its error: the
\* poller is gone, and the VM is still marked active.
OffloadQuit(v) ==
  /\ At("caller", v, "deactivate") /\ vm[v].mm = "active" /\ vm[v].fc # "paused"
  /\ \/ /\ vm' = [vm EXCEPT ![v].mm = "inactive"]
        /\ Goto("caller", v, "fcOffload") /\ UNCHANGED owner
     \/ /\ "error" \in HostFaults[v]
        /\ vm' = [vm EXCEPT ![v].mm = "unpolled"]
        /\ Returns(v, "unloaded")
  /\ UNCHANGED <<options, step, loader, cachedImages, raced, td, listed, strays, crashed>>

\* The coordinator keeps the instance in its idle list even after an error.
OffloadFC(v) ==
  /\ At("caller", v, "fcOffload")
  /\ \/ CallOK("fcOffload", v) /\ Apply("fcOffload", v) /\ Goto("caller", v, "tap") /\ UNCHANGED owner
     \/ MayFail("fcOffload", v) /\ Returns(v, "unloaded") /\ UNCHANGED vm
  /\ UNCHANGED <<options, step, loader, cachedImages, raced, td, listed, strays, crashed>>

OffloadTap(v) ==
  /\ At("caller", v, "tap")
  /\ \/ ~vm[v].pool /\ Panic
     \/ /\ vm[v].pool
        /\ \/ Returns(v, "off")
           \/ "tap" \in HostFaults[v] /\ Returns(v, "unloaded")
        /\ UNCHANGED <<options, vm, step, loader, cachedImages, raced, td, listed, strays, crashed>>

-----------------------------------------------------------------------------
(* LoadSnapshot. *)

\* FetchState, then the loading goroutine is spawned.
LoadSnapshot(v) ==
  /\ At("caller", v, "idle") /\ owner[v] \in {"off", "unloaded"}
  /\ \/ /\ Goto("caller", v, IF options.isUPFEnabled THEN "activate" ELSE "join")
        /\ loader' = [loader EXCEPT ![v] = "running"]
        /\ UNCHANGED owner
     \/ /\ options.isUPFEnabled /\ "error" \in HostFaults[v]
        /\ owner' = [owner EXCEPT ![v] = "failed"]
        /\ UNCHANGED <<pc, loader>>
  /\ UNCHANGED <<options, vm, step, cachedImages, raced, td, listed, strays, crashed>>

Load(v) ==
  /\ Running /\ loader[v] = "running"
  /\ \/ CallOK("fcLoad", v) /\ Apply("fcLoad", v) /\ loader' = [loader EXCEPT ![v] = "ok"]
     \/ MayFail("fcLoad", v) /\ loader' = [loader EXCEPT ![v] = "error"] /\ UNCHANGED vm
  /\ UNCHANGED <<options, pc, step, owner, cachedImages, raced, td, listed, strays, crashed>>

\* memoryManager.Activate: the VMM sends its uffd while it loads, so a load that is
\* refused outright sends none; activation errors are collected after the join.
Activate(v) ==
  /\ At("caller", v, "activate")
  /\ \/ /\ vm[v].mm \notin {"active", "unpolled"}
        /\ vm[v].fc \in {"offloaded", "loaded"} /\ vm[v].snap
        /\ vm' = [vm EXCEPT ![v].mm = "active"]
        /\ Goto("caller", v, "join")
     \/ /\ \/ loader[v] = "error" \/ "error" \in HostFaults[v]
           \/ vm[v].mm \in {"active", "unpolled"}
        /\ Goto("caller", v, "joinFailed") /\ UNCHANGED vm
  /\ UNCHANGED <<options, step, owner, loader, cachedImages, raced, td, listed, strays, crashed>>

\* Mutant: the loading goroutine closes its channel only if it has loaded.
LoadDoneOnSuccess(v) == loader[v] = "ok"

LoadDone(v) == loader[v] # "running"

\* Mutant: a failed activation is only logged.
ActivateErrIgnored(v) == loader[v] = "ok"

LoadedOK(v) == pc["caller"][v] = "join" /\ loader[v] = "ok"

LoadJoin(v) ==
  /\ Running /\ pc["caller"][v] \in {"join", "joinFailed"}
  /\ LoadDone(v)
  /\ Returns(v, IF LoadedOK(v) THEN "loaded" ELSE "failed")
  /\ loader' = [loader EXCEPT ![v] = "none"]
  /\ UNCHANGED <<options, vm, step, cachedImages, raced, td, listed, strays, crashed>>

-----------------------------------------------------------------------------
(* StopActiveVMs, from the StopVMs RPC or the close handler.  Its stop of a VM takes the   *)
(* place of a stray one still under way.                                              *)

StopActiveVMs ==
  /\ Running /\ td = "none"
  /\ td' = "stopping"
  /\ listed' = GetVMMap
  /\ pc' = [pc EXCEPT !["other"] = [v \in VMs |-> IF v \in GetVMMap THEN "getVM" ELSE @[v]]]
  /\ UNCHANGED <<options, vm, step, owner, loader, cachedImages, raced, strays, crashed>>

StoppedAll == \A v \in listed : pc["other"][v] \in {"stopped", "failed"}

CloseClients ==
  /\ Running /\ td = "stopping" /\ StoppedAll
  /\ td' = "closed"
  /\ UNCHANGED <<options, vm, pc, step, owner, loader, cachedImages, raced, listed, strays, crashed>>

\* The RPC exits at once, the close handler after Cleanup, which removes the bridges and
\* the snapshots.
Exit ==
  /\ Running /\ td = "closed"
  /\ td' = "exited"
  /\ \/ UNCHANGED vm
     \/ vm' = [v \in VMs |-> [vm[v] EXCEPT !.snap = FALSE]]
  /\ UNCHANGED <<options, pc, step, owner, loader, cachedImages, raced, listed, strays, crashed>>

-----------------------------------------------------------------------------
CallerSteps(v) ==
  \/ StartStep(v) \/ ImageLookup(v) \/ ImageStore(v) \/ StartFails(v) \/ UndoStep(v)
  \/ OffloadDeactivate(v) \/ OffloadFC(v) \/ OffloadTap(v) \/ Activate(v) \/ LoadJoin(v)

StopSteps(a, v) == StopGetVM(a, v) \/ StopStep(a, v) \/ StopAwait(a, v) \/ StopFree(a, v)

\* What nobody has to do: callers call, and guests have page faults.
Calls(v) == \/ StartVM(v) \/ StopSingleVM(v) \/ PauseVM(v) \/ ResumeVM(v) \/ CreateSnapshot(v)
            \/ Offload(v) \/ OffloadQuit(v) \/ LoadSnapshot(v) \/ StrayStop(v) \/ StrayOffload(v)

Teardown == CloseClients \/ Exit

Next ==
  \/ StopActiveVMs \/ Teardown
  \/ \E v \in VMs : \/ Calls(v) \/ CallerSteps(v) \/ Load(v) \/ TaskExits(v)
                    \/ \E a \in Actors : StopSteps(a, v)

Spec == Init /\ [][Next]_vars

\* Goroutines run, host calls return (they have deadlines, and those of a stop are
\* local), SIGKILL kills.
FairSpec ==
  /\ Spec
  /\ WF_vars(Teardown)
  /\ \A v \in VMs : /\ WF_vars(CallerSteps(v)) /\ WF_vars(Load(v)) /\ WF_vars(TaskExits(v))
                    /\ \A a \in Actors : WF_vars(StopSteps(a, v))

-----------------------------------------------------------------------------
(* Properties. *)

\* Every variable keeps the shape of the field or local variable it stands for.
TypeOK ==
  /\ options \in AcceptedOptions /\ {raced, crashed} \subseteq BOOLEAN
  /\ vm \in [VMs ->
       [pool : BOOLEAN, handle : {"none", "task", "both"}, container : BOOLEAN,
        task : {"none", "created", "running", "dying", "exited"},
        fc : {"none", "running", "paused", "offloaded", "loaded", "resumed"},
        snap : BOOLEAN, mm : {"none", "registered", "active", "inactive", "unpolled"},
        io : BOOLEAN, expired : BOOLEAN,
        refused : BOOLEAN]]
  /\ step \in [VMs -> 1..Len(StartSteps)]
  /\ owner \in [VMs -> {"new", "up", "paused", "off", "unloaded", "loaded", "stopped", "failed",
                    "unstarted"}]
  /\ loader \in [VMs -> {"none", "running", "ok", "error"}]
  /\ cachedImages \subseteq {ImageOf[v] : v \in VMs}
  /\ td \in {"none", "stopping", "closed", "exited"} /\ listed \subseteq VMs /\ strays \subseteq VMs

\* The VMs that somebody who does not hold them stops or offloads.
Shared == listed \cup strays

\* A microVM that exists in any form is in the pool, so that StopActiveVMs finds it, and
\* a failed StartVM gives back what it took: unless a deferred call had no time left or
\* was refused, the pool entry, the microVM and the memory manager's entry are gone, and
\* the container stays only if its task was not dead yet when task.Delete was tried right
\* after the asynchronous Kill (iface.go 82-197, deferred functions in reverse order).
RollbackReleases ==
  \A v \in VMs :
    LET r == vm[v]
    IN  ~r.expired /\ ~r.refused =>
          /\ r.fc # "none" => r.pool
          /\ owner[v] = "unstarted" =>
               /\ ~r.pool /\ r.fc = "none" /\ r.mm = "none"
               /\ r.container => r.task # "none" \/ v \in Shared

\* A stop that reports success has released everything the VM held, even when StopActiveVMs
\* or a stray StopSingleVM and the caller stop the VM, or start it, at the same time
\* (iface.go 229-281, 397-412).
StopReleases ==
  \A v \in VMs :
    LET r == vm[v]
    IN  owner[v] = "stopped" \/ pc["other"][v] = "stopped" =>
          ~r.pool /\ r.fc = "none" /\ ~r.container /\ r.task = "none" /\ ~r.io

\* LoadSnapshot reports success only if the microVM is loaded, whatever the order of the
\* loading goroutine and of Activate, and a guest that runs on user-level page faults has
\* somebody to serve them, except between Offload's Deactivate and the end of the
\* microVM, and after an Offload that failed there (iface.go 504-560).
LoadedAndServed ==
  \A v \in VMs :
    /\ owner[v] = "loaded" /\ v \notin Shared => vm[v].fc = "loaded"
    /\ vm[v].fc = "resumed" =>
         \/ vm[v].mm = "active"
         \/ pc["caller"][v] = "fcOffload"
         \/ owner[v] \in {"unloaded", "failed"}

\* The panics of StopSingleVM and Offload (VM not in the pool, nil task) and the one of
\* RecreateTap need a removal by somebody who does not hold the VM: StopActiveVMs, a
\* StopSingleVM RPC or a late asynchronous removal.  A caller that stops the VM it holds is safe,
\* whatever the host refused before; the only other way to die is the unlocked image cache
\* (iface.go 233-245, 316-347, 543-551).
CrashesExplained == crashed => raced \/ Shared # {}

\* The caller waits in Offload for the poller of an active VM.
AwaitsFault(v) == pc["caller"][v] = "deactivate" /\ vm[v].mm = "active"

\* Every call of a caller returns but an Offload of an active VM whose guest has no more
\* page faults, and StopActiveVMs leads to the end of the daemon unless it caught a StartVM
\* between NewTask and Wait, whose nil channel blocks it for ever (iface.go 186-258,
\* 512-522, 553-558, 397-421).
CallsReturn ==
  /\ \A v \in VMs : []<>(~Running \/ pc["caller"][v] = "idle" \/ AwaitsFault(v))
  /\ []<>(~Running \/ td = "none" \/ \E v \in listed : pc["other"][v] = "blocked")
=============================================================================
