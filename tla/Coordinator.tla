---------------------------- MODULE Coordinator ----------------------------
(***************************************************************************)
(* The CRI service (cri/): CreateContainer for user containers and queue   *)
(* proxies, RemoveContainer, and the coordinator that hands microVM        *)
(* instances from a create call to the active map, from there to a         *)
(* stopping goroutine, and back through the idle list of an image.         *)
(*                                                                         *)
(* An instance is named by its vmID, a container by the create call that   *)
(* asked containerd for it (containerd never reuses a container id).       *)
(***************************************************************************)
EXTENDS Naturals, Sequences

CONSTANTS
  Creates,           \* createUserContainer calls
  Proxies,           \* createQueueProxy calls
  Removes,           \* RemoveContainer calls
  Images,            \* guest images
  NoImage,           \* a config without GUEST_IMAGE
  NoContainer,
  PodOf,             \* the pod sandbox of a create or proxy call
  ImageOf,           \* the guest image of a create call
  SnapshotsEnabled,  \* orch.GetSnapshotsEnabled()
  EarlyRemove,       \* a container may be removed before its create call returned
  Faults             \* the calls that may return an error

FaultKinds == {"start", "load", "snapshot", "offload", "stop", "stock", "proxy"}
Pods == {PodOf[x] : x \in Creates \cup Proxies}

ASSUME CallsAssumption ==
  /\ PodOf \in [Creates \cup Proxies -> Pods]
  /\ ImageOf \in [Creates -> Images \cup {NoImage}]
  /\ NoImage \notin Images /\ NoContainer \notin Creates

ASSUME SwitchesAssumption ==
  /\ SnapshotsEnabled \in BOOLEAN /\ EarlyRemove \in BOOLEAN
  /\ Faults \subseteq FaultKinds

VARIABLES
  pc,               \* create call: where createUserContainer is
  stock,            \* create call: the goroutine creating the placeholder container
  instOf,           \* create call: its funcInstance, 0 before it has one
  insts,            \* every funcInstance; coordinator.nextID = Len(insts)
  activeInstances,  \* container -> vmID, 0 where the map has no entry
  idleInstances,    \* image -> sequence of vmIDs
  podVMConfigs,     \* pod -> vmID whose guest address it holds, 0 for no entry
  rpc,              \* remove call: where its stopVM goroutine is
  rmOf,             \* remove call: the container
  rmInst,           \* remove call: the instance taken out of the active map
  qpc,              \* proxy call: where createQueueProxy is
  qVM               \* proxy call: the VM in GUEST_ADDR

createVars == <<pc, stock, instOf>>
coordVars == <<insts, activeInstances, idleInstances>>
removeVars == <<rpc, rmOf, rmInst>>
proxyVars == <<qpc, qVM>>
vars == <<createVars, coordVars, podVMConfigs, removeVars, proxyVars>>

\* vm: the microVM of the instance; snap: its snapshot exists; once: its
\* onceCreateSnapInstance has run.
VMStates == {"none", "running", "paused", "offloaded", "stopped"}
Instance == [image: Images, vm: VMStates, snap: BOOLEAN, once: BOOLEAN]

Init ==
  /\ pc = [c \in Creates |-> "begin"]
  /\ stock = [c \in Creates |-> "none"]
  /\ instOf = [c \in Creates |-> 0]
  /\ insts = <<>>
  /\ activeInstances = [c \in Creates |-> 0]
  /\ idleInstances = [i \in Images |-> <<>>]
  /\ podVMConfigs = [p \in Pods |-> 0]
  /\ rpc = [r \in Removes |-> "begin"]
  /\ rmOf = [r \in Removes |-> NoContainer]
  /\ rmInst = [r \in Removes |-> 0]
  /\ qpc = [q \in Proxies |-> "begin"]
  /\ qVM = [q \in Proxies |-> 0]

GotoC(c, l) == pc' = [pc EXCEPT ![c] = l]
GotoR(r, l) == rpc' = [rpc EXCEPT ![r] = l]
GotoQ(q, l) == qpc' = [qpc EXCEPT ![q] = l]
MayFail(k) == k \in Faults
SetVM(i, s) == insts' = [insts EXCEPT ![i].vm = s]

-----------------------------------------------------------------------------
(* createUserContainer and coordinator.startVM. *)

\* getGuestImage finds GUEST_IMAGE in the config.
HasImage(c) == ImageOf[c] # NoImage

\* Spawn the placeholder's creation; without a guest image return at once.
CreateBegin(c) ==
  /\ pc[c] = "begin"
  /\ stock' = [stock EXCEPT ![c] = "pending"]
  /\ GotoC(c, IF HasImage(c) THEN "pick" ELSE "failed")
  /\ UNCHANGED <<instOf, coordVars, podVMConfigs, removeVars, proxyVars>>

StockCreate(c) ==
  /\ stock[c] = "pending"
  /\ \/ stock' = [stock EXCEPT ![c] = "created"]
     \/ MayFail("stock") /\ stock' = [stock EXCEPT ![c] = "error"]
  /\ UNCHANGED <<pc, instOf, coordVars, podVMConfigs, removeVars, proxyVars>>

\* Mutant: the idle instance is read and left in the list.
PeekIdle(img) == UNCHANGED idleInstances

PopIdle(img) == idleInstances' = [idleInstances EXCEPT ![img] = Tail(@)]

\* getIdleInstance finds one: take it out of the list under the lock.
TakeIdle(c) ==
  /\ pc[c] = "pick" /\ idleInstances[ImageOf[c]] # <<>>
  /\ instOf' = [instOf EXCEPT ![c] = Head(idleInstances[ImageOf[c]])]
  /\ PopIdle(ImageOf[c])
  /\ GotoC(c, "load")
  /\ UNCHANGED <<stock, insts, activeInstances, podVMConfigs, removeVars, proxyVars>>

FreshID == Len(insts) + 1

\* getIdleInstance finds none: orchStartVM draws the next vmID.
DrawID(c) ==
  /\ pc[c] = "pick" /\ idleInstances[ImageOf[c]] = <<>>
  /\ insts' = Append(insts, [image |-> ImageOf[c], vm |-> "none",
                             snap |-> FALSE, once |-> FALSE])
  /\ instOf' = [instOf EXCEPT ![c] = FreshID]
  /\ GotoC(c, "start")
  /\ UNCHANGED <<stock, activeInstances, idleInstances, podVMConfigs, removeVars,
                 proxyVars>>

\* orch.StartVM; a failed start leaves no VM behind.
StartVM(c) ==
  /\ pc[c] = "start"
  /\ \/ SetVM(instOf[c], "running") /\ GotoC(c, "config")
     \/ MayFail("start") /\ UNCHANGED insts /\ GotoC(c, "failed")
  /\ UNCHANGED <<stock, instOf, activeInstances, idleInstances, podVMConfigs,
                 removeVars, proxyVars>>

\* orch.LoadSnapshot, then orch.ResumeVM.  It may fail at either call; on a VM
\* that was never offloaded the outcome is the VMM's.
LoadInstance(c) ==
  /\ pc[c] = "load"
  /\ \/ SetVM(instOf[c], "running") /\ GotoC(c, "config")
     \/ /\ MayFail("load") \/ insts[instOf[c]].vm # "offloaded"
        /\ UNCHANGED insts \/ SetVM(instOf[c], "paused")
        /\ GotoC(c, "failed")
  /\ UNCHANGED <<stock, instOf, activeInstances, idleInstances, podVMConfigs,
                 removeVars, proxyVars>>

FileUnderPod(c) == podVMConfigs' = [podVMConfigs EXCEPT ![PodOf[c]] = instOf[c]]

InsertPodVMConfig(c) ==
  /\ pc[c] = "config"
  /\ FileUnderPod(c)
  /\ GotoC(c, "wait")
  /\ UNCHANGED <<stock, instOf, coordVars, removeVars, proxyVars>>

\* Mutant: stockDone is closed only after a success.
StockSucceeded(c) == stock[c] = "created"

StockDone(c) == stock[c] \in {"created", "error"}

\* Mutant: the VM of a call whose placeholder failed is put up for reuse, and its address
\* stays filed under the pod.
StockWaitRecycles(c) ==
  /\ pc[c] = "wait" /\ StockDone(c)
  /\ GotoC(c, IF stock[c] = "created" THEN "insert" ELSE "failed")
  /\ idleInstances' = IF stock[c] = "created" THEN idleInstances
                      ELSE [idleInstances EXCEPT ![ImageOf[c]] = Append(@, instOf[c])]
  /\ UNCHANGED <<stock, instOf, insts, activeInstances, podVMConfigs, removeVars, proxyVars>>

\* <-stockDone; an error of the placeholder ends the call with the VM running.
StockWait(c) ==
  /\ pc[c] = "wait" /\ StockDone(c)
  /\ GotoC(c, IF stock[c] = "created" THEN "insert" ELSE "failed")
  /\ UNCHANGED <<stock, instOf, coordVars, podVMConfigs, removeVars, proxyVars>>

InsertActive(c) ==
  /\ pc[c] = "insert"
  /\ IF activeInstances[c] # 0
       THEN GotoC(c, "failed") /\ UNCHANGED activeInstances
       ELSE /\ activeInstances' = [activeInstances EXCEPT ![c] = instOf[c]]
            /\ GotoC(c, "ok")
  /\ UNCHANGED <<stock, instOf, insts, idleInstances, podVMConfigs, removeVars,
                 proxyVars>>

-----------------------------------------------------------------------------
(* RemoveContainer and the goroutine it spawns for coordinator.stopVM. *)

RemoveBegin(r, c) ==
  /\ rpc[r] = "begin"
  /\ stock[c] = "created" /\ (EarlyRemove \/ pc[c] = "ok")
  /\ rmOf' = [rmOf EXCEPT ![r] = c]
  /\ GotoR(r, "look")
  /\ UNCHANGED <<createVars, coordVars, podVMConfigs, rmInst, proxyVars>>

\* Mutant: the entry is looked up and left in the map.
LeaveActive(c) == UNCHANGED activeInstances

DeleteActive(c) == activeInstances' = [activeInstances EXCEPT ![c] = 0]

\* Lookup and delete under the lock; an absent entry is not an error.
TakeActive(r) ==
  /\ rpc[r] = "look"
  /\ rmInst' = [rmInst EXCEPT ![r] = activeInstances[rmOf[r]]]
  /\ DeleteActive(rmOf[r])
  /\ GotoR(r, IF activeInstances[rmOf[r]] = 0 THEN "done"
              ELSE IF SnapshotsEnabled THEN "snapshot" ELSE "stop")
  /\ UNCHANGED <<createVars, insts, idleInstances, podVMConfigs, rmOf, proxyVars>>

\* Mutants: an error is only logged, as Offload's is; it is dropped.
GoOnAfterError == "offload"
DropError == "done"

AfterSnapshotError == "failed"

\* orchCreateSnapshot: orch.PauseVM and orch.CreateSnapshot, once per instance and
\* not again after an error.
CreateSnapshot(r) ==
  /\ rpc[r] = "snapshot"
  /\ \/ insts[rmInst[r]].once /\ UNCHANGED insts /\ GotoR(r, "offload")
     \/ /\ ~insts[rmInst[r]].once
        /\ insts' = [insts EXCEPT ![rmInst[r]] =
                       [@ EXCEPT !.vm = "paused", !.snap = TRUE, !.once = TRUE]]
        /\ GotoR(r, "offload")
     \/ /\ ~insts[rmInst[r]].once /\ MayFail("snapshot")
        /\ \E s \in {"running", "paused"} :
              insts' = [insts EXCEPT ![rmInst[r]] = [@ EXCEPT !.vm = s, !.once = TRUE]]
        /\ GotoR(r, AfterSnapshotError)
  /\ UNCHANGED <<createVars, activeInstances, idleInstances, podVMConfigs, rmOf,
                 rmInst, proxyVars>>

OffloadVM(i) == SetVM(i, "offloaded")

\* orch.Offload; an error is logged and the instance still becomes idle.
Offload(r) ==
  /\ rpc[r] = "offload"
  /\ OffloadVM(rmInst[r]) \/ (MayFail("offload") /\ UNCHANGED insts)
  /\ GotoR(r, "setIdle")
  /\ UNCHANGED <<createVars, activeInstances, idleInstances, podVMConfigs, rmOf,
                 rmInst, proxyVars>>

SetIdleInstance(r) ==
  /\ rpc[r] = "setIdle"
  /\ idleInstances' = [idleInstances EXCEPT ![insts[rmInst[r]].image] =
                         Append(@, rmInst[r])]
  /\ GotoR(r, "done")
  /\ UNCHANGED <<createVars, insts, activeInstances, podVMConfigs, rmOf, rmInst,
                 proxyVars>>

AfterStopError == "failed"

\* Snapshots off: orch.StopSingleVM.
StopVM(r) ==
  /\ rpc[r] = "stop"
  /\ \/ SetVM(rmInst[r], "stopped") /\ GotoR(r, "done")
     \/ MayFail("stop") /\ UNCHANGED insts /\ GotoR(r, AfterStopError)
  /\ UNCHANGED <<createVars, activeInstances, idleInstances, podVMConfigs, rmOf,
                 rmInst, proxyVars>>

-----------------------------------------------------------------------------
(* createQueueProxy. *)

GetPodVMConfig(q) ==
  /\ qpc[q] = "begin"
  /\ IF podVMConfigs[PodOf[q]] = 0
       THEN GotoQ(q, "failed") /\ UNCHANGED qVM
       ELSE /\ qVM' = [qVM EXCEPT ![q] = podVMConfigs[PodOf[q]]]
            /\ GotoQ(q, "remove")
  /\ UNCHANGED <<createVars, coordVars, podVMConfigs, removeVars>>

\* The entry goes before the proxy's container exists.
RemovePodVMConfig(q) ==
  /\ qpc[q] = "remove"
  /\ podVMConfigs' = [podVMConfigs EXCEPT ![PodOf[q]] = 0]
  /\ GotoQ(q, "create")
  /\ UNCHANGED <<createVars, coordVars, removeVars, qVM>>

CreateProxy(q) ==
  /\ qpc[q] = "create"
  /\ GotoQ(q, "ok") \/ (MayFail("proxy") /\ GotoQ(q, "failed"))
  /\ UNCHANGED <<createVars, coordVars, podVMConfigs, removeVars, qVM>>

-----------------------------------------------------------------------------
CreateStep(c) == \/ CreateBegin(c) \/ TakeIdle(c) \/ DrawID(c) \/ StartVM(c)
                 \/ LoadInstance(c) \/ InsertPodVMConfig(c) \/ StockWait(c)
                 \/ InsertActive(c)

StopStep(r) == \/ TakeActive(r) \/ CreateSnapshot(r) \/ Offload(r)
               \/ SetIdleInstance(r) \/ StopVM(r)

ProxyStep(q) == GetPodVMConfig(q) \/ RemovePodVMConfig(q) \/ CreateProxy(q)

Next == \/ \E c \in Creates : CreateStep(c) \/ StockCreate(c)
        \/ \E r \in Removes : StopStep(r) \/ \E c \in Creates : RemoveBegin(r, c)
        \/ \E q \in Proxies : ProxyStep(q)

Spec == Init /\ [][Next]_vars

\* Goroutines run, and calls to containerd and the orchestrator return; clients need not
\* call at all.  A create call's context carries the kubelet's deadline, a snapshot 60 s and
\* an offload 10 s; StopSingleVM runs under context.Background() (container_remove.go 38),
\* so that it comes back is an assumption on the host.
FairSpec ==
  /\ Spec
  /\ \A c \in Creates : WF_vars(StockCreate(c)) /\ WF_vars(pc[c] # "begin" /\ CreateStep(c))
  /\ \A r \in Removes : WF_vars(StopStep(r))

-----------------------------------------------------------------------------
(* Properties. *)

CreateLabels == {"begin", "pick", "start", "load", "config", "wait", "insert", "ok", "failed"}
RemoveLabels == {"begin", "look", "snapshot", "offload", "setIdle", "stop", "done", "failed"}
ProxyLabels == {"begin", "remove", "create", "ok", "failed"}

\* Every variable keeps the shape of the field or local variable it stands for.
TypeOK ==
  /\ pc \in [Creates -> CreateLabels]
  /\ stock \in [Creates -> {"none", "pending", "created", "error"}]
  /\ insts \in Seq(Instance)
  /\ instOf \in [Creates -> 0..Len(insts)]
  /\ activeInstances \in [Creates -> 0..Len(insts)]
  /\ idleInstances \in [Images -> Seq(1..Len(insts))]
  /\ podVMConfigs \in [Pods -> 0..Len(insts)]
  /\ rpc \in [Removes -> RemoveLabels]
  /\ rmOf \in [Removes -> Creates \cup {NoContainer}]
  /\ rmInst \in [Removes -> 0..Len(insts)]
  /\ qpc \in [Proxies -> ProxyLabels]
  /\ qVM \in [Proxies -> 0..Len(insts)]

\* Who has an instance in hand: a create call, a stopping goroutine, the active map,
\* an idle list.
Creating(c, i) == instOf[c] = i /\ pc[c] \in {"start", "load", "config", "wait", "insert"}
Stopping(r, i) == rmInst[r] = i /\ rpc[r] \in {"snapshot", "offload", "setIdle", "stop"}
Active(c, i) == activeInstances[c] = i
IdleAt(img, k, i) == k \in DOMAIN idleInstances[img] /\ idleInstances[img][k] = i
Idle(i) == \E img \in Images : \E k \in DOMAIN idleInstances[img] : IdleAt(img, k, i)

\* One owner per instance, whatever create and remove calls run together: the hand
\* over points of the coordinator (coordinator.go 70-99, 110-118, 138-150) neither
\* duplicate an instance nor let two containers share a microVM.
ExclusiveOwner ==
  \A i \in 1..Len(insts) :
    /\ \A c, d \in Creates : Creating(c, i) /\ Creating(d, i) => c = d
    /\ \A c, d \in Creates : Active(c, i) /\ Active(d, i) => c = d
    /\ \A r, s \in Removes : Stopping(r, i) /\ Stopping(s, i) => r = s
    /\ \A img, jmg \in Images :
         \A k \in DOMAIN idleInstances[img], l \in DOMAIN idleInstances[jmg] :
            IdleAt(img, k, i) /\ IdleAt(jmg, l, i) => img = jmg /\ k = l
    /\ \A c, d \in Creates : ~(Creating(c, i) /\ Active(d, i))
    /\ \A c \in Creates, r \in Removes : ~(Creating(c, i) /\ Stopping(r, i))
    /\ \A c \in Creates, r \in Removes : ~(Active(c, i) /\ Stopping(r, i))
    /\ Idle(i) => /\ \A c \in Creates : ~Creating(c, i) /\ ~Active(c, i)
                  /\ \A r \in Removes : ~Stopping(r, i)

\* A container in the active map has a running VM of its own image behind it: no
\* earlier owner's pause, offload or stop can still reach that VM
\* (coordinator.go 204-261).
ActiveRuns ==
  \A c \in Creates : activeInstances[c] # 0 =>
     /\ insts[activeInstances[c]].vm = "running"
     /\ insts[activeInstances[c]].image = ImageOf[c]

\* What startVM finds in an idle list can be loaded: a snapshot of that image exists,
\* also when a first attempt to take it had failed; and unless offloading fails the
\* VM is offloaded (coordinator.go 101-105, 204-248).
IdleLoadable ==
  \A img \in Images : \A k \in DOMAIN idleInstances[img] :
     LET fi == insts[idleInstances[img][k]]
     IN  /\ fi.image = img /\ fi.snap
         /\ ~MayFail("offload") => fi.vm = "offloaded"

\* A queue proxy holds the address of a VM that serves another pod only after a user
\* container of its own pod was removed and gave up that VM: neither the address map that
\* all pods share (container_create.go 88-89, 111-121) nor the reuse of idle instances
\* (coordinator.go 70-99, 231-248) points a proxy at a VM its pod never had, or at one that
\* was handed on while the pod's container still stood.
ProxyAddressMoves ==
  \A q \in Proxies, d \in Creates :
     qVM[q] # 0 /\ Active(d, qVM[q]) /\ PodOf[d] # PodOf[q] =>
        \E c \in Creates, r \in Removes :
           PodOf[c] = PodOf[q] /\ rmOf[r] = c /\ rmInst[r] = qVM[q]

\* A call that ended in an error had the instance last.
GivenUp(i) == \/ \E c \in Creates : pc[c] = "failed" /\ instOf[c] = i
              \/ \E r \in Removes : rpc[r] = "failed" /\ rmInst[r] = i

\* A removal of the container has come and gone without finding it in the active map.
Missed(c) == \E r \in Removes : rmOf[r] = c /\ rpc[r] = "done" /\ rmInst[r] = 0

\* A VM that runs is in the hands of a call that has not ended, or behind a container that
\* a RemoveContainer can still stop, or its last owner reported an error, or it is kept for
\* reuse after an Offload that failed.  It is lost in silence in one case only: the
\* container was removed before its create call entered it in the active map, when both
\* calls succeed and nobody will stop the VM (coordinator.go 110-118,
\* container_create.go 82-101); without such early removals no VM is.
NoLostVM ==
  \A i \in 1..Len(insts) : insts[i].vm \in {"running", "paused"} =>
     \/ \E c \in Creates : Creating(c, i)
     \/ \E c \in Creates : Active(c, i) /\ (Missed(c) => EarlyRemove)
     \/ \E r \in Removes : Stopping(r, i)
     \/ GivenUp(i)
     \/ MayFail("offload") /\ Idle(i)

\* Create calls and stopping goroutines end, whichever of their parts fails: in
\* particular a failed placeholder does not leave the handler waiting
\* (container_create.go 70-73, 92).
CallsEnd ==
  /\ \A c \in Creates : pc[c] # "begin" ~> pc[c] \in {"ok", "failed"}
  /\ \A r \in Removes : rpc[r] # "begin" ~> rpc[r] \in {"done", "failed"}
=============================================================================
