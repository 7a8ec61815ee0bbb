# TLA+ models of the vHive host daemon

vHive runs serverless functions in Firecracker microVMs. This directory holds
TLA+ models of the parts of the daemon in which goroutines share state, TLC
configurations that check them on small instances, and TLAPS proofs of their most
important properties for every instance. All paths below are relative to the
repository root.

## 1. Inventory

| Component | State it keeps | Operations | Talks to |
|---|---|---|---|
| Function (`functions.go`) | `sem`, `servedSyncCounter`, two `sync.Once`, `RWMutex`, `vmID`, `funcClient`, `conn`, `isSnapshotReady` | `Serve`, `fwdRPC`, `AddInstance`, `RemoveInstance(Async)`, `CreateInstanceSnapshot`, `LoadInstance`, `OffloadInstance` | orchestrator, guest (gRPC) |
| FuncPool (`functions.go`), Stats (`stats.go`) | map of functions, saved-stats heartbeat, shared `statMap` | `getFunction`, `Serve`, `AddInstance`, `RemoveInstance` | Function |
| Daemon (`vhive.go`) | globals | `StartVM`, `StopSingleVM`, `StopVMs`, `FwdHello` | FuncPool |
| CRI coordinator (`cri/coordinator.go`, `funcInstance.go`) | `activeInstances`, `idleInstances`, `nextID`, per-instance `sync.Once` | `startVM`, `stopVM`, `insertActive`, `setIdleInstance` | orchestrator |
| CRI service (`cri/container_create.go`, `container_remove.go`, `service.go`) | `podVMConfigs` | `CreateContainer` (user container, queue proxy), `RemoveContainer` | coordinator, containerd |
| Tap manager (`taps/`) | `TapCountsPerBridge`, `createdTaps`, host links | `AddTap`, `reconnectTap`, `RemoveTap` | netlink, iptables |
| VM pool (`misc/`) | `vmMap` | `Allocate`, `Free`, `RecreateTap` | tap manager |
| Orchestrator (`ctriface/`) | VM pool, cached images, workload I/O | `StartVM` (with deferred rollback), `StopSingleVM`, `PauseVM`, `ResumeVM`, `CreateSnapshot`, `LoadSnapshot`, `Offload`, `StopActiveVMs` | containerd, Firecracker, memory manager |
| Memory manager (`memory/manager/`) | instances, epoll fd, quit channels, counters | `RegisterVM`, `DeregisterVM`, `FetchState`, `Activate`, `Deactivate`, page-fault poller | userfaultfd, files |
| Working-set trace (`memory/manager/trace.go`) | recorded offsets, regions | `AppendRecord`, `ProcessRecord` | memory manager |
| TimeseriesDB (`utils/benchmarking/eventing/timeseriesdb/`) | workflows, invocations | `StartExperiment`, `DefineWorkflow`, `EndExperiment`, `registerEvent` | invoker (gRPC), broker (CloudEvents) |
| Invoker (`examples/invoker/`) | the experiment under way | `Start`, `End`, `runExperiment` | TimeseriesDB |
| CRI proxy, metrics, profiler, deployer, function images | - | - | - |

What is hard in this code, and where it bites, is the `hazards` list of
`PROJECT.json`. The short version:

* *Function.* Admission is a weighted semaphore plus a separate atomic countdown;
  both are reset in two unprotected steps. A `sync.Once` field is replaced while
  other goroutines hold the old one. The read lock is taken recursively. The
  retiring request shuts down an instance that slower requests of its round may
  still be about to use. A detached goroutine reads `f.vmID` late. Correct means:
  the countdown and the semaphore agree, one request retires, a round is released
  exactly once, no orchestrator call meets a VM in the wrong state, calls return.
* *Coordinator.* Instances travel between concurrent create calls and stopping
  goroutines through two maps, each step can fail, and a container may be removed
  while it is still being created. Correct means: one owner per instance, an active
  container has a running VM, an idle instance can be loaded, no VM is lost in
  silence, a queue proxy's address stays its pod's until the pod gives the VM up, calls
  end.
* *VM pool and taps.* Slots are drawn by atomic increments outside the lock of the
  map that records them, netlink fails half way, and a VM must find its address
  again after its snapshot is loaded. Correct means: unique addresses, a stable
  interface, no false "no space".
* *FuncPool.* First requests of several functions run together; the statistics are a
  plain map that is written under the pool's lock and read without it; the threshold is
  drawn at random; a dialling goroutine may connect after its caller gave up. Correct
  means: one `Function` per id for good, a usable threshold, requests not held up by the
  pool, no goroutine or connection left over.
* *Orchestrator.* Every step of a start leaves an undo behind, which runs with a context
  that may have expired; a teardown of all VMs, or a stop by somebody who does not hold the
  VM, runs into calls in progress. Correct means:
  a failed start and a successful stop release what was taken, what lives is in the pool,
  a guest on user-level page faults is served, calls return.
* *Memory manager.* The pages a guest sees went through a trace, regions, a file and a
  buffer and are installed at another address; a poller has to see its quit message; an
  error path keeps the lock. Correct means: the guest sees its own pages, the statistics
  are exact, poller and activation go together, calls return.
* *TimeseriesDB.* Handlers of concurrent, late and repeated events share maps with the
  calls that start and end experiments. Correct means: what is recorded is what was
  delivered, completion is justified, reported results are final.

## 2. Modules

| Module | What it is |
|---|---|
| `FuncServe` | one `Function`: the goroutines of `Serve`, `FuncPool.AddInstance` and `server.StopSingleVM` |
| `ServeGate` | abstract specification of admission: full rounds of at most `servedTh` |
| `FuncServe_proofs` | proofs about the gate of `FuncServe` |
| `FuncServeInstance_proofs` | proofs about the instance behind the gate, over the former |
| `Coordinator` | the CRI service and coordinator |
| `Coordinator_proofs` | proofs about `Coordinator` |
| `VMPool` | the VM pool over the tap manager |
| `VMPool_proofs` | proofs about `VMPool` |
| `FuncPool` | the pool of functions, `Stats` and the daemon's RPCs |
| `Dialer` | one call of `timeoutDialer`, used by `FuncPool` |
| `FuncPool_proofs` | proofs about `FuncPool` and `Dialer` |
| `Orchestrator` | the orchestrator and the end of the daemon |
| `Orchestrator_proofs` | proofs about `Orchestrator` |
| `Trace` | recorded offsets, regions and working set file as pure operators, with the reference definitions `AreRunsOf` and `ReplayExact` |
| `MemoryManager` | the memory manager, its pollers and the guests, over `Trace` |
| `MemoryManager_proofs` | proofs about `MemoryManager` |
| `TimeseriesDB` | the server of the eventing benchmarks and its invoker |
| `TimeseriesDB_proofs` | proofs about `TimeseriesDB` |
| `MCFuncServe`, `MCCoordinator`, `MCVMPool`, `MCFuncPool`, `MCOrchestrator`, `MCMemoryManager`, `MCTimeseriesDB` | small instances for TLC |

The modules meet at their interfaces. `FuncPool` hands a request over to `FuncServe`, which
sees the orchestrator through the effect of its calls on a VM, as `Coordinator` does.
`Orchestrator` allows its callers what those two do: one call at a time per VM, in the
order start, pause, snapshot, resume, offload, load, stop; and beside them the stops of
somebody who does not hold the VM (`Strays`), which come from the `StopSingleVM` RPC and from
`RemoveInstanceAsync`. It sees the pool as a set of
entries, whose addresses are `VMPool`'s subject, and the memory manager as the state of
one entry, whose service is `MemoryManager`'s.

### FuncServe

`pc[g]` is the point a goroutine has reached; every label is a place where Go may
switch goroutines with a visible effect. `Acquire`, `CountDown`, `IncServed`,
`ReadOnce`, `OnceSkip`/`OnceRun`, `ServeRLock`, `FwdRLock`, `ReplyOK`/`ReplyErr`,
`SnapSkip`/`SnapPause`/`SnapCreate`, `ServeRUnlock`, `LockBegin`,
`RemoveOffload`/`RemoveAsync`/`RemoveSync`, `Reset`, `Release` follow the lines of
`Serve` and `RemoveInstance` in order; `LockBegin`, `AddInstance`, `Connect` those of
`AddInstance`. Two details carry most of the weight.

* `sync.RWMutex` is modelled as Go implements it: `Lock` first shuts out new readers
  (`wOwner`), then waits for those inside; a reader that arrives meanwhile queues
  (`rWaiting`) even if its goroutine already holds a read lock. `Unlock` admits all
  queued readers.
* `OnceAddInstance` is a sequence of every `sync.Once` ever allocated, and `onceOf[g]`
  the one that `g` has read from the field, because `RemoveInstance` replaces the field
  while other goroutines are inside or about to enter `Do`.

The orchestrator appears through the effect of its calls on `vms`; a call on a VM in
the wrong state is the panic of the code (`Crash`), after which nothing moves. `vmID`
is an index of `vms` (the code numbers VMs with `lastInstanceID`); the unlocked read of
the string `f.vmID` in `RemoveInstanceAsync` is modelled as returning the value at the
moment it is read. The panic `Not able to parse error returned` (`functions.go:295`) is left
out: `status.FromError` parses every error that a gRPC call returns. Whether a function is pinned and whether snapshots are enabled are
variables that the initial state chooses. Metrics are left out. The 60-second dialling
loop of `getFuncClient` is one step here and `Dialer` in `FuncPool`. `ServedTh` is
positive: the threshold that `NewFunction` draws is `FuncPool`'s `Threshold`.

### FuncPool and Dialer

`Arrive` is an RPC of the daemon with its function and image; `GetFunction`, `NewFunction`
and `CreateStats` are `getFunction` under the pool's lock. From `NewFunction` to the end of
`CreateStats` the map `statMap` is being written; a read in that time (`WithStat`,
`HeartbeatBegin`) is a data race, whose outcome is either the expected one or the end of the
process. Then the RPC takes a permit, starts the instance if it is the first to need it
and dials it, and is answered. Everything about permits and rounds that `FuncServe` says
is left to it: here a permit can be had if the semaphore has any, an instance may be
retired after any answer, and the steps that wait for a permit, for a `sync.Once` or for the
function's lock (`FunctionStep`) are possible but never assumed to happen. An attempt of `Dialer` is a record of its caller, its worker, the
goroutine that takes over after a timeout, and the connection; each operator gives the
records one step leads to.

### Coordinator

An instance is its vmID, an index of `insts`; a container is named by its create call,
since containerd never reuses an id. `CreateBegin` .. `InsertActive` are
`createUserContainer` with `startVM` inlined, `StockCreate` the goroutine that creates
the placeholder, `RemoveBegin` the synchronous part of `RemoveContainer`, `TakeActive`
.. `SetIdleInstance`/`StopVM` the goroutine that runs `stopVM`, and `GetPodVMConfig`,
`RemovePodVMConfig`, `CreateProxy` are `createQueueProxy`. Each critical section of the
code is one step. `Faults` says which external calls may fail; `EarlyRemove` whether a
container may be removed before its create call returned.

### VMPool

One call of `Allocate`, `Free` or `RecreateTap` is a sequence of steps: the test of the
map, `AddTap`'s test of the record, one `Draw` per round of its loop, the creation of
the device, the record, iptables, the store into the map. Addresses and MACs are
computed octet by octet as the code formats them. `NetMayFail` lets netlink and
iptables fail before or after their effect. `Guarded` are the VMs whose callers run one
operation at a time, which the function's lock and the coordinator's ownership
guarantee for their VMs; for the others any mixture of calls is allowed.

### Orchestrator

`vm[v]` is what exists for a VM: its pool entry, the handles `vm.Task` and `vm.TaskCh`, the
container, the task, the microVM, its snapshot and the memory manager's entry. `Can` and
`Effect` say when containerd and firecracker-containerd serve a call and what it changes,
`Bookkeep` what the orchestrator notes. `StartVM` walks through `StartSteps`; an error sends
it back through `Deferred`, the undo of each step in reverse order. `StopSingleVM` is one
step per call for each of its users: the VM's caller, `StopActiveVMs`, and a stray stop
(`StrayStop`), which asks for nothing and panics where the VM is gone or has no task yet;
`StrayOffload` is the same RPC with snapshots. `OffloadQuit` is the handshake of `Deactivate`
with the poller of an active VM, which may never come. `Load` is
the goroutine of `LoadSnapshot`, joined in `LoadJoin`. `CloseClients` and `Exit` end the
daemon. `expired` and `refused` remember that a start ran out of time or that the host
refused an undo step, the two excuses the properties allow; the host may refuse the calls
that `HostFaults` names for a VM and all of those of a VM in `Broken`.

### MemoryManager and Trace

Per VM there is a caller (`cpc`), at most one polling goroutine (`poller`) and a guest with
several threads (`PageFault`, external). `instances` is a partial function, the Go map.
Threads that wait for the same page have one message between them, as userfaultfd wakes all
of them; `Threads` bounds the pages awaited at once. A page's content is its offset in the guest
memory file, so that `mem[v][p] = p` says that page `p` is right. Recording appends offsets
to the trace; `DeactivateFinish` sorts it, builds the regions (`BuildRegions`, the loop of
`ProcessRecord` as a fold over its steps) and writes the file (`WorkingSetFile`); a replay reads the file
into a buffer and installs it (`InstalledPages`) at the first fault, at the address of that
run. `UnmapFails` is the `munmap` that fails after the poller took the quit message: an
error is returned, and the VM stays active without a poller (`unmapFailed`). `mLock` is true once a call has returned with the manager's lock held. A failed
`UFFDIO_COPY` or `Read` is `log.Fatal` in the code and `Fatal` here.

### TimeseriesDB

The invoker is a sequence of RPCs; a handler is split where it reads shared state that it
writes or uses later (`Lookup`, `RegisterInvocation`, `Store`, `CheckCompletion`, ...,
`AppendRecord`). Invocation objects live in `heap`, because a handler may keep a pointer to
an object that the maps no longer name. A descriptor is the set of attributes it asks for,
a time is an index of `history`. `MapRace` is the Go runtime killing the process on a
concurrent map access; a handler that panics is caught by the CloudEvents receiver, which
is external. `StartExperiment` fills the map of workflows one by one (`DefineWorkflow`) while
late events may read it. The reply of `EndExperiment` holds live descriptors and is encoded
without a lock: `EncodeDuration` reads field 3 of one, `EncodeStatus` field 5, and handlers may
run in between. The invoker gives up on any error of an RPC, also with the server alive
(`InvokerFatal`), and the handler of the abandoned call goes on. `overlapped` remembers the invocations that two parties handled at once.

## 3. Runs

Every run is in `PROJECT.json` with the properties it checks; states are distinct ones.

| Run | Instance | Shows |
|---|---|---|
| `FuncServe_rounds` (29k) | 4 requests and an `AddInstance`, two rounds of 2, snapshots, failing RPCs, pinned or not | one request retires, a round is released exactly when complete, admission refines `ServeGate`, one VM for ever and no panic, no double start |
| `FuncServe_async` (126k) | 3 requests, 2 `StopSingleVM`, rounds of 2, snapshots on or off, all errors | `isSnapshotReady` speaks of the current VM on all paths, the asynchronous stop included |
| `FuncServe_live` (28k) | rounds of 1, 3 requests, 2 `AddInstance`, failing RPCs | requests reach a live instance; every call returns unless the retiring request failed |
| `FuncServe_deadlock` | 2 requests, a round of 2 | **violated:** finding 1 |
| `FuncServe_async_stop` | 2 requests, rounds of 1, no snapshots | **violated:** finding 2 |
| `Coordinator_snap` (2.1M) | 3 creates, 2 images, 2 pods, 2 removes, a queue proxy, every failure, early removals | one owner, active ones run, idle ones can be loaded, a VM is lost only by a call that failed or by a removal before `insertActive`, a proxy's address moves to another pod only after its own gave the VM up |
| `Coordinator_nosnap` (191k) | snapshots off, a config without image, a queue proxy and its retry, failures, no early removals | no VM is lost in silence; every call ends |
| `VMPool_races` (372k) | 5 calls, 3 VMs (one unguarded), 2 bridges of 1 tap, failures | unique addresses, stable interface, honest "no space" |
| `FuncPool_requests` (360k) | 2 functions on either side of the pinning limit, 2 requests of any kind, `-st` 0 or 2, draws that make the threshold negative or zero, 2 dials | one function per id, a usable threshold (in `TypeOK`), explained crashes, no request held up by the pool, dialers settle |
| `Orchestrator_teardown` (1.1M) | 2 VMs of one image, one with every error, deadline and tap fault and a stray stop, one whose microVM is never created; `StopActiveVMs` at any moment; every accepted combination of options | what is released by a rollback and by a stop, what may stay, served page faults, what the daemon dies of, calls return |
| `MemoryManager_replay` (486k) | a VM of 4 pages, 2 threads, 2 addresses, recording and a replay, lazy or not, failing fetch, mapping, unmapping and uffd | faithful guest memory, regions against their reference, exact statistics, poller and activation, the one fatal case, calls return |
| `TimeseriesDB_experiments` (3.2M) | 2 experiments with a common workflow id, the second with another one besides, 2 handlers, 3 deliveries of 3 events, late and repeated ones, any call of the first experiment given up | exact results, justified completion, final reports, explained crashes |

The type invariants of `FuncServe`, `Coordinator` and `VMPool`, and the auxiliary
`CounterMatchesSemaphore` and `AddressForGood`, are proved for every instance (section 5) and
not checked again by a run; those of `FuncPool`, `MemoryManager` and `TimeseriesDB` say more
than types (a positive threshold, no negative count of reused pages, no nil invocation) and are
checked and proved; that of `Orchestrator` only serves its proofs.

*Bounds.* In the first three components the constants are the only bounds; no counter is
cut off, since each request or call is made once. Rounds of two with four requests give two
full rounds, with slow requests of the first running through all of the second, which is
what the gate can get wrong; three requests are enough for a stop, a retirement and a slow
request to meet. Three creates let one instance be created, returned and taken over while
another is alive, and two removes let both ask for the same container. Three VMs on two
slots fill the bridges. In the others:

* `MaxDials` (2) ends the 60 seconds of dialling after a timeout and one more attempt;
  `Prompt` names functions whose guests answer at once, so that only one function's dials
  multiply the states; `Draws` are offsets from the mean, chosen so that the
  threshold is negative and exactly zero.
* `Broken` and `HostFaults` say per VM what the host does wrong. The second VM is there for
  what two VMs share, the image cache and `StopActiveVMs`, and its start ends in a rollback.
  `Strays` names the VM that somebody else may stop, once, and not while `StopActiveVMs` is
  stopping it: two actors on one VM are the case that the pool has to survive.
* Four pages give two regions of which one has two pages, and regions that start at page
  zero and elsewhere. `MaxReplays` (1) is a run after the recording; a second would repeat
  it, since only the statistics' lists grow. `Threads` (2) lets two faults overlap.
* `MaxDeliveries` (2 in the first experiment, 3 in all) lets a workflow of the first complete,
  and an event of it meet two deliveries in the second; the two equal descriptors of the
  second let a duplicate complete an invocation. `GiveUps` is the first experiment: after a
  call that was given up in the last one nothing new starts.

Symmetry is used over interchangeable goroutines, calls, handlers and VMs, and only in runs
that check no liveness.

*Deadlock checking* is off in every run: where each call is made once all of them end, and
in every module the daemon may, so behaviours do stop. A real deadlock is a violation of `EveryCallReturns`,
`CallsEnd`, `RequestsProceed` or `CallsReturn`.

*Fairness.* Weak fairness per goroutine: the Go scheduler runs what can run, the
forwarded RPC has a 20-second deadline, and the coordinator's start, load, snapshot and
offload calls carry contexts with deadlines. Its stops do not (`container_remove.go:38` passes
`context.Background()`): that `StopVM` of `Coordinator` returns is an assumption on the host. In `Coordinator`, `FuncPool`, `Orchestrator` and `MemoryManager`
the calls themselves are not fair, since clients need not call, and neither are page faults,
since a guest need not touch memory. Neither is anything that waits for a page fault
(`OffloadQuit`) or inside a function (`FunctionStep`: a failed last request keeps the permits,
and finding 1 blocks the lock). Timers of `Dialer` fire and killed tasks die. `FuncServe`
assumes that the given requests are made, because the question is whether they return.
Go's `RWMutex` and semaphore are fairer than assumed (both queue), so weak fairness does
not favour the code. `TimeseriesDB` claims no liveness and has none.

*Exceptions in the properties.* Several properties name the circumstances in which the code
does not give what they say; each is a behaviour of the code that the model can reach. A
request whose RPC fails while it is the last of its round leaves the round closed
(`EveryCallReturns`); a request may wait for a permit or for the function's lock for ever
(`RequestsProceed`; with `-st 0` an unpinned function never serves); a removal that comes
before its container was entered in the active map succeeds, as does the create call, and the
VM runs for ever (`NoLostVM`, with early removals); `StopActiveVMs` blocks on the nil channel
of a VM between `NewTask` and `Wait`, `Deactivate` and with it `Offload` until the next page
fault, and a lookup of an unregistered VM keeps the manager's lock (`CallsReturn`); a failed
`munmap` leaves an active VM without a poller, on which a second `Deactivate` waits for ever
(`PollerMatchesActive`, `CallsReturn`); stops of a VM that is gone, or not started yet, panic
(`CrashesExplained`); a handler that completes an invocation between the encodings of its
duration and its status makes `End` report COMPLETED with a duration of zero
(`ReportedFinal`); a rollback after its deadline leaves the microVM running
outside the pool (`RollbackReleases`); two threads that fault at once can
be fatal to the daemon (`FatalOnlyOnOverlap`); unlocked maps can be fatal
(`CrashesExplained`).

## 4. Findings

1. `functions.go:327`: `fwdRPC` takes the read lock that `Serve` already holds. If the
   retiring request calls `f.Lock()` in between, both wait for each other, and every
   later request of the function too. Needs rounds of at least two requests.
2. `functions.go:390`: the goroutine of `RemoveInstanceAsync` reads `f.vmID` when it
   runs. If the next round has started its instance by then, that one is stopped and
   the retired one is left running.

Two more consequences of releasing a round while its slow requests are still in flight
are not stated in runs of their own: an instance can serve more
than `servedTh` requests, and a slow request can be sent over a closed connection.

Two places where text and code differ, or text differs from itself, are only noted here. The help of the
flag `-hn` (`vhive.go:79`) says "Number of functions pinned in memory (IDs from 0 to X)": the
code pins the ids from 0 to X (`functions.go:102`), which are X+1 functions.
`utils/benchmarking/eventing/proto/timeseries.proto` documents `NULL` as a status that has not been set and `CANCELLED`
as cancelled by the user (lines 45-50), while `registerInvocation` gives `CANCELLED` to every
invocation that is not completed; and by its lines 72-73 and 97 every event whose attributes
match is a completion event and the duration the latest arrival of one, while a repeated
event that finds its descriptors gone is neither flagged nor extends the duration
(`main.go:138-156`, `175-193`). `ResultExact` states what the code does in both cases.

Other behaviours worth knowing that no property judges, because no text says what should
happen: a restarted user container gets a new VM while its queue proxy keeps
the old address (`container_create.go:119`); a `StopSingleVM` that failed half way cannot
be repeated (`iface.go:246`); a stopped VM stays registered with the memory manager, which
nothing tells of it (`iface.go:276`); an `Activate` that times out leaves guest memory
mapped (`manager.go:150`).

## 5. Proofs

All theorems hold for every value of the constants allowed by the `ASSUME`s of the
component's module (finite sets of requests, disjoint kinds of goroutines, a positive
`ServedTh`; at most ten bridges; images and pods given as functions of the calls; experiments
with at least one workflow, each with at least one completion event descriptor, as `Start`
builds them).

*FuncServe_proofs.* `IInv` is `TypeOK /\ LockInv /\ GateInv`. The countdown and the
semaphore alone are not inductive: one has to know that a request at `release` has reset
the counter with all permits taken and nobody between `Acquire` and the countdown, that
a retiring request before that point sees the counter at zero, and that only the request
with `syncID = 0` retires (`GateInv`). That at most one has `syncID = 0` follows because
the counter reaches zero only when all permits are taken and the permits return only
after that request is done. `LockInv` gives the read locks of a goroutine as a function of
its label, which the type of `readers` needs. Theorems: `TypeCorrect`, `CounterCorrect`,
`RetirerUnique`, `ReleaseCorrect`, and `GateRefined`: admission implements `ServeGate`.

*FuncServeInstance_proofs.* Four invariants over `IInv`.

* `SnapInv`: a request that got an answer had a VM, and `f.vmID` is never empty again. It
  makes `SnapshotOfCurrentVM` inductive; `SnapshotCorrect` has no hypothesis.
* `OnceInv`: every `sync.Once` but the one in the field is done, a goroutine inside `Do`
  holds a running one, and the request that retires the instance still holds the current
  one, since nobody else replaces it; so at most one goroutine is starting an instance. `StartsExclusive` assumes `Stops = {}`:
  `StopSingleVM` replaces the Once while another goroutine is inside the old one, and then
  two do start.
* `VMInv`: where the one VM is (`Down`, `Waking`, `Up`) as a function of the two Onces and of
  who is inside them. `OneVMCorrect` assumes `OnlyServes`, which is the case the property is
  about: snapshots on, no `StopSingleVM`, and an orchestrator that serves its calls.
* `RoundInv`: the requests of the current round hold the current Once until the last one
  retires it, those of a pinned function for ever. `LastForwardCorrect` then says for every
  `servedTh` that the retiring request, and every request of a pinned function, is
  forwarded over an open connection to a live instance. For all requests this holds only
  with `servedTh = 1` (`ForwardCorrect`): in larger rounds the last one does not wait for
  slower ones (section 4).

*VMPool_proofs.* A slot is *held* for a VM while the map, the record, a device or a call
in progress names it. Only `Draw` creates a holding, of a slot whose index is the value of
the counter and so beyond every slot held before (`Drawn`, `OneVMPerSlot`); all other steps
copy or drop holdings. With the arithmetic lemmas that addresses and MACs are injective on
slots, `AddressesUnique` follows. `NoSpaceCorrect` adds that the bridges a call has left
behind are full. `InterfaceCorrect` and `AddressKept` add, for guarded VMs, that only one
call is in progress and what it knows of the record (`GuardInv`).

*Coordinator_proofs.* Every step hands at most one instance from one owner to the next
(lemma `Transfer`), and what an owner knows of its instance (`Good`) can only be changed by
that owner. `OneOwner`, `NoDuplicates` in the idle lists and `AllGood` are inductive
together. Theorems: `CoordTypeCorrect`, `OwnerUnique`, `ActiveCorrect`, `IdleCorrect`. Two
more rest on invariants of their own. `ProxyAddressCorrect`: what is filed under a pod, and
what a proxy has read from there, was started for a create call of that pod (`FiledByOwnPod`,
`ReadFromOwnPod`), and the instance of a create call is still its own, behind its container,
or in the hands of a removal of that container (`Traced`); as an instance has one owner, a
container of another pod can only have it after such a removal. `NoVMLost`: a live VM is in
the hands of somebody who answers for it (`AllKept`; the hand-over between create call,
container, stopping goroutine and idle list is where one could be dropped), and without early
removals no removal misses its container (`MissInv`).

*FuncPool_proofs.* `statMap` and the pool's map are written by one request at a time, the
one with the lock (`LockInv`, `CreatorInv`), and a function that is found has its statistics
unless its creator is between the two (`StatInv`). Hence no request meets a missing or a
second `FuncStat`, and the only panics are those `CrashesExplained` names (`CrashesCorrect`);
`FunctionsKept` is the action property that a function in the map stays there for good.
`FuncPoolTypeCorrect` includes that a drawn threshold is positive unless `-st` is 0.
`DialersNeverStuck` (`AttemptInv` over the steps of `Dialer`) is the safety half of
`DialersSettle`: where an attempt can move no more, no goroutine is left and the connection
is the caller's or closed.

*Orchestrator_proofs.* `Fits` says what exists for a VM at each point of its caller, of
`StopActiveVMs` and of the loading goroutine: `StartInv` gives what the first steps of
`StartSteps` have left, so that the undo of `Deferred` meets exactly that. The theorems
`RollbackCorrect`, `StopCorrect`, `LoadCorrect` and `PanicsCorrect` follow for any VMs,
images, options, host faults and stray stops.

*MemoryManager_proofs.* `ControlInv` relates caller, poller and registration of one VM and is
proved without hypothesis; `PollerCorrect` follows, a failed `munmap` included. The invariant of the data says that an
unfinished trace has exactly the pages that are there, that regions and file stand for a
finished one, that a load has read this file, and that addresses are taken relative to the
first fault, which is at the first page. The remaining theorems (`MemoryTypeCorrect`,
`GuestMemoryCorrect`, `StatsCorrect`, `FatalCorrect`) assume `TracesReplay`:
every trace that a first run can leave (`Recordable`) is replayed exactly (`ReplayExact`). It
is a statement about the sort and the folds of `Trace` alone, which would take an induction
over sequences; that the traces the manager records *are* recordable is proved. `Recordable`
asks for page 0, without which `ProcessRecord` would build a wrong region: the
code relies on the guest touching its first page first, as `snapshot_state.go` does for the
address of guest memory. The run reaches every recordable trace of four pages and checks the
same properties there.

*TimeseriesDB_proofs.* Nothing locks the server's maps, so the invariant says who may touch
what. `OwnInv`: an object of `heap` belongs to one entry of one map, or to the handler that
has just created it, and only handlers of the same workflow and invocation id hold it.
`TimeInv`: no two records of an object have the same time, and none has that of a handler at
work. `QuietInv`: on an invocation that is not in `overlapped` at most one handler works, in
the experiment under way, and what it has read is still so (`Calm`); it can therefore not
panic. `KeyInv` is the account of such an invocation. `ResultExact` is not inductive, since
it speaks only of invocations at rest: `Accounts` says what an object must show at each
point of the handler at work, whose completion counts as soon as the descriptor is removed
and whose status and record are still to come. `Met` carries through every event an
assignment of deliveries to the descriptors they met, and that the others found all they
match met before (`MetDrop`, `MetMiss`); `ResultExact` and `CompletedJustified` ask for it.
By its account a completed object awaits nothing, so no later event alters the duration
that was encoded of it (`ReportInv`). The theorems `TypeCorrect`, `DeathsExplained`, `ResultsExact`,
`CompletionsJustified` and `ReportsFinal` have no further hypothesis.

*Only model-checked:* liveness (`EveryCallReturns`, `CallsEnd`, `RequestsProceed`,
`DialersSettle`, `CallsReturn`), which is out of this prover's reach; and what the folds of
`Trace` compute (`RegionsAreRuns`), an induction over sequences.

## 6. Mutants

For each property of a passing run `PROJECT.json` names a plausible slip in one mapped
definition, written as an operator just before it (`AmongLastTwo` for `IsLast`, `PeekIdle`
for `PopIdle`, ...), under which TLC finds the property violated.

## 7. Not modelled

* Metrics and the profiler (floating-point statistics, child processes, CSV), the CRI proxy
  (stateless forwarding), the deployer and the other examples, the function images.
* Start-up: flag parsing but for the rules on options, the servers that `main` starts,
  creation and removal of the bridges.
* In the orchestrator, the construction of requests (VM configuration, DNS, registry URLs).
* In the memory manager, how the statistics are averaged and written out, `WriteTrace` and
  `readTrace`, and the metrics mode being off, in which nothing
  is counted.
* In the invoker, `SayHello`, which is a template that does not compile as committed, and
  the latency file.
* Generated protobuf code.

## 8. Plan

1. A refinement of the pool and memory manager as `Orchestrator` sees them by `VMPool` and
   `MemoryManager`.
2. Runs for over-served instances and stale connections in `FuncServe`.
