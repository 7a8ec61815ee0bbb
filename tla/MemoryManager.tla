--------------------------- MODULE MemoryManager ---------------------------
(***************************************************************************)
(* The memory manager (memory/manager/): it serves the page faults of VMs  *)
(* loaded from a snapshot.  The first run of a VM records the pages it     *)
(* touches; in later runs the recorded working set is installed at the     *)
(* first fault.  Per VM there is one caller (the orchestrator's LoadSnap-  *)
(* shot and Offload, one at a time), one polling goroutine while the VM is *)
(* active, and a guest with several threads.                               *)
(***************************************************************************)
EXTENDS Trace

CONSTANTS
  VMs,
  NumPages,     \* pages of guest memory of each VM (GuestMemSize)
  Bases,        \* addresses at which a load may map guest memory
  Threads,      \* pages that the threads of a guest, the VMM's included, wait for at once
  MaxReplays,   \* bound: runs after the first one
  Faults,       \* the calls of the host that may fail
  Absent        \* no page is there

Pages(v) == 0..(NumPages[v] - 1)

ASSUME MemoryAssumption ==
  /\ NumPages \in [VMs -> Nat \ {0}]
  /\ Bases \subseteq Nat /\ Threads \in Nat \ {0} /\ MaxReplays \in Nat
  /\ Faults \subseteq {"fetch", "map", "uffd", "munmap"}
  /\ \A v \in VMs : Absent \notin Pages(v)

VARIABLES
  mLock,      \* m.Mutex is held by a call that has returned
  stray,      \* some call named a VM that is not registered
  unmapFailed,\* whether a Deactivate of a VM could not unmap its guest memory
  instances,  \* m.instances: the states of the registered VMs
  cpc,        \* where the caller of a VM is
  poller,     \* where the goroutine pollUserPageFaults is
  wsFile,     \* the working set file
  base,       \* the guest: where its memory is mapped,
  faults,     \*   the addresses whose faults are queued in the uffd,
  mem,        \*   the content installed in each page,
  overlap,    \*   whether its threads ever waited for two pages at the same time
  crashed     \* log.Fatal or panic: the daemon is gone

guestVars == <<base, faults, mem, overlap>>
vars == <<mLock, stray, unmapFailed, instances, cpc, poller, wsFile, guestVars, crashed>>

Operations == {"register", "deregister", "load", "deactivate", "stats"}

NoInstances == [v \in {} |-> {}]

Init ==
  /\ mLock = FALSE /\ stray = FALSE
  /\ unmapFailed = [v \in VMs |-> FALSE]
  /\ instances = NoInstances
  /\ cpc = [v \in VMs |-> "idle"]
  /\ poller = [v \in VMs |-> "none"]
  /\ wsFile = [v \in VMs |-> <<>>]
  /\ base = [v \in VMs |-> 0]
  /\ faults = [v \in VMs |-> <<>>]
  /\ mem = [v \in VMs |-> [p \in Pages(v) |-> Absent]]
  /\ overlap = [v \in VMs |-> FALSE]
  /\ crashed = FALSE

At(v, l) == ~crashed /\ cpc[v] = l
Goto(v, l) == cpc' = [cpc EXCEPT ![v] = l]

\* A call returns, with or without an error.
Return(v) == Goto(v, "idle")

Registered(v) == v \in DOMAIN instances
Active(v) == Registered(v) /\ instances[v].isActive

\* The lock is taken, the instance looked up and the lock released without a wait.
Locks(v, op) == At(v, op) /\ ~mLock

\* The orchestrator's callers serialise the operations on a VM and load only a VM
\* that is offloaded (Function's lock, the coordinator's idle list).
Call(v, op) ==
  /\ At(v, "idle")
  /\ op = "load" => ~Active(v) /\ (Registered(v) => Len(instances[v].uniquePFServed) < MaxReplays)
  /\ Goto(v, op)
  /\ UNCHANGED <<mLock, stray, unmapFailed, instances, poller, wsFile, guestVars, crashed>>

-----------------------------------------------------------------------------
(* Registration. *)

NewSnapshotState(isLazyMode) ==
  [IsLazyMode |-> isLazyMode, isEverActivated |-> FALSE, isActive |-> FALSE,
   isRecordReady |-> FALSE, firstFaultDone |-> FALSE, startAddress |-> 0,
   trace |-> <<>>, regions |-> NoRegions, workingSet |-> <<>>, guestMem |-> FALSE,
   uniqueNum |-> 0, replayedNum |-> 0,
   uniquePFServed |-> <<>>, totalPFServed |-> <<>>, reusedPFServed |-> <<>>]

RegisterVM(v) ==
  /\ Locks(v, "register")
  /\ \/ Registered(v) /\ Return(v) /\ UNCHANGED instances
     \/ /\ ~Registered(v)
        /\ \E lazy \in BOOLEAN :
              instances' = [w \in DOMAIN instances \cup {v} |->
                              IF w = v THEN NewSnapshotState(lazy) ELSE instances[w]]
        /\ Return(v)
  /\ UNCHANGED <<mLock, stray, unmapFailed, poller, wsFile, guestVars, crashed>>

\* Mutant: an active VM can be removed.
RemovableAny(v) == Registered(v)

Removable(v) == Registered(v) /\ ~instances[v].isActive

DeregisterVM(v) ==
  /\ Locks(v, "deregister")
  /\ \/ ~Removable(v) /\ Return(v) /\ UNCHANGED instances
     \/ /\ Removable(v)
        /\ instances' = [w \in DOMAIN instances \ {v} |-> instances[w]]
        /\ Return(v)
  /\ UNCHANGED <<mLock, stray, unmapFailed, poller, wsFile, guestVars, crashed>>

\* FetchState, Activate, Deactivate, DumpUPFPageStats, DumpUPFLatencyStats and
\* GetUPFLatencyStats return from inside the critical section.
LookupFails(v) ==
  /\ \E op \in {"load", "deactivate", "stats"} : Locks(v, op)
  /\ ~Registered(v)
  /\ mLock' = TRUE /\ stray' = TRUE
  /\ Return(v)
  /\ UNCHANGED <<unmapFailed, instances, poller, wsFile, guestVars, crashed>>

\* The three statistics calls: refused while the VM is active.
DumpStats(v) ==
  /\ Locks(v, "stats") /\ Registered(v)
  /\ Return(v)
  /\ UNCHANGED <<mLock, stray, unmapFailed, instances, poller, wsFile, guestVars, crashed>>

-----------------------------------------------------------------------------
(* LoadSnapshot's part: FetchState, then Activate. *)

\* One Read into a buffer of len(trace) pages; what a short file leaves is zero.
ReadWorkingSet(v) ==
  [i \in 1..Len(instances[v].trace) |->
     IF i \in DOMAIN wsFile[v] THEN wsFile[v][i] ELSE Absent]

FetchState(v) ==
  /\ Locks(v, "load") /\ Registered(v)
  /\ LET needed == instances[v].isRecordReady /\ ~instances[v].IsLazyMode
     IN  \/ needed /\ "fetch" \in Faults /\ Return(v) /\ UNCHANGED instances
         \/ /\ instances' = IF needed
                              THEN [instances EXCEPT ![v].workingSet = ReadWorkingSet(v)]
                              ELSE instances
            /\ Goto(v, "activate")
  /\ UNCHANGED <<mLock, stray, unmapFailed, poller, wsFile, guestVars, crashed>>

\* Activate up to mapGuestMemory; a later failure leaves the mapping behind.
ActivateMap(v) ==
  /\ Locks(v, "activate")
  /\ \/ /\ Active(v) \/ "map" \in Faults
        /\ Return(v) /\ UNCHANGED instances
     \/ /\ ~Active(v)
        /\ instances' = [instances EXCEPT ![v].guestMem = TRUE]
        /\ Goto(v, "uffd")
  /\ UNCHANGED <<mLock, stray, unmapFailed, poller, wsFile, guestVars, crashed>>

SetupStateOnActivate(s) ==
  [s EXCEPT !.isActive = TRUE, !.isEverActivated = TRUE, !.firstFaultDone = FALSE,
            !.uniqueNum = 0, !.replayedNum = 0]

\* getUFFD: the loading VMM sends its uffd, or a second passes.  Then the state is
\* set up and the poller spawned.
GetUFFD(v) ==
  /\ At(v, "uffd")
  /\ \/ /\ "uffd" \in Faults
        /\ Return(v)
        /\ UNCHANGED <<instances, poller, base>>
     \/ /\ \E b \in Bases : base' = [base EXCEPT ![v] = b]
        /\ instances' = [instances EXCEPT ![v] = SetupStateOnActivate(@)]
        /\ poller' = [poller EXCEPT ![v] = "start"]
        /\ Goto(v, "ready")
  /\ UNCHANGED <<mLock, stray, unmapFailed, wsFile, faults, mem, overlap, crashed>>

-----------------------------------------------------------------------------
(* The guest (external) and pollUserPageFaults. *)

\* A thread touches a page that is not there.  The VMM touches the first page of
\* guest memory before anything else runs.  A thread that touches a page another one
\* waits for is woken with it: the queue holds one fault for both.
PageFault(v, p) ==
  /\ ~crashed /\ Active(v)
  /\ mem[v][p] = Absent /\ base[v] + p \notin ToSet(faults[v]) /\ Len(faults[v]) < Threads
  /\ faults[v] = <<>> /\ (\A q \in Pages(v) : mem[v][q] = Absent) => p = 0
  /\ faults' = [faults EXCEPT ![v] = Append(@, base[v] + p)]
  /\ overlap' = [overlap EXCEPT ![v] = @ \/ faults[v] # <<>>]
  /\ UNCHANGED <<mLock, stray, unmapFailed, instances, cpc, poller, wsFile, base, mem, crashed>>

\* registerEpoller, then readyCh <- 0 lets Activate return.
PollerReady(v) ==
  /\ At(v, "ready") /\ poller[v] = "start"
  /\ poller' = [poller EXCEPT ![v] = "loop"]
  /\ Return(v)
  /\ UNCHANGED <<mLock, stray, unmapFailed, instances, wsFile, guestVars, crashed>>

\* Mutant: the polling loop never looks at quitCh.
QuitIgnored(v) == FALSE

QuitRequested(v) == cpc[v] = "quit"

\* The select: quit if Deactivate is sending, otherwise block in EpollWait.
PollLoop(v) ==
  /\ ~crashed /\ poller[v] = "loop"
  /\ \/ /\ QuitRequested(v)
        /\ poller' = [poller EXCEPT ![v] = "none"]
        /\ Goto(v, "finish")
     \/ /\ ~QuitRequested(v)
        /\ poller' = [poller EXCEPT ![v] = "wait"]
        /\ UNCHANGED cpc
  /\ UNCHANGED <<mLock, stray, unmapFailed, instances, wsFile, guestVars, crashed>>

Fatal == /\ crashed' = TRUE
         /\ UNCHANGED <<mLock, stray, unmapFailed, instances, cpc, poller, wsFile, guestVars>>

\* UFFDIO_COPY fails on a page that is already there.
Installable(v, pages) == \A p \in pages : mem[v][p] = Absent

\* UFFDIO_COPY and UFFDIO_WAKE wake every thread that waits for the page of the fault
\* that is served, the first in the queue.
Wake(v) == faults' = [faults EXCEPT ![v] = Tail(@)]

\* Mutant: the trace goes on recording in replayed runs.
RecordedAlways(s, offset) ==
  LET isNew == ~s.IsLazyMode \/ ~ContainsRecord(s.trace, offset)
  IN  [s EXCEPT !.trace = AppendRecord(@, offset),
                !.uniqueNum = IF s.isRecordReady /\ isNew THEN @ + 1 ELSE @,
                !.replayedNum = IF s.isRecordReady /\ s.IsLazyMode THEN @ + 1 ELSE @]

\* What a served fault adds to the trace and, with the metrics on, to the statistics.
Recorded(s, offset) ==
  IF ~s.isRecordReady
    THEN [s EXCEPT !.trace = AppendRecord(@, offset)]
    ELSE LET isNew == ~s.IsLazyMode \/ ~ContainsRecord(s.trace, offset)
         IN  [s EXCEPT !.uniqueNum = IF isNew THEN @ + 1 ELSE @,
                       !.replayedNum = IF s.IsLazyMode THEN @ + 1 ELSE @]

FirstFault(s, address) == [s EXCEPT !.firstFaultDone = TRUE, !.startAddress = address]

\* Any other fault: copy one page of the guest memory file.
ServeOnePage(v, address) ==
  LET s == IF instances[v].firstFaultDone
             THEN instances[v]
             ELSE FirstFault(instances[v], address)
      offset == address - s.startAddress
  IN  IF offset \notin Pages(v) \/ ~s.guestMem \/ ~Installable(v, {address - base[v]})
        THEN Fatal
        ELSE /\ mem' = [mem EXCEPT ![v][address - base[v]] = offset]
             /\ Wake(v)
             /\ instances' = [instances EXCEPT ![v] = Recorded(s, offset)]
             /\ poller' = [poller EXCEPT ![v] = "loop"]
             /\ UNCHANGED <<mLock, stray, unmapFailed, cpc, wsFile, base, overlap, crashed>>

\* Mutant: servePageFault goes on after it has installed the working set.
InstallThenServe(v, address) ==
  IF instances[v].regions = NoRegions THEN ServeOnePage(v, address) ELSE Fatal

\* First fault of a replay: install the working set, wake the first page only.
InstallWorkingSet(v, address) ==
  LET s == instances[v]
      placed == InstalledPages(s.regions, s.workingSet)
  IN  IF ~Installable(v, DOMAIN placed)
        THEN Fatal
        ELSE /\ mem' = [mem EXCEPT ![v] =
                  [p \in Pages(v) |-> IF p \in DOMAIN placed THEN placed[p] ELSE @[p]]]
             /\ Wake(v)
             /\ instances' = [instances EXCEPT ![v] = FirstFault(@, address)]
             /\ poller' = [poller EXCEPT ![v] = "loop"]
             /\ UNCHANGED <<mLock, stray, unmapFailed, cpc, wsFile, base, overlap, crashed>>

Replaying(s) == ~s.firstFaultDone /\ s.isRecordReady /\ ~s.IsLazyMode

\* EpollWait returns, one message is read, servePageFault.
ServePageFault(v) ==
  /\ ~crashed /\ poller[v] = "wait" /\ faults[v] # <<>>
  /\ \/ Replaying(instances[v]) /\ InstallWorkingSet(v, Head(faults[v]))
     \/ ~Replaying(instances[v]) /\ ServeOnePage(v, Head(faults[v]))

-----------------------------------------------------------------------------
(* Deactivate. *)

Deactivate(v) ==
  /\ Locks(v, "deactivate") /\ Registered(v)
  /\ \/ ~instances[v].isEverActivated /\ Return(v)
     \/ instances[v].isEverActivated /\ ~Active(v) /\ Return(v)
     \/ Active(v) /\ Goto(v, "quit")
  /\ UNCHANGED <<mLock, stray, unmapFailed, instances, poller, wsFile, guestVars, crashed>>

\* Mutant: the operands of the subtraction are swapped.
ReusedSwapped(s) ==
  IF ~s.isRecordReady THEN s
  ELSE LET t == [s EXCEPT !.uniquePFServed = Append(@, s.uniqueNum)]
       IN  IF ~s.IsLazyMode THEN t
           ELSE [t EXCEPT !.totalPFServed = Append(@, s.replayedNum),
                          !.reusedPFServed = Append(@, s.uniqueNum - s.replayedNum)]

ProcessMetrics(s) ==
  IF ~s.isRecordReady THEN s
  ELSE LET t == [s EXCEPT !.uniquePFServed = Append(@, s.uniqueNum)]
       IN  IF ~s.IsLazyMode THEN t
           ELSE [t EXCEPT !.totalPFServed = Append(@, s.replayedNum),
                          !.reusedPFServed = Append(@, s.replayedNum - s.uniqueNum)]

\* Trace.ProcessRecord without its file.
ProcessRecord(s) ==
  [s EXCEPT !.trace = SortedRecords(@), !.regions = BuildRegions(s.trace)]

\* After the poller has taken the quit message.  The uffd is closed with what is queued
\* in it, and the next load starts from an empty guest memory.
DeactivateFinish(v) ==
  /\ At(v, "finish")
  /\ LET s == ProcessMetrics(instances[v])
         recording == ~s.isRecordReady /\ ~s.IsLazyMode
         t == IF recording THEN ProcessRecord(s) ELSE s
     IN  /\ instances' = [instances EXCEPT ![v] =
              [t EXCEPT !.guestMem = FALSE, !.isRecordReady = TRUE, !.isActive = FALSE]]
         /\ wsFile' = IF recording
                        THEN [wsFile EXCEPT ![v] = WorkingSetFile(t.regions)]
                        ELSE wsFile
  /\ faults' = [faults EXCEPT ![v] = <<>>]
  /\ mem' = [mem EXCEPT ![v] = [p \in Pages(v) |-> Absent]]
  /\ base' = [base EXCEPT ![v] = 0]
  /\ Return(v)
  /\ UNCHANGED <<mLock, stray, unmapFailed, poller, overlap, crashed>>

\* munmap fails: Deactivate returns its error with the poller gone, the uffd open and the
\* VM still marked active.
UnmapFails(v) ==
  /\ At(v, "finish") /\ "munmap" \in Faults
  /\ unmapFailed' = [unmapFailed EXCEPT ![v] = TRUE]
  /\ Return(v)
  /\ UNCHANGED <<mLock, stray, instances, poller, wsFile, guestVars, crashed>>

-----------------------------------------------------------------------------
CallerStep(v) == \/ RegisterVM(v) \/ DeregisterVM(v) \/ LookupFails(v) \/ DumpStats(v)
                 \/ FetchState(v) \/ ActivateMap(v) \/ GetUFFD(v)
                 \/ Deactivate(v) \/ DeactivateFinish(v) \/ UnmapFails(v)

PollerStep(v) == PollerReady(v) \/ PollLoop(v) \/ ServePageFault(v)

Next == \E v \in VMs : \/ CallerStep(v) \/ PollerStep(v)
                       \/ \E op \in Operations : Call(v, op)
                       \/ \E p \in Pages(v) : PageFault(v, p)

Spec == Init /\ [][Next]_vars

\* Goroutines run and dialling the VMM has a deadline.  Nothing makes a guest fault,
\* and nobody has to call.
FairSpec == Spec /\ \A v \in VMs : WF_vars(CallerStep(v)) /\ WF_vars(PollerStep(v))

-----------------------------------------------------------------------------
(* Properties. *)

SnapshotStateOK(v, s) ==
  /\ {s.IsLazyMode, s.isEverActivated, s.isActive, s.isRecordReady, s.firstFaultDone,
      s.guestMem} \subseteq BOOLEAN
  /\ s.startAddress \in Nat
  /\ s.trace \in Seq(Pages(v))
  /\ DOMAIN s.regions \subseteq Pages(v)
  /\ s.workingSet \in Seq(Pages(v) \cup {Absent})
  /\ {s.uniqueNum, s.replayedNum} \subseteq Nat
  /\ {s.uniquePFServed, s.totalPFServed, s.reusedPFServed} \subseteq Seq(Nat)

\* Every variable keeps the shape of the field or local variable it stands for.
TypeOK ==
  /\ {mLock, stray, crashed} \subseteq BOOLEAN
  /\ \A v \in VMs :
       /\ Registered(v) => SnapshotStateOK(v, instances[v])
       /\ cpc[v] \in Operations \cup {"idle", "activate", "uffd", "ready", "quit", "finish"}
       /\ poller[v] \in {"none", "start", "loop", "wait"}
       /\ wsFile[v] \in Seq(Pages(v))
       /\ base[v] \in Nat
       /\ faults[v] \in Seq(Nat)
       /\ mem[v] \in [Pages(v) -> Pages(v) \cup {Absent}]
       /\ {overlap[v], unmapFailed[v]} \subseteq BOOLEAN

\* The guest never sees a wrong page: whatever is installed at a page of guest memory,
\* one by one or through trace, regions, working set file and buffer, at whatever
\* address the run maps it, is the content that page had in the snapshot
\* (snapshot_state.go 378-469, trace.go 136-208).
GuestMemoryFaithful ==
  \A v \in VMs : \A p \in Pages(v) : mem[v][p] \in {p, Absent}

\* The regions built from the sorted trace are the runs of consecutive recorded
\* pages, no page twice, and the one Read of fetchState, sized by the trace, gets the
\* whole working set file (trace.go 139-158, snapshot_state.go 249-263).
RegionsAreRuns ==
  \A v \in VMs : Registered(v) /\ instances[v].isRecordReady /\ ~instances[v].IsLazyMode =>
     /\ AreRunsOf(instances[v].regions, ToSet(instances[v].trace))
     /\ Len(wsFile[v]) = Len(instances[v].trace)

Resident(v) == {p \in Pages(v) : mem[v][p] # Absent}

\* The statistics of a replayed run: uniqueNum counts exactly the pages brought in
\* that the first run had not touched, and a lazy run counts every page once
\* (snapshot_state.go 415-426).
StatsExact ==
  \A v \in VMs :
    LET s == instances[v]
    IN  Active(v) /\ s.isRecordReady /\ s.firstFaultDone =>
          /\ s.uniqueNum = Cardinality(Resident(v) \ ToSet(s.trace))
          /\ s.IsLazyMode => s.replayedNum = Cardinality(Resident(v))

\* The polling goroutine exists exactly while the VM is active, and then the guest
\* memory file is mapped: no activation is left without a poller and no poller
\* outlives its registration, save that a Deactivate whose munmap fails returns with the
\* poller gone and the VM active for good (manager.go 108-113, 155-159, 230-244).
PollerMatchesActive ==
  \A v \in VMs :
    /\ poller[v] # "none" <=> Active(v) /\ cpc[v] # "finish" /\ ~unmapFailed[v]
    /\ unmapFailed[v] => Active(v)
    /\ Active(v) => instances[v].guestMem

\* The daemon dies serving faults (snapshot_state.go 331-333, 461-463) only when two
\* threads of a guest wait for pages at the same time: the second one may wait for a
\* page of the working set, which is installed without waking it.
FatalOnlyOnOverlap == crashed => \E v \in VMs : overlap[v]

\* A call returns: always after the lookup, except that Deactivate's send on quitCh
\* needs one more page fault if the poller is already waiting for one, and never completes
\* after an earlier Deactivate that could not unmap; and at the lock unless a call named an
\* unregistered VM (manager.go 130-138, 230-234).
CallsReturn ==
  \A v \in VMs :
    /\ []<>(cpc[v] \in {"idle", "quit"} \/ crashed \/ stray)
    /\ cpc[v] = "quit" /\ faults[v] # <<>> /\ ~unmapFailed[v] ~> cpc[v] # "quit" \/ crashed
=============================================================================
