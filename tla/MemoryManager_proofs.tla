------------------------ MODULE MemoryManager_proofs ------------------------
(***************************************************************************)
(* Proofs about MemoryManager, for any VMs, guest memory sizes, addresses, *)
(* threads and host faults.  The calls and the poller of one VM touch only *)
(* that VM's state, so the invariant is one statement per VM.              *)
(***************************************************************************)
EXTENDS MemoryManager, FiniteSetTheorems, TLAPS

SnapshotFields ==
  {"IsLazyMode", "isEverActivated", "isActive", "isRecordReady", "firstFaultDone", "startAddress",
   "trace", "regions", "workingSet", "guestMem", "uniqueNum", "replayedNum",
   "uniquePFServed", "totalPFServed", "reusedPFServed"}

CallerLabels == Operations \cup {"idle", "activate", "uffd", "ready", "quit", "finish"}
PollerLabels == {"none", "start", "loop", "wait"}

Shape ==
  /\ DOMAIN instances \subseteq VMs
  /\ DOMAIN cpc = VMs /\ DOMAIN poller = VMs /\ DOMAIN wsFile = VMs /\ DOMAIN base = VMs
  /\ DOMAIN faults = VMs /\ DOMAIN mem = VMs /\ DOMAIN overlap = VMs
  /\ DOMAIN unmapFailed = VMs

\* The caller and the poller of a VM: reg tells whether the VM is registered, s is then
\* its state, c is where the caller is, q where the poller is and u whether an unmapping
\* failed.
Control(reg, s, c, q, u) ==
  /\ c \in CallerLabels /\ q \in PollerLabels /\ u \in BOOLEAN
  /\ reg => DOMAIN s = SnapshotFields /\ s.isActive \in BOOLEAN
  /\ reg /\ s.isActive => s.guestMem = TRUE
  /\ reg /\ s.isActive => c \notin {"load", "activate", "uffd"}
  /\ c \in {"activate", "uffd"} => reg
  /\ c = "uffd" => s.guestMem = TRUE
  /\ c \in {"ready", "quit", "finish"} => reg /\ s.isActive
  /\ q = "start" <=> c = "ready"
  /\ q # "none" <=> reg /\ s.isActive /\ c # "finish" /\ ~u
  /\ u => reg /\ s.isActive /\ c # "finish"

VMControl(v) == Control(Registered(v), instances[v], cpc[v], poller[v], unmapFailed[v])
ControlInv == Shape /\ \A v \in VMs : VMControl(v)

\* A step of one VM leaves the others alone.
Others(v) ==
  \A w \in VMs \ {v} :
    /\ (w \in DOMAIN instances') <=> (w \in DOMAIN instances)
    /\ w \in DOMAIN instances => instances'[w] = instances[w]
    /\ cpc'[w] = cpc[w] /\ poller'[w] = poller[w] /\ wsFile'[w] = wsFile[w] /\ base'[w] = base[w]
    /\ faults'[w] = faults[w] /\ mem'[w] = mem[w] /\ overlap'[w] = overlap[w]
    /\ unmapFailed'[w] = unmapFailed[w]

-----------------------------------------------------------------------------
(* The steps of a VM, one operator for all of them. *)

Step(v) ==
  \/ RegisterVM(v) \/ DeregisterVM(v) \/ LookupFails(v) \/ DumpStats(v)
  \/ FetchState(v) \/ ActivateMap(v) \/ GetUFFD(v) \/ Deactivate(v) \/ DeactivateFinish(v)
  \/ UnmapFails(v) \/ PollerReady(v) \/ PollLoop(v) \/ ServePageFault(v)
  \/ (\E op \in Operations : Call(v, op)) \/ (\E p \in Pages(v) : PageFault(v, p))

LEMMA NextIsStep == Next <=> \E v \in VMs : Step(v)
BY DEF Next, Step, CallerStep, PollerStep

LEMMA RegisterFrame ==
  ASSUME Shape, NEW v \in VMs, RegisterVM(v) \/ DeregisterVM(v)
  PROVE  Shape' /\ Others(v)
BY DEF Shape, Others, RegisterVM, DeregisterVM, Removable, Registered, Return, Goto, guestVars

LEMMA CallFrame ==
  ASSUME Shape, NEW v \in VMs,
         \/ LookupFails(v) \/ DumpStats(v) \/ Deactivate(v) \/ UnmapFails(v)
         \/ (\E op \in Operations : Call(v, op))
  PROVE  Shape' /\ Others(v)
BY DEF Shape, Others, LookupFails, DumpStats, Deactivate, UnmapFails, Call, Return, Goto, guestVars

\* A step that replaces the state of a registered VM.
LEMMA InstanceFrame ==
  ASSUME Shape, NEW v \in VMs, NEW t, instances' = instances \/ instances' = [instances EXCEPT ![v] = t]
  PROVE  /\ DOMAIN instances' = DOMAIN instances
         /\ \A w \in VMs \ {v} : w \in DOMAIN instances => instances'[w] = instances[w]
OBVIOUS

LEMMA LoadFrame ==
  ASSUME Shape, NEW v \in VMs, FetchState(v) \/ ActivateMap(v) \/ GetUFFD(v)
  PROVE  Shape' /\ Others(v)
<1>1. PICK t : instances' = instances \/ instances' = [instances EXCEPT ![v] = t]
  <2>1. CASE FetchState(v)
    BY <2>1 DEF FetchState
  <2>2. CASE ActivateMap(v)
    BY <2>2 DEF ActivateMap
  <2>3. CASE GetUFFD(v)
    BY <2>3 DEF GetUFFD
  <2> QED BY <2>1, <2>2, <2>3
<1>2. /\ DOMAIN instances' = DOMAIN instances
      /\ \A w \in VMs \ {v} : w \in DOMAIN instances => instances'[w] = instances[w]
  BY <1>1, InstanceFrame
<1>3. /\ UNCHANGED <<wsFile, faults, mem, overlap, unmapFailed>>
      /\ \E l : cpc' = [cpc EXCEPT ![v] = l]
      /\ poller' = poller \/ \E l : poller' = [poller EXCEPT ![v] = l]
      /\ base' = base \/ \E b : base' = [base EXCEPT ![v] = b]
  BY DEF FetchState, ActivateMap, GetUFFD, Return, Goto, guestVars
<1> QED BY <1>2, <1>3 DEF Shape, Others

LEMMA FinishFrame ==
  ASSUME Shape, NEW v \in VMs, DeactivateFinish(v)
  PROVE  Shape' /\ Others(v)
BY DEF Shape, Others, DeactivateFinish, Return, Goto, guestVars

LEMMA PollFrame ==
  ASSUME Shape, NEW v \in VMs,
         PollerReady(v) \/ PollLoop(v) \/ (\E p \in Pages(v) : PageFault(v, p))
  PROVE  Shape' /\ Others(v)
BY DEF Shape, Others, PollerReady, PollLoop, PageFault, Return, Goto, guestVars

LEMMA ServeFrame ==
  ASSUME Shape, NEW v \in VMs, ServePageFault(v)
  PROVE  Shape' /\ Others(v)
<1>1. CASE Fatal
  BY <1>1 DEF Shape, Others, Fatal, guestVars
<1>2. CASE ~Fatal
  <2>1. PICK t : instances' = instances \/ instances' = [instances EXCEPT ![v] = t]
    BY <1>2 DEF ServePageFault, InstallWorkingSet, ServeOnePage
  <2>2. /\ DOMAIN instances' = DOMAIN instances
        /\ \A w \in VMs \ {v} : w \in DOMAIN instances => instances'[w] = instances[w]
    BY <2>1, InstanceFrame
  <2>3. PICK m : mem' = [mem EXCEPT ![v] = m]
    BY <1>2 DEF ServePageFault, InstallWorkingSet, ServeOnePage
  <2>4. /\ UNCHANGED <<cpc, wsFile, base, overlap, unmapFailed>>
        /\ faults' = [faults EXCEPT ![v] = Tail(@)]
        /\ poller' = [poller EXCEPT ![v] = "loop"]
    BY <1>2 DEF ServePageFault, InstallWorkingSet, ServeOnePage, Wake
  <2> QED BY <2>2, <2>3, <2>4 DEF Shape, Others
<1> QED BY <1>1, <1>2

LEMMA StepFrame ==
  ASSUME Shape, NEW v \in VMs, Step(v)
  PROVE  Shape' /\ Others(v)
BY RegisterFrame, CallFrame, LoadFrame, FinishFrame, PollFrame, ServeFrame DEF Step

-----------------------------------------------------------------------------
(* The caller and the poller. *)

LEMMA OthersControl ==
  ASSUME ControlInv, NEW v \in VMs, Shape', Others(v), VMControl(v)'
  PROVE  ControlInv'
<1>1. ASSUME NEW w \in VMs \ {v}
      PROVE  VMControl(w)'
  <2>1. VMControl(w)
    BY DEF ControlInv
  <2>2. CASE w \in DOMAIN instances
    BY <2>1, <2>2 DEF VMControl, Registered, Others
  <2>3. CASE w \notin DOMAIN instances
    BY <2>1, <2>3 DEF VMControl, Control, Registered, Others
  <2> QED BY <2>2, <2>3
<1> QED BY <1>1 DEF ControlInv

\* The fields of a state that the control of a VM depends on, after each change of it.
LEMMA NewState ==
  ASSUME NEW lazy \in BOOLEAN
  PROVE  DOMAIN NewSnapshotState(lazy) = SnapshotFields /\ NewSnapshotState(lazy).isActive = FALSE
BY DEF NewSnapshotState, SnapshotFields

LEMMA ActivatedState ==
  ASSUME NEW s, DOMAIN s = SnapshotFields, NEW t, t = SetupStateOnActivate(s)
  PROVE  /\ DOMAIN t = SnapshotFields
         /\ t.isActive = TRUE /\ t.isEverActivated = TRUE /\ t.firstFaultDone = FALSE
         /\ t.uniqueNum = 0 /\ t.replayedNum = 0
         /\ t.IsLazyMode = s.IsLazyMode /\ t.isRecordReady = s.isRecordReady
         /\ t.startAddress = s.startAddress /\ t.trace = s.trace /\ t.regions = s.regions
         /\ t.workingSet = s.workingSet /\ t.guestMem = s.guestMem
         /\ t.uniquePFServed = s.uniquePFServed /\ t.totalPFServed = s.totalPFServed
         /\ t.reusedPFServed = s.reusedPFServed
BY DEF SetupStateOnActivate, SnapshotFields

LEMMA RecordedState ==
  ASSUME NEW s, DOMAIN s = SnapshotFields, NEW offset, NEW t, t = Recorded(s, offset)
  PROVE  /\ DOMAIN t = SnapshotFields
         /\ t.isActive = s.isActive /\ t.guestMem = s.guestMem /\ t.isEverActivated = s.isEverActivated
         /\ t.firstFaultDone = s.firstFaultDone /\ t.IsLazyMode = s.IsLazyMode
         /\ t.isRecordReady = s.isRecordReady /\ t.startAddress = s.startAddress
         /\ t.regions = s.regions /\ t.workingSet = s.workingSet
         /\ t.uniquePFServed = s.uniquePFServed /\ t.totalPFServed = s.totalPFServed
         /\ t.reusedPFServed = s.reusedPFServed
         /\ ~s.isRecordReady => t.trace = Append(s.trace, offset) /\ t.uniqueNum = s.uniqueNum
                                /\ t.replayedNum = s.replayedNum
         /\ s.isRecordReady =>
              /\ t.trace = s.trace
              /\ t.uniqueNum = IF ~s.IsLazyMode \/ ~ContainsRecord(s.trace, offset)
                                 THEN s.uniqueNum + 1 ELSE s.uniqueNum
              /\ t.replayedNum = IF s.IsLazyMode THEN s.replayedNum + 1 ELSE s.replayedNum
BY DEF Recorded, SnapshotFields, AppendRecord

LEMMA MeteredState ==
  ASSUME NEW s, DOMAIN s = SnapshotFields, NEW t, t = ProcessMetrics(s)
  PROVE  /\ DOMAIN t = SnapshotFields
         /\ t.isActive = s.isActive /\ t.guestMem = s.guestMem /\ t.isEverActivated = s.isEverActivated
         /\ t.firstFaultDone = s.firstFaultDone /\ t.IsLazyMode = s.IsLazyMode
         /\ t.isRecordReady = s.isRecordReady /\ t.startAddress = s.startAddress
         /\ t.trace = s.trace /\ t.regions = s.regions /\ t.workingSet = s.workingSet
         /\ t.uniqueNum = s.uniqueNum /\ t.replayedNum = s.replayedNum
         /\ \/ t.uniquePFServed = s.uniquePFServed
            \/ s.isRecordReady /\ t.uniquePFServed = Append(s.uniquePFServed, s.uniqueNum)
         /\ \/ t.totalPFServed = s.totalPFServed
            \/ s.isRecordReady /\ s.IsLazyMode /\ t.totalPFServed = Append(s.totalPFServed, s.replayedNum)
         /\ \/ t.reusedPFServed = s.reusedPFServed
            \/ s.isRecordReady /\ s.IsLazyMode
               /\ t.reusedPFServed = Append(s.reusedPFServed, s.replayedNum - s.uniqueNum)
<1>1. CASE ~s.isRecordReady
  <2>1. t = s
    BY <1>1 DEF ProcessMetrics
  <2> QED BY <2>1
<1>2. CASE s.isRecordReady
  <2>1. PICK u : u = [s EXCEPT !.uniquePFServed = Append(@, s.uniqueNum)]
    OBVIOUS
  <2>2. CASE ~s.IsLazyMode
    <3>1. t = u
      BY <1>2, <2>1, <2>2 DEF ProcessMetrics
    <3>2. /\ u.uniquePFServed = Append(s.uniquePFServed, s.uniqueNum)
          /\ u.totalPFServed = s.totalPFServed /\ u.reusedPFServed = s.reusedPFServed
      BY <2>1 DEF SnapshotFields
    <3>3. /\ DOMAIN u = SnapshotFields
          /\ u.isActive = s.isActive /\ u.guestMem = s.guestMem /\ u.isEverActivated = s.isEverActivated
          /\ u.firstFaultDone = s.firstFaultDone /\ u.IsLazyMode = s.IsLazyMode
          /\ u.isRecordReady = s.isRecordReady /\ u.startAddress = s.startAddress
          /\ u.trace = s.trace /\ u.regions = s.regions /\ u.workingSet = s.workingSet
          /\ u.uniqueNum = s.uniqueNum /\ u.replayedNum = s.replayedNum
      BY <2>1 DEF SnapshotFields
    <3> QED BY <1>2, <3>1, <3>2, <3>3
  <2>3. CASE s.IsLazyMode
    <3>1. t = [u EXCEPT !.totalPFServed = Append(@, s.replayedNum),
                        !.reusedPFServed = Append(@, s.replayedNum - s.uniqueNum)]
      BY <1>2, <2>1, <2>3 DEF ProcessMetrics
    <3> QED BY <1>2, <2>1, <2>3, <3>1 DEF SnapshotFields
  <2> QED BY <2>2, <2>3
<1> QED BY <1>1, <1>2

LEMMA ProcessedState ==
  ASSUME NEW s, DOMAIN s = SnapshotFields, NEW t, t = ProcessRecord(s)
  PROVE  /\ DOMAIN t = SnapshotFields
         /\ t.trace = SortedRecords(s.trace) /\ t.regions = BuildRegions(s.trace)
         /\ t.isActive = s.isActive /\ t.guestMem = s.guestMem /\ t.isEverActivated = s.isEverActivated
         /\ t.firstFaultDone = s.firstFaultDone /\ t.IsLazyMode = s.IsLazyMode
         /\ t.isRecordReady = s.isRecordReady /\ t.startAddress = s.startAddress
         /\ t.workingSet = s.workingSet
         /\ t.uniqueNum = s.uniqueNum /\ t.replayedNum = s.replayedNum
         /\ t.uniquePFServed = s.uniquePFServed /\ t.totalPFServed = s.totalPFServed
         /\ t.reusedPFServed = s.reusedPFServed
BY DEF ProcessRecord, SnapshotFields

LEMMA RegisterControl ==
  ASSUME ControlInv, NEW v \in VMs, RegisterVM(v) \/ DeregisterVM(v)
  PROVE  VMControl(v)'
<1>1. VMControl(v) /\ Shape
  BY DEF ControlInv
<1>2. cpc'[v] = "idle" /\ UNCHANGED <<poller, unmapFailed>> /\ cpc[v] \in {"register", "deregister"}
  BY <1>1 DEF RegisterVM, DeregisterVM, Locks, At, Return, Goto, Shape
<1>3. CASE instances' = instances
  BY <1>1, <1>2, <1>3 DEF VMControl, Control, Registered, CallerLabels
<1>4. CASE ~Registered(v) /\ \E lazy \in BOOLEAN : Registered(v)' /\ instances'[v] = NewSnapshotState(lazy)
  BY <1>1, <1>2, <1>4, NewState DEF VMControl, Control, CallerLabels
<1>5. CASE Removable(v) /\ ~Registered(v)'
  BY <1>1, <1>2, <1>5 DEF VMControl, Control, Removable, CallerLabels
<1> QED BY <1>3, <1>4, <1>5 DEF RegisterVM, DeregisterVM, Registered

LEMMA CallControl ==
  ASSUME ControlInv, NEW v \in VMs,
         LookupFails(v) \/ DumpStats(v) \/ Deactivate(v) \/ (\E op \in Operations : Call(v, op))
  PROVE  VMControl(v)'
<1>1. VMControl(v) /\ Shape
  BY DEF ControlInv
<1>2. UNCHANGED <<instances, poller, unmapFailed>>
  BY DEF LookupFails, DumpStats, Deactivate, Call
<1>3. CASE LookupFails(v) \/ DumpStats(v)
  <2>1. cpc'[v] = "idle" /\ cpc[v] \in {"load", "deactivate", "stats"}
    BY <1>1, <1>3 DEF LookupFails, DumpStats, Locks, At, Return, Goto, Shape
  <2> QED BY <1>1, <1>2, <2>1 DEF VMControl, Control, Registered, CallerLabels
<1>4. CASE Deactivate(v)
  <2>1. cpc[v] = "deactivate" /\ (cpc'[v] = "idle" \/ (Active(v) /\ cpc'[v] = "quit"))
    BY <1>1, <1>4 DEF Deactivate, Locks, At, Return, Goto, Shape
  <2> QED BY <1>1, <1>2, <2>1 DEF VMControl, Control, Registered, Active, CallerLabels
<1>5. CASE \E op \in Operations : Call(v, op)
  <2>1. cpc[v] = "idle" /\ cpc'[v] \in Operations /\ (cpc'[v] = "load" => ~Active(v))
    BY <1>1, <1>5 DEF Call, At, Goto, Shape
  <2> QED BY <1>1, <1>2, <2>1 DEF VMControl, Control, Registered, Active, CallerLabels, Operations
<1> QED BY <1>3, <1>4, <1>5

LEMMA LoadControl ==
  ASSUME ControlInv, NEW v \in VMs, FetchState(v) \/ ActivateMap(v) \/ GetUFFD(v)
  PROVE  VMControl(v)'
<1> DEFINE s == instances[v]
<1>1. VMControl(v) /\ Shape
  BY DEF ControlInv
<1>2. CASE FetchState(v)
  <2>1. UNCHANGED <<poller, unmapFailed>> /\ cpc[v] = "load" /\ Registered(v)
        /\ cpc'[v] \in {"idle", "activate"}
    BY <1>1, <1>2 DEF FetchState, Locks, At, Return, Goto, Shape
  <2>2. instances' = instances \/ \E t : t = [s EXCEPT !.workingSet = ReadWorkingSet(v)]
                                         /\ instances' = [instances EXCEPT ![v] = t]
    BY <1>2 DEF FetchState
  <2>3. CASE instances' = instances
    BY <1>1, <2>1, <2>3 DEF VMControl, Control, Registered, CallerLabels
  <2>4. ASSUME NEW t, t = [s EXCEPT !.workingSet = ReadWorkingSet(v)],
               instances' = [instances EXCEPT ![v] = t]
        PROVE  VMControl(v)'
    <3>1. DOMAIN s = SnapshotFields
      BY <1>1, <2>1 DEF VMControl, Control
    <3>2. DOMAIN t = SnapshotFields /\ t.isActive = s.isActive /\ t.guestMem = s.guestMem
      BY <2>4, <3>1 DEF SnapshotFields
    <3>3. Registered(v)' /\ instances'[v] = t
      BY <2>1, <2>4 DEF Registered
    <3> QED BY <1>1, <2>1, <3>2, <3>3 DEF VMControl, Control, CallerLabels
  <2> QED BY <2>2, <2>3, <2>4
<1>3. CASE ActivateMap(v)
  <2>1. UNCHANGED <<poller, unmapFailed>> /\ cpc[v] = "activate" /\ Registered(v)
    BY <1>1, <1>3 DEF ActivateMap, Locks, At, Shape, VMControl, Control
  <2>2. CASE instances' = instances /\ cpc'[v] = "idle"
    BY <1>1, <2>1, <2>2 DEF VMControl, Control, Registered, CallerLabels
  <2>3. CASE cpc'[v] = "uffd" /\ instances' = [instances EXCEPT ![v].guestMem = TRUE]
    <3>1. DOMAIN s = SnapshotFields
      BY <1>1, <2>1 DEF VMControl, Control
    <3>2. PICK t : t = [s EXCEPT !.guestMem = TRUE]
      OBVIOUS
    <3>3. Registered(v)' /\ instances'[v] = t
      BY <2>1, <2>3, <3>2 DEF Registered
    <3>4. DOMAIN t = SnapshotFields /\ t.isActive = s.isActive /\ t.guestMem = TRUE
      BY <3>1, <3>2 DEF SnapshotFields
    <3> QED BY <1>1, <2>1, <2>3, <3>3, <3>4 DEF VMControl, Control, CallerLabels
  <2> QED BY <1>1, <1>3, <2>2, <2>3 DEF ActivateMap, Return, Goto, Shape
<1>4. CASE GetUFFD(v)
  <2>1. cpc[v] = "uffd" /\ Registered(v) /\ DOMAIN s = SnapshotFields /\ UNCHANGED unmapFailed
    BY <1>1, <1>4 DEF GetUFFD, At, VMControl, Control
  <2>2. CASE instances' = instances /\ poller' = poller /\ cpc'[v] = "idle"
    BY <1>1, <2>1, <2>2 DEF VMControl, Control, Registered, CallerLabels
  <2>3. CASE instances' = [instances EXCEPT ![v] = SetupStateOnActivate(@)] /\ cpc'[v] = "ready"
             /\ poller'[v] = "start"
    <3>1. PICK t : t = SetupStateOnActivate(s)
      OBVIOUS
    <3>2. Registered(v)' /\ instances'[v] = t
      BY <2>1, <2>3, <3>1 DEF Registered
    <3>3. DOMAIN t = SnapshotFields /\ t.isActive = TRUE /\ t.guestMem = s.guestMem
      BY <2>1, <3>1, ActivatedState
    <3> QED BY <1>1, <2>1, <2>3, <3>2, <3>3 DEF VMControl, Control, CallerLabels, PollerLabels
  <2> QED BY <1>1, <1>4, <2>2, <2>3 DEF GetUFFD, Return, Goto, Shape
<1> QED BY <1>2, <1>3, <1>4

LEMMA PollControl ==
  ASSUME ControlInv, NEW v \in VMs,
         PollerReady(v) \/ PollLoop(v) \/ (\E p \in Pages(v) : PageFault(v, p))
  PROVE  VMControl(v)'
<1>1. VMControl(v) /\ Shape
  BY DEF ControlInv
<1>2. UNCHANGED <<instances, unmapFailed>>
  BY DEF PollerReady, PollLoop, PageFault
<1>3. CASE PollerReady(v)
  <2>1. cpc[v] = "ready" /\ poller[v] = "start" /\ cpc'[v] = "idle" /\ poller'[v] = "loop"
    BY <1>1, <1>3 DEF PollerReady, At, Return, Goto, Shape
  <2> QED BY <1>1, <1>2, <2>1 DEF VMControl, Control, Registered, CallerLabels, PollerLabels
<1>4. CASE PollLoop(v)
  <2>1. poller[v] = "loop" /\ \/ cpc[v] = "quit" /\ cpc'[v] = "finish" /\ poller'[v] = "none"
                              \/ cpc'[v] = cpc[v] /\ poller'[v] = "wait"
    BY <1>1, <1>4 DEF PollLoop, QuitRequested, Goto, Shape
  <2> QED BY <1>1, <1>2, <2>1 DEF VMControl, Control, Registered, CallerLabels, PollerLabels
<1>5. CASE \E p \in Pages(v) : PageFault(v, p)
  BY <1>1, <1>2, <1>5 DEF PageFault, VMControl, Control, Registered
<1> QED BY <1>3, <1>4, <1>5

\* The state of the VM whose fault was served without an error.
LEMMA ServedState ==
  ASSUME ControlInv, NEW v \in VMs, ServePageFault(v), ~Fatal
  PROVE  /\ Registered(v) /\ instances[v].isActive /\ Registered(v)'
         /\ LET a == Head(faults[v])
                f == FirstFault(instances[v], a)
                s == IF instances[v].firstFaultDone THEN instances[v] ELSE f
            IN  \/ Replaying(instances[v]) /\ instances'[v] = f
                \/ ~Replaying(instances[v]) /\ instances'[v] = Recorded(s, a - s.startAddress)
<1>1. VMControl(v) /\ Shape
  BY DEF ControlInv
<1>2. Registered(v) /\ instances[v].isActive
  BY <1>1 DEF ServePageFault, VMControl, Control
<1>3. CASE Replaying(instances[v]) /\ InstallWorkingSet(v, Head(faults[v]))
  BY <1>2, <1>3 DEF InstallWorkingSet, Registered
<1>4. CASE ~Replaying(instances[v]) /\ ServeOnePage(v, Head(faults[v]))
  BY <1>2, <1>4 DEF ServeOnePage, Registered
<1> QED BY <1>2, <1>3, <1>4 DEF ServePageFault

LEMMA ServeControl ==
  ASSUME ControlInv, NEW v \in VMs, ServePageFault(v)
  PROVE  VMControl(v)'
<1>1. VMControl(v) /\ Shape
  BY DEF ControlInv
<1>2. CASE Fatal
  BY <1>1, <1>2 DEF Fatal, VMControl, Control, Registered
<1>3. CASE ~Fatal
  <2>1. cpc'[v] = cpc[v] /\ poller'[v] = "loop" /\ poller[v] = "wait" /\ UNCHANGED unmapFailed
    BY <1>1, <1>3 DEF ServePageFault, InstallWorkingSet, ServeOnePage, Shape
  <2> DEFINE i == instances[v]  a == Head(faults[v])  f == FirstFault(i, a)
             s == IF i.firstFaultDone THEN i ELSE f
             t == Recorded(s, a - s.startAddress)
  <2>2. Registered(v) /\ Registered(v)' /\ i.isActive /\ (instances'[v] = f \/ instances'[v] = t)
    BY <1>3, ServedState
  <2>3. DOMAIN i = SnapshotFields
    BY <1>1, <2>2 DEF VMControl, Control
  <2>4. DOMAIN f = SnapshotFields /\ f.isActive = i.isActive /\ f.guestMem = i.guestMem
    <3> HIDE DEF i, a
    <3> QED BY <2>3 DEF FirstFault, SnapshotFields
  <2>5. DOMAIN s = SnapshotFields /\ s.isActive = i.isActive /\ s.guestMem = i.guestMem
    BY <2>3, <2>4
  <2>6. DOMAIN t = SnapshotFields /\ t.isActive = i.isActive /\ t.guestMem = i.guestMem
    <3> HIDE DEF i, a, s
    <3> QED BY <2>5, RecordedState
  <2> QED BY <1>1, <2>1, <2>2, <2>4, <2>6 DEF VMControl, Control, PollerLabels
<1> QED BY <1>2, <1>3

\* The state that Deactivate leaves.
Metered(v) == ProcessMetrics(instances[v])
Recording(v) == ~Metered(v).isRecordReady /\ ~Metered(v).IsLazyMode
Finished(v) == IF Recording(v) THEN ProcessRecord(Metered(v)) ELSE Metered(v)
Deactivated(s) == [s EXCEPT !.guestMem = FALSE, !.isRecordReady = TRUE, !.isActive = FALSE]

LEMMA FinishedState ==
  ASSUME Shape, NEW v \in VMs, DeactivateFinish(v), Registered(v)
  PROVE  /\ Registered(v)' /\ instances'[v] = Deactivated(Finished(v))
         /\ wsFile'[v] = IF Recording(v) THEN WorkingSetFile(Finished(v).regions) ELSE wsFile[v]
         /\ faults'[v] = <<>> /\ mem'[v] = [p \in Pages(v) |-> Absent] /\ base'[v] = 0
         /\ cpc[v] = "finish" /\ cpc'[v] = "idle"
         /\ UNCHANGED <<mLock, stray, unmapFailed, poller, overlap, crashed>>
<1>1. instances' = [instances EXCEPT ![v] = Deactivated(Finished(v))]
  BY DEF DeactivateFinish, Deactivated, Finished, Recording, Metered
<1>2. wsFile' = IF Recording(v) THEN [wsFile EXCEPT ![v] = WorkingSetFile(Finished(v).regions)] ELSE wsFile
  BY DEF DeactivateFinish, Finished, Recording, Metered
<1>3. /\ faults' = [faults EXCEPT ![v] = <<>>]
      /\ mem' = [mem EXCEPT ![v] = [p \in Pages(v) |-> Absent]]
      /\ base' = [base EXCEPT ![v] = 0]
      /\ cpc' = [cpc EXCEPT ![v] = "idle"] /\ cpc[v] = "finish"
      /\ UNCHANGED <<mLock, stray, unmapFailed, poller, overlap, crashed>>
  BY DEF DeactivateFinish, At, Return, Goto
<1> QED BY <1>1, <1>2, <1>3 DEF Shape, Registered

LEMMA FinishControl ==
  ASSUME ControlInv, NEW v \in VMs, DeactivateFinish(v)
  PROVE  VMControl(v)'
<1> DEFINE i == instances[v]  m == Metered(v)  f == Finished(v)
<1>1. VMControl(v) /\ Shape
  BY DEF ControlInv
<1>2. Registered(v) /\ DOMAIN i = SnapshotFields /\ poller[v] = "none" /\ unmapFailed[v] = FALSE
  BY <1>1 DEF DeactivateFinish, At, VMControl, Control
<1>3. DOMAIN m = SnapshotFields
  BY <1>2, MeteredState DEF Metered
<1>4. DOMAIN f = SnapshotFields
  <2> HIDE DEF m
  <2> QED BY <1>3, ProcessedState DEF Finished, m
<1>5. DOMAIN Deactivated(f) = SnapshotFields /\ Deactivated(f).isActive = FALSE
  <2> HIDE DEF f
  <2> QED BY <1>4 DEF Deactivated, SnapshotFields
<1> QED BY <1>1, <1>2, <1>5, FinishedState DEF VMControl, Control, CallerLabels, PollerLabels

LEMMA UnmapControl ==
  ASSUME ControlInv, NEW v \in VMs, UnmapFails(v)
  PROVE  VMControl(v)'
<1>1. VMControl(v) /\ Shape
  BY DEF ControlInv
<1>2. /\ UNCHANGED <<instances, poller>> /\ cpc[v] = "finish" /\ cpc'[v] = "idle"
      /\ unmapFailed'[v] = TRUE
  BY <1>1 DEF UnmapFails, At, Return, Goto, Shape
<1> QED BY <1>1, <1>2 DEF VMControl, Control, Registered, CallerLabels

LEMMA ControlStep ==
  ASSUME ControlInv, NEW v \in VMs, Step(v)
  PROVE  ControlInv'
<1>1. VMControl(v)'
  BY RegisterControl, CallControl, LoadControl, FinishControl, UnmapControl, PollControl, ServeControl DEF Step
<1>2. Shape' /\ Others(v)
  BY StepFrame DEF ControlInv
<1> QED BY <1>1, <1>2, OthersControl

\* The callers and the poller of every VM stay in step, whatever the host does.
THEOREM ControlInvariant == Spec => []ControlInv
<1>1. Init => ControlInv
  BY DEF Init, NoInstances, ControlInv, Shape, VMControl, Control, Registered, CallerLabels, PollerLabels
<1>2. ControlInv /\ [Next]_vars => ControlInv'
  <2>1. ASSUME ControlInv, Next
        PROVE  ControlInv'
    BY <2>1, NextIsStep, ControlStep
  <2>2. ASSUME ControlInv, UNCHANGED vars
        PROVE  ControlInv'
    BY <2>2 DEF vars, guestVars, ControlInv, Shape, VMControl, Registered
  <2> QED BY <2>1, <2>2
<1> QED BY <1>1, <1>2, PTL DEF Spec

\* The polling goroutine of a VM exists exactly while the VM is active, with the guest
\* memory file mapped: Activate never leaves an active VM without its poller, and neither
\* Deactivate nor DeregisterVM leaves a poller without its VM.  The one exception is a
\* failed munmap, after which the VM is active without a poller for good (manager.go
\* 108-113, 155-159, 230-244).
THEOREM PollerCorrect == Spec => []PollerMatchesActive
<1>1. ControlInv => PollerMatchesActive
  BY DEF ControlInv, VMControl, Control, PollerMatchesActive, Active
<1> QED BY <1>1, ControlInvariant, PTL

-----------------------------------------------------------------------------
(* The guest memory, the trace and the working set.                         *)
(*                                                                          *)
(* What the folds and the sort of Trace compute for every input is beyond   *)
(* the prover (induction over sequences).  The theorems below are about how *)
(* manager, poller and guest use them: TracesReplay is a hypothesis, stated *)
(* for the traces a first run can leave.  The run reaches all of those that *)
(* four pages allow, and checks there what the hypothesis says of them.     *)

TracesReplay == \A v \in VMs : \A t \in Seq(Pages(v)) : Recordable(t) => ReplayExact(t)

\* The pages that are there.
Filled(v, m) == {p \in Pages(v) : m[p] # Absent}

\* The guest memory m of VM v mapped at b, and the queue f of its faults.
Guest(v, b, f, m, ov) ==
  /\ b \in Nat /\ f \in Seq(Nat) /\ ov \in BOOLEAN
  /\ m \in [Pages(v) -> Pages(v) \cup {Absent}]
  /\ \A p \in Pages(v) : m[p] \in {p, Absent}
  /\ \A i \in 1..Len(f) : f[i] - b \in Pages(v)
  /\ ~ov => Len(f) <= 1 /\ \A i \in 1..Len(f) : m[f[i] - b] = Absent

Replays(trace, regions, file) ==
  /\ AreRunsOf(regions, ToSet(trace))
  /\ file \in Seq(ToSet(trace)) /\ Len(file) = Len(trace)
  /\ InstalledPages(regions, file) = [p \in ToSet(trace) |-> p]

\* The state of a registered VM: until the first run ends the trace has the pages that are
\* there, afterwards regions and file stand for the trace, and a load has read the file.
State(v, s, c, file, m) ==
  /\ SnapshotStateOK(v, s)
  /\ ~s.isRecordReady => NoRepeats(s.trace) /\ ToSet(s.trace) = Filled(v, m)
  /\ s.isRecordReady /\ ~s.IsLazyMode =>
       /\ Replays(s.trace, s.regions, file)
       /\ s.isActive \/ c \in {"activate", "uffd"} => s.workingSet = file

\* While the VM is active: offsets are taken relative to the first fault, which is at the
\* first page, and the counters count what was brought in since.
Run(v, s, b, f, m) ==
  /\ ~s.firstFaultDone => /\ Filled(v, m) = {} /\ (f # <<>> => f[1] = b)
                          /\ s.uniqueNum = 0 /\ s.replayedNum = 0
  /\ s.firstFaultDone => s.startAddress = b
  /\ s.firstFaultDone /\ ~s.isRecordReady => 0 \in ToSet(s.trace)
  /\ s.firstFaultDone /\ s.isRecordReady =>
       /\ s.uniqueNum = Cardinality(Filled(v, m) \ ToSet(s.trace))
       /\ s.IsLazyMode => s.replayedNum = Cardinality(Filled(v, m))
       /\ ~s.IsLazyMode => ToSet(s.trace) \subseteq Filled(v, m)

Data(v, reg, s, c, file, b, f, m, ov) ==
  /\ Guest(v, b, f, m, ov) /\ file \in Seq(Pages(v))
  /\ reg => State(v, s, c, file, m)
  /\ reg /\ s.isActive => Run(v, s, b, f, m)
  /\ ~(reg /\ s.isActive) => f = <<>> /\ Filled(v, m) = {}

VMData(v) == Data(v, Registered(v), instances[v], cpc[v], wsFile[v], base[v], faults[v], mem[v], overlap[v])

IInv ==
  /\ ControlInv
  /\ mLock \in BOOLEAN /\ stray \in BOOLEAN /\ crashed \in BOOLEAN
  /\ FatalOnlyOnOverlap
  /\ \A v \in VMs : VMData(v)

LEMMA PagesFacts ==
  ASSUME NEW v \in VMs
  PROVE  /\ Pages(v) \subseteq Nat /\ 0 \in Pages(v) /\ IsFiniteSet(Pages(v)) /\ Absent \notin Pages(v)
         /\ NumPages[v] \in Nat \ {0}
<1>1. NumPages[v] \in Nat \ {0} /\ Absent \notin Pages(v)
  BY MemoryAssumption
<1>2. IsFiniteSet(Pages(v))
  BY <1>1, FS_Interval DEF Pages
<1> QED BY <1>1, <1>2 DEF Pages

LEMMA FilledFinite ==
  ASSUME NEW v \in VMs, NEW m, NEW T
  PROVE  /\ IsFiniteSet(Filled(v, m)) /\ Cardinality(Filled(v, m)) \in Nat
         /\ IsFiniteSet(Filled(v, m) \ T) /\ Cardinality(Filled(v, m) \ T) \in Nat
         /\ Cardinality(Filled(v, m) \ T) <= Cardinality(Filled(v, m))
<1>1. IsFiniteSet(Filled(v, m))
  BY PagesFacts, FS_Subset DEF Filled
<1>2. (Filled(v, m) \ T) \in SUBSET Filled(v, m)
  OBVIOUS
<1>3. IsFiniteSet(Filled(v, m) \ T) /\ Cardinality(Filled(v, m) \ T) <= Cardinality(Filled(v, m))
  BY <1>1, <1>2, FS_Subset
<1> QED BY <1>1, <1>3, FS_CardinalityType

LEMMA OthersData ==
  ASSUME IInv, NEW v \in VMs, ControlInv', Others(v), VMData(v)',
         mLock' \in BOOLEAN, stray' \in BOOLEAN, crashed' \in BOOLEAN, FatalOnlyOnOverlap'
  PROVE  IInv'
<1>1. ASSUME NEW w \in VMs \ {v}
      PROVE  VMData(w)'
  <2>1. VMData(w)
    BY DEF IInv
  <2>2. CASE w \in DOMAIN instances
    BY <2>1, <2>2 DEF VMData, Registered, Others
  <2>3. CASE w \notin DOMAIN instances
    BY <2>1, <2>3 DEF VMData, Data, Registered, Others
  <2> QED BY <2>2, <2>3
<1> QED BY <1>1 DEF IInv

\* A step that leaves the guest of the VM alone and does not crash.
LEMMA NoCrash ==
  ASSUME IInv, NEW v \in VMs, Step(v), VMData(v)', UNCHANGED <<overlap, crashed>>,
         mLock' \in BOOLEAN, stray' \in BOOLEAN
  PROVE  IInv'
<1>1. FatalOnlyOnOverlap' /\ crashed' \in BOOLEAN
  BY DEF IInv, FatalOnlyOnOverlap
<1>2. ControlInv' /\ Others(v)
  BY ControlStep, StepFrame DEF IInv, ControlInv
<1> QED BY <1>1, <1>2, OthersData

LEMMA NewStateData ==
  ASSUME NEW v \in VMs, NEW lazy \in BOOLEAN, NEW c, NEW file, NEW m, Filled(v, m) = {}
  PROVE  State(v, NewSnapshotState(lazy), c, file, m)
<1> DEFINE s == NewSnapshotState(lazy)
<1>1. SnapshotStateOK(v, s)
  BY DEF SnapshotStateOK, NewSnapshotState, NoRegions
<1>2. s.isRecordReady = FALSE /\ s.trace = <<>>
  BY DEF NewSnapshotState
<1>3. ToSet(<<>>) = {}
  BY DEF ToSet
<1> QED BY <1>1, <1>2, <1>3 DEF State, NoRepeats

LEMMA RegisterData ==
  ASSUME IInv, NEW v \in VMs, RegisterVM(v) \/ DeregisterVM(v)
  PROVE  VMData(v)'
<1>1. VMData(v) /\ VMControl(v) /\ Shape
  BY DEF IInv, ControlInv
<1>2. cpc'[v] = "idle" /\ cpc[v] \in {"register", "deregister"}
      /\ UNCHANGED <<wsFile, base, faults, mem, overlap>>
  BY <1>1 DEF RegisterVM, DeregisterVM, Locks, At, Return, Goto, Shape, guestVars
<1>3. CASE instances' = instances
  BY <1>1, <1>2, <1>3 DEF VMData, Data, State, Registered
<1>4. CASE ~Registered(v) /\ \E lazy \in BOOLEAN : Registered(v)' /\ instances'[v] = NewSnapshotState(lazy)
  <2>1. PICK lazy \in BOOLEAN : Registered(v)' /\ instances'[v] = NewSnapshotState(lazy)
    BY <1>4
  <2>2. ~NewSnapshotState(lazy).isActive
    BY NewState
  <2>3. Guest(v, base[v], faults[v], mem[v], overlap[v]) /\ wsFile[v] \in Seq(Pages(v))
        /\ faults[v] = <<>> /\ Filled(v, mem[v]) = {}
    BY <1>1, <1>4 DEF VMData, Data
  <2>4. State(v, NewSnapshotState(lazy), "idle", wsFile[v], mem[v])
    BY <2>3, NewStateData
  <2> QED BY <1>2, <2>1, <2>2, <2>3, <2>4 DEF VMData, Data
<1>5. CASE Removable(v) /\ ~Registered(v)'
  BY <1>1, <1>2, <1>5 DEF VMData, Data, Removable
<1> QED BY <1>3, <1>4, <1>5 DEF RegisterVM, DeregisterVM, Registered

\* Calls and steps of the poller that leave the states of the VMs alone.
LEMMA CallData ==
  ASSUME IInv, NEW v \in VMs,
         \/ LookupFails(v) \/ DumpStats(v) \/ Deactivate(v) \/ UnmapFails(v)
         \/ (\E op \in Operations : Call(v, op)) \/ PollerReady(v) \/ PollLoop(v)
  PROVE  VMData(v)'
<1>1. VMData(v) /\ VMControl(v) /\ Shape
  BY DEF IInv, ControlInv
<1>2. UNCHANGED <<instances, wsFile, base, faults, mem, overlap>>
  BY DEF LookupFails, DumpStats, Deactivate, UnmapFails, Call, PollerReady, PollLoop, guestVars
<1>3. cpc'[v] \in {"activate", "uffd"} => cpc[v] \in {"activate", "uffd"}
  BY <1>1 DEF LookupFails, DumpStats, Deactivate, UnmapFails, Call, PollerReady, PollLoop, Return, Goto,
     Shape, Operations
<1> QED BY <1>1, <1>2, <1>3 DEF VMData, Data, State, Registered

\* The buffer that fetchState fills is the working set file.
LEMMA WholeFile ==
  ASSUME NEW v \in VMs, NEW S, wsFile[v] \in Seq(S), Len(wsFile[v]) = Len(instances[v].trace)
  PROVE  ReadWorkingSet(v) = wsFile[v]
BY DEF ReadWorkingSet

LEMMA FetchData ==
  ASSUME IInv, NEW v \in VMs, FetchState(v)
  PROVE  VMData(v)'
<1> DEFINE s == instances[v]
<1>1. VMData(v) /\ VMControl(v) /\ Shape
  BY DEF IInv, ControlInv
<1>2. /\ cpc[v] = "load" /\ cpc'[v] \in {"idle", "activate"} /\ Registered(v)
      /\ UNCHANGED <<wsFile, base, faults, mem, overlap>>
  BY <1>1 DEF FetchState, Locks, At, Return, Goto, Shape, guestVars
<1>3. DOMAIN s = SnapshotFields /\ ~s.isActive
  BY <1>1, <1>2 DEF VMControl, Control
<1>4. State(v, s, "load", wsFile[v], mem[v])
  BY <1>1, <1>2 DEF VMData, Data
<1>5. Guest(v, base[v], faults[v], mem[v], overlap[v]) /\ wsFile[v] \in Seq(Pages(v))
      /\ faults[v] = <<>> /\ Filled(v, mem[v]) = {}
  BY <1>1, <1>3 DEF VMData, Data
<1>6. CASE instances' = instances /\ cpc'[v] = "idle"
  BY <1>1, <1>2, <1>6 DEF VMData, Data, State, Registered
<1>7. CASE instances' = instances /\ ~(s.isRecordReady /\ ~s.IsLazyMode)
  <2>1. State(v, s, cpc'[v], wsFile[v], mem[v])
    BY <1>4, <1>7 DEF State
  <2> QED BY <1>2, <1>3, <1>5, <1>7, <2>1 DEF VMData, Data, Registered
<1>8. CASE s.isRecordReady /\ ~s.IsLazyMode /\ instances' = [instances EXCEPT ![v].workingSet = ReadWorkingSet(v)]
  <2>1. PICK t : t = [s EXCEPT !.workingSet = wsFile[v]]
    OBVIOUS
  <2>2. ReadWorkingSet(v) = wsFile[v]
    BY <1>4, <1>5, <1>8, WholeFile DEF State, Replays
  <2>3. Registered(v)' /\ instances'[v] = t
    BY <1>2, <1>8, <2>1, <2>2 DEF Registered
  <2>4. /\ DOMAIN t = SnapshotFields /\ t.workingSet = wsFile[v]
        /\ t.isActive = s.isActive /\ t.guestMem = s.guestMem /\ t.isEverActivated = s.isEverActivated
        /\ t.firstFaultDone = s.firstFaultDone /\ t.IsLazyMode = s.IsLazyMode
        /\ t.isRecordReady = s.isRecordReady /\ t.startAddress = s.startAddress
        /\ t.trace = s.trace /\ t.regions = s.regions
        /\ t.uniqueNum = s.uniqueNum /\ t.replayedNum = s.replayedNum
        /\ t.uniquePFServed = s.uniquePFServed /\ t.totalPFServed = s.totalPFServed
        /\ t.reusedPFServed = s.reusedPFServed
    BY <1>3, <2>1 DEF SnapshotFields
  <2>5. wsFile[v] \in Seq(Pages(v) \cup {Absent})
    BY <1>5
  <2>6. SnapshotStateOK(v, t)
    BY <1>4, <2>4, <2>5 DEF State, SnapshotStateOK
  <2>7. State(v, t, cpc'[v], wsFile[v], mem[v])
    BY <1>4, <1>8, <2>4, <2>6 DEF State
  <2> QED BY <1>2, <1>3, <1>5, <2>3, <2>4, <2>7 DEF VMData, Data
<1> QED BY <1>1, <1>6, <1>7, <1>8 DEF FetchState, Return, Goto, Shape

LEMMA MapData ==
  ASSUME IInv, NEW v \in VMs, ActivateMap(v)
  PROVE  VMData(v)'
<1> DEFINE s == instances[v]
<1>1. VMData(v) /\ VMControl(v) /\ Shape
  BY DEF IInv, ControlInv
<1>2. /\ cpc[v] = "activate" /\ Registered(v)
      /\ UNCHANGED <<wsFile, base, faults, mem, overlap>>
  BY <1>1 DEF ActivateMap, Locks, At, VMControl, Control, guestVars
<1>3. DOMAIN s = SnapshotFields /\ ~s.isActive
  BY <1>1, <1>2 DEF VMControl, Control
<1>4. State(v, s, "activate", wsFile[v], mem[v])
  BY <1>1, <1>2 DEF VMData, Data
<1>5. Guest(v, base[v], faults[v], mem[v], overlap[v]) /\ wsFile[v] \in Seq(Pages(v))
      /\ faults[v] = <<>> /\ Filled(v, mem[v]) = {}
  BY <1>1, <1>3 DEF VMData, Data
<1>6. CASE instances' = instances /\ cpc'[v] = "idle"
  BY <1>1, <1>2, <1>6 DEF VMData, Data, State, Registered
<1>7. CASE cpc'[v] = "uffd" /\ instances' = [instances EXCEPT ![v].guestMem = TRUE]
  <2>1. PICK t : t = [s EXCEPT !.guestMem = TRUE]
    OBVIOUS
  <2>2. Registered(v)' /\ instances'[v] = t
    BY <1>2, <1>7, <2>1 DEF Registered
  <2>3. /\ DOMAIN t = SnapshotFields /\ t.guestMem = TRUE
        /\ t.isActive = s.isActive /\ t.workingSet = s.workingSet /\ t.isEverActivated = s.isEverActivated
        /\ t.firstFaultDone = s.firstFaultDone /\ t.IsLazyMode = s.IsLazyMode
        /\ t.isRecordReady = s.isRecordReady /\ t.startAddress = s.startAddress
        /\ t.trace = s.trace /\ t.regions = s.regions
        /\ t.uniqueNum = s.uniqueNum /\ t.replayedNum = s.replayedNum
        /\ t.uniquePFServed = s.uniquePFServed /\ t.totalPFServed = s.totalPFServed
        /\ t.reusedPFServed = s.reusedPFServed
    BY <1>3, <2>1 DEF SnapshotFields
  <2>4. SnapshotStateOK(v, t)
    BY <1>4, <2>3 DEF State, SnapshotStateOK
  <2>5. State(v, t, "uffd", wsFile[v], mem[v])
    BY <1>4, <2>3, <2>4 DEF State
  <2> QED BY <1>2, <1>3, <1>5, <1>7, <2>2, <2>3, <2>5 DEF VMData, Data
<1> QED BY <1>1, <1>6, <1>7 DEF ActivateMap, Return, Goto, Shape

LEMMA UffdData ==
  ASSUME IInv, NEW v \in VMs, GetUFFD(v)
  PROVE  VMData(v)'
<1> DEFINE s == instances[v]
<1>1. VMData(v) /\ VMControl(v) /\ Shape
  BY DEF IInv, ControlInv
<1>2. cpc[v] = "uffd" /\ Registered(v) /\ UNCHANGED <<wsFile, faults, mem, overlap>>
  BY <1>1 DEF GetUFFD, At, VMControl, Control, guestVars
<1>3. DOMAIN s = SnapshotFields /\ ~s.isActive
  BY <1>1, <1>2 DEF VMControl, Control
<1>4. State(v, s, "uffd", wsFile[v], mem[v])
  BY <1>1, <1>2 DEF VMData, Data
<1>5. Guest(v, base[v], faults[v], mem[v], overlap[v]) /\ wsFile[v] \in Seq(Pages(v))
      /\ faults[v] = <<>> /\ Filled(v, mem[v]) = {}
  BY <1>1, <1>3 DEF VMData, Data
<1>6. CASE instances' = instances /\ cpc'[v] = "idle" /\ base' = base
  BY <1>1, <1>2, <1>6 DEF VMData, Data, State, Registered
<1>7. CASE /\ cpc'[v] = "ready" /\ base'[v] \in Bases
           /\ instances' = [instances EXCEPT ![v] = SetupStateOnActivate(@)]
  <2>1. PICK t : t = SetupStateOnActivate(s)
    OBVIOUS
  <2>2. Registered(v)' /\ instances'[v] = t
    BY <1>2, <1>7, <2>1 DEF Registered
  <2>3. /\ DOMAIN t = SnapshotFields
        /\ t.isActive = TRUE /\ t.isEverActivated = TRUE /\ t.firstFaultDone = FALSE
        /\ t.uniqueNum = 0 /\ t.replayedNum = 0
        /\ t.IsLazyMode = s.IsLazyMode /\ t.isRecordReady = s.isRecordReady
        /\ t.startAddress = s.startAddress /\ t.trace = s.trace /\ t.regions = s.regions
        /\ t.workingSet = s.workingSet /\ t.guestMem = s.guestMem
        /\ t.uniquePFServed = s.uniquePFServed /\ t.totalPFServed = s.totalPFServed
        /\ t.reusedPFServed = s.reusedPFServed
    <3> HIDE DEF s
    <3> QED BY <1>3, <2>1 DEF SetupStateOnActivate, SnapshotFields
  <2>4. SnapshotStateOK(v, t)
    <3> HIDE DEF s
    <3>1. {t.IsLazyMode, t.isEverActivated, t.isActive, t.isRecordReady, t.firstFaultDone, t.guestMem} \subseteq BOOLEAN
      BY <1>4, <2>3 DEF State, SnapshotStateOK
    <3>2. {t.uniqueNum, t.replayedNum} \subseteq Nat
      BY <2>3
    <3> QED BY <1>4, <2>3, <3>1, <3>2 DEF State, SnapshotStateOK
  <2>5. State(v, t, "ready", wsFile[v], mem[v])
    <3> HIDE DEF s
    <3>1. s.isRecordReady /\ ~s.IsLazyMode => s.workingSet = wsFile[v]
      BY <1>4 DEF State
    <3> QED BY <1>4, <2>3, <2>4, <3>1 DEF State
  <2>6. Run(v, t, base'[v], <<>>, mem[v])
    BY <1>5, <2>3 DEF Run
  <2>7. base'[v] \in Nat
    BY <1>7, MemoryAssumption
  <2>8. Guest(v, base'[v], <<>>, mem[v], overlap[v])
    BY <1>5, <2>7 DEF Guest
  <2> QED BY <1>2, <1>5, <1>7, <2>2, <2>3, <2>5, <2>6, <2>8 DEF VMData, Data
<1> QED BY <1>1, <1>6, <1>7 DEF GetUFFD, Return, Goto, Shape

LEMMA FaultData ==
  ASSUME IInv, NEW v \in VMs, NEW p \in Pages(v), PageFault(v, p)
  PROVE  VMData(v)'
<1> DEFINE s == instances[v]  b == base[v]  f == faults[v]  m == mem[v]
<1>1. VMData(v) /\ VMControl(v) /\ Shape
  BY DEF IInv, ControlInv
<1>2. /\ UNCHANGED <<instances, cpc, wsFile, base, mem>> /\ Active(v) /\ m[p] = Absent
      /\ faults'[v] = Append(f, b + p) /\ overlap'[v] = (overlap[v] \/ f # <<>>)
      /\ f = <<>> /\ (\A q \in Pages(v) : m[q] = Absent) => p = 0
  BY <1>1 DEF PageFault, Shape
<1>3. Registered(v) /\ s.isActive
  BY <1>2 DEF Active
<1>4. Guest(v, b, f, m, overlap[v]) /\ Run(v, s, b, f, m) /\ State(v, s, cpc[v], wsFile[v], m)
      /\ wsFile[v] \in Seq(Pages(v))
  BY <1>1, <1>3 DEF VMData, Data
<1>5. PICK g : g = Append(f, b + p)
  OBVIOUS
<1>6. PICK ov : ov = (overlap[v] \/ f # <<>>)
  OBVIOUS
<1>7. p \in Nat /\ b \in Nat /\ f \in Seq(Nat) /\ overlap[v] \in BOOLEAN
  BY <1>4, PagesFacts DEF Guest
<1>8. /\ g \in Seq(Nat) /\ Len(g) = Len(f) + 1 /\ g[Len(g)] = b + p /\ (b + p) - b = p
      /\ \A i \in 1..Len(f) : g[i] = f[i]
  BY <1>5, <1>7
<1>9. Guest(v, b, g, m, ov)
  <2>1. ASSUME NEW i \in 1..Len(g)
        PROVE  g[i] - b \in Pages(v)
    <3>1. CASE i \in 1..Len(f)
      BY <1>4, <1>8, <3>1 DEF Guest
    <3>2. CASE i = Len(g)
      BY <1>8, <3>2
    <3> QED BY <1>7, <1>8, <3>1, <3>2
  <2>2. ASSUME ~ov
        PROVE  Len(g) <= 1 /\ \A i \in 1..Len(g) : m[g[i] - b] = Absent
    <3>1. f = <<>> /\ Len(f) = 0
      BY <1>6, <1>7, <2>2
    <3> QED BY <1>2, <1>8, <3>1
  <2> QED BY <1>4, <1>6, <1>7, <1>8, <2>1, <2>2 DEF Guest
<1>10. Run(v, s, b, g, m)
  <2>1. ASSUME ~s.firstFaultDone
        PROVE  g[1] = b
    <3>1. CASE f = <<>>
      <4>1. p = 0
        BY <1>2, <1>4, <2>1, <3>1 DEF Run, Filled
      <4> QED BY <1>7, <1>8, <3>1, <4>1
    <3>2. CASE f # <<>>
      <4>1. f[1] = b
        BY <1>4, <2>1, <3>2 DEF Run
      <4>2. 1 \in 1..Len(f)
        BY <1>7, <3>2
      <4>3. g[1] = f[1]
        BY <1>8, <4>2
      <4> QED BY <4>1, <4>3
    <3> QED BY <3>1, <3>2
  <2> QED BY <1>4, <2>1 DEF Run
<1> QED BY <1>2, <1>3, <1>4, <1>5, <1>6, <1>9, <1>10 DEF VMData, Data, Registered

\* Pages enter the guest memory one at a time, or as a whole working set.
LEMMA FilledOne ==
  ASSUME NEW v \in VMs, NEW m \in [Pages(v) -> Pages(v) \cup {Absent}], NEW p \in Pages(v),
         NEW o \in Pages(v), NEW n, n = [m EXCEPT ![p] = o]
  PROVE  /\ n \in [Pages(v) -> Pages(v) \cup {Absent}]
         /\ Filled(v, n) = Filled(v, m) \cup {p}
         /\ n[p] = o /\ \A q \in Pages(v) \ {p} : n[q] = m[q]
BY PagesFacts DEF Filled

LEMMA AppendTrace ==
  ASSUME NEW S, NEW t \in Seq(S), NEW o \in S, o \notin ToSet(t), NoRepeats(t)
  PROVE  /\ Append(t, o) \in Seq(S)
         /\ ToSet(Append(t, o)) = ToSet(t) \cup {o}
         /\ NoRepeats(Append(t, o))
<1>1. PICK u : u = Append(t, o)
  OBVIOUS
<1>2. u \in Seq(S) /\ Len(u) = Len(t) + 1 /\ u[Len(u)] = o /\ \A i \in 1..Len(t) : u[i] = t[i]
  BY <1>1
<1>3. DOMAIN t = 1..Len(t) /\ DOMAIN u = 1..Len(u) /\ Len(t) \in Nat
  BY <1>2
<1>4. ToSet(u) = ToSet(t) \cup {o}
  BY <1>2, <1>3 DEF ToSet
<1>5. ASSUME NEW i \in DOMAIN u, NEW j \in DOMAIN u, u[i] = u[j]
      PROVE  i = j
  <2>1. CASE i \in 1..Len(t) /\ j \in 1..Len(t)
    BY <1>2, <1>3, <1>5, <2>1 DEF NoRepeats
  <2>2. CASE i \in 1..Len(t) /\ j = Len(u)
    BY <1>2, <1>3, <1>5, <2>2 DEF ToSet
  <2>3. CASE i = Len(u) /\ j \in 1..Len(t)
    BY <1>2, <1>3, <1>5, <2>3 DEF ToSet
  <2> QED BY <1>2, <1>3, <1>5, <2>1, <2>2, <2>3
<1> QED BY <1>1, <1>2, <1>4, <1>5 DEF NoRepeats

LEMMA TailQueue ==
  ASSUME NEW f \in Seq(Nat), f # <<>>, NEW g, g = Tail(f)
  PROVE  /\ g \in Seq(Nat) /\ Len(g) = Len(f) - 1 /\ Len(f) \in Nat \ {0}
         /\ \A i \in 1..Len(g) : g[i] = f[i + 1] /\ i + 1 \in 1..Len(f)
         /\ f[1] \in Nat /\ Head(f) = f[1]
OBVIOUS

LEMMA ServeGuest ==
  ASSUME NEW v \in VMs, NEW b, NEW f, NEW m, NEW ov, Guest(v, b, f, m, ov), f # <<>>,
         NEW n \in [Pages(v) -> Pages(v) \cup {Absent}], \A q \in Pages(v) : n[q] \in {q, Absent}
  PROVE  Guest(v, b, Tail(f), n, ov)
<1>1. PICK g : g = Tail(f)
  OBVIOUS
<1>2. f \in Seq(Nat) /\ b \in Nat /\ ov \in BOOLEAN
  BY DEF Guest
<1>3. /\ g \in Seq(Nat) /\ Len(g) = Len(f) - 1 /\ Len(f) \in Nat \ {0}
      /\ \A i \in 1..Len(g) : g[i] = f[i + 1] /\ i + 1 \in 1..Len(f)
  BY <1>1, <1>2, TailQueue
<1>4. \A i \in 1..Len(g) : g[i] - b \in Pages(v)
  BY <1>3 DEF Guest
<1>5. ~ov => Len(g) <= 1 /\ \A i \in 1..Len(g) : n[g[i] - b] = Absent
  <2>1. ~ov => Len(g) = 0
    BY <1>3 DEF Guest
  <2> QED BY <2>1
<1> QED BY <1>1, <1>2, <1>3, <1>4, <1>5 DEF Guest

LEMMA TypedState ==
  ASSUME NEW v, NEW s, SnapshotStateOK(v, s), NEW t,
         t.IsLazyMode = s.IsLazyMode, t.isEverActivated = s.isEverActivated, t.guestMem = s.guestMem,
         t.isActive = s.isActive, t.isRecordReady = s.isRecordReady, t.firstFaultDone \in BOOLEAN,
         t.startAddress \in Nat, t.trace \in Seq(Pages(v)), t.regions = s.regions,
         t.workingSet = s.workingSet, t.uniqueNum \in Nat, t.replayedNum \in Nat,
         t.uniquePFServed = s.uniquePFServed, t.totalPFServed = s.totalPFServed,
         t.reusedPFServed = s.reusedPFServed
  PROVE  SnapshotStateOK(v, t)
BY DEF SnapshotStateOK

\* ServeOnePage, on values.
Begun(s, a) == IF s.firstFaultDone THEN s ELSE FirstFault(s, a)
OffsetOf(s, a) == a - Begun(s, a).startAddress
Served(s, a) == Recorded(Begun(s, a), OffsetOf(s, a))
Put(m, p, o) == [m EXCEPT ![p] = o]

LEMMA ServeOneData ==
  ASSUME NEW v \in VMs, NEW s, NEW c, NEW file, NEW b, NEW f, NEW m, NEW ov,
         DOMAIN s = SnapshotFields, s.isActive,
         Guest(v, b, f, m, ov), State(v, s, c, file, m), Run(v, s, b, f, m), f # <<>>, ~Replaying(s),
         m[f[1] - b] = Absent
  PROVE  /\ Guest(v, b, Tail(f), Put(m, f[1] - b, OffsetOf(s, f[1])), ov)
         /\ State(v, Served(s, f[1]), c, file, Put(m, f[1] - b, OffsetOf(s, f[1])))
         /\ Run(v, Served(s, f[1]), b, Tail(f), Put(m, f[1] - b, OffsetOf(s, f[1])))
         /\ Served(s, f[1]).isActive
<1>1. PICK u : u = (IF s.firstFaultDone THEN s ELSE FirstFault(s, f[1]))
  OBVIOUS
<1>2. PICK o : o = f[1] - u.startAddress
  OBVIOUS
<1>3. PICK p : p = f[1] - b
  OBVIOUS
<1>4. PICK t : t = Recorded(u, o)
  OBVIOUS
<1>5. PICK n : n = [m EXCEPT ![p] = o]
  OBVIOUS
<1>6. t = Served(s, f[1]) /\ n = Put(m, f[1] - b, OffsetOf(s, f[1]))
  BY <1>1, <1>2, <1>3, <1>4, <1>5 DEF Served, Put, OffsetOf, Begun
<1>7. /\ Guest(v, b, Tail(f), n, ov) /\ State(v, t, c, file, n) /\ Run(v, t, b, Tail(f), n)
      /\ t.isActive
  <2> USE <1>1, <1>2, <1>3, <1>4, <1>5
  <2>1. f \in Seq(Nat) /\ b \in Nat /\ m \in [Pages(v) -> Pages(v) \cup {Absent}]
        /\ f[1] \in Nat /\ p \in Pages(v) /\ Len(f) >= 1 /\ 1 \in 1..Len(f)
    <3>1. f \in Seq(Nat) /\ b \in Nat /\ m \in [Pages(v) -> Pages(v) \cup {Absent}]
      BY DEF Guest
    <3>2. Len(f) >= 1 /\ 1 \in 1..Len(f) /\ f[1] \in Nat
      BY <3>1
    <3> QED BY <3>1, <3>2 DEF Guest
  <2>2. /\ DOMAIN u = SnapshotFields /\ u.isActive = s.isActive /\ u.guestMem = s.guestMem
        /\ u.isEverActivated = s.isEverActivated /\ u.IsLazyMode = s.IsLazyMode
        /\ u.isRecordReady = s.isRecordReady /\ u.trace = s.trace /\ u.regions = s.regions
        /\ u.workingSet = s.workingSet /\ u.uniqueNum = s.uniqueNum /\ u.replayedNum = s.replayedNum
        /\ u.uniquePFServed = s.uniquePFServed /\ u.totalPFServed = s.totalPFServed
        /\ u.reusedPFServed = s.reusedPFServed
    BY DEF FirstFault, SnapshotFields
  <2>3. u.firstFaultDone /\ u.startAddress = b /\ u.firstFaultDone \in BOOLEAN
    <3>1. CASE s.firstFaultDone
      BY <3>1 DEF Run, State, SnapshotStateOK
    <3>2. CASE ~s.firstFaultDone
      BY <3>2 DEF FirstFault, SnapshotFields, Run
    <3> QED BY <3>1, <3>2
  <2>4. o = p /\ p \in Nat
    BY <2>1, <2>3, PagesFacts
  <2>5. /\ n \in [Pages(v) -> Pages(v) \cup {Absent}]
        /\ Filled(v, n) = Filled(v, m) \cup {p} /\ p \notin Filled(v, m)
        /\ n[p] = p /\ \A q \in Pages(v) \ {p} : n[q] = m[q]
    BY <2>1, <2>4, FilledOne DEF Filled
  <2>6. Guest(v, b, Tail(f), n, ov)
    <3>1. \A q \in Pages(v) : n[q] \in {q, Absent}
      BY <2>5 DEF Guest
    <3> QED BY <2>5, <3>1, ServeGuest
  <2>7. /\ DOMAIN t = SnapshotFields
        /\ t.isActive = s.isActive /\ t.guestMem = s.guestMem /\ t.isEverActivated = s.isEverActivated
        /\ t.firstFaultDone = u.firstFaultDone /\ t.IsLazyMode = s.IsLazyMode
        /\ t.isRecordReady = s.isRecordReady /\ t.startAddress = b
        /\ t.regions = s.regions /\ t.workingSet = s.workingSet
        /\ t.uniquePFServed = s.uniquePFServed /\ t.totalPFServed = s.totalPFServed
        /\ t.reusedPFServed = s.reusedPFServed
        /\ ~s.isRecordReady => t.trace = Append(s.trace, p) /\ t.uniqueNum = s.uniqueNum
                               /\ t.replayedNum = s.replayedNum
        /\ s.isRecordReady =>
             /\ t.trace = s.trace
             /\ t.uniqueNum = IF ~s.IsLazyMode \/ ~ContainsRecord(s.trace, p) THEN s.uniqueNum + 1 ELSE s.uniqueNum
             /\ t.replayedNum = IF s.IsLazyMode THEN s.replayedNum + 1 ELSE s.replayedNum
    <3>1. /\ DOMAIN t = SnapshotFields
          /\ t.isActive = u.isActive /\ t.guestMem = u.guestMem /\ t.isEverActivated = u.isEverActivated
          /\ t.firstFaultDone = u.firstFaultDone /\ t.IsLazyMode = u.IsLazyMode
          /\ t.isRecordReady = u.isRecordReady /\ t.startAddress = u.startAddress
          /\ t.regions = u.regions /\ t.workingSet = u.workingSet
          /\ t.uniquePFServed = u.uniquePFServed /\ t.totalPFServed = u.totalPFServed
          /\ t.reusedPFServed = u.reusedPFServed
      BY <2>2, RecordedState
    <3>2. ~u.isRecordReady => t.trace = Append(u.trace, o) /\ t.uniqueNum = u.uniqueNum
                              /\ t.replayedNum = u.replayedNum
      BY <2>2, RecordedState
    <3>3. u.isRecordReady =>
             /\ t.trace = u.trace
             /\ t.uniqueNum = IF ~u.IsLazyMode \/ ~ContainsRecord(u.trace, o) THEN u.uniqueNum + 1 ELSE u.uniqueNum
             /\ t.replayedNum = IF u.IsLazyMode THEN u.replayedNum + 1 ELSE u.replayedNum
      BY <2>2, RecordedState
    <3> QED BY <2>2, <2>3, <2>4, <3>1, <3>2, <3>3, ZenonT(60)
  <2>8. SnapshotStateOK(v, s)
    BY DEF State
  <2>9. CASE ~s.isRecordReady
    <3>1. /\ s.trace \in Seq(Pages(v)) /\ ToSet(s.trace) = Filled(v, m)
          /\ NoRepeats(s.trace)
      BY <2>8, <2>9 DEF State, SnapshotStateOK
    <3>2. /\ t.trace \in Seq(Pages(v)) /\ ToSet(t.trace) = ToSet(s.trace) \cup {p}
          /\ NoRepeats(t.trace)
      <4>1. p \in Pages(v) /\ p \notin ToSet(s.trace)
        BY <2>1, <2>5, <3>1
      <4>2. t.trace = Append(s.trace, p)
        BY <2>7, <2>9
      <4>3. /\ Append(s.trace, p) \in Seq(Pages(v))
            /\ ToSet(Append(s.trace, p)) = ToSet(s.trace) \cup {p}
            /\ NoRepeats(Append(s.trace, p))
        BY ONLY <3>1, <4>1, AppendTrace
      <4> QED BY <4>2, <4>3
    <3>3. SnapshotStateOK(v, t)
      <4>1. t.uniqueNum \in Nat /\ t.replayedNum \in Nat
        BY <2>7, <2>8, <2>9 DEF SnapshotStateOK
      <4> QED BY <2>1, <2>3, <2>7, <2>8, <3>2, <4>1, TypedState
    <3>4. State(v, t, c, file, n)
      <4>1. ~t.isRecordReady
        BY <2>7, <2>9
      <4>2. ToSet(t.trace) = Filled(v, n)
        BY <2>5, <3>1, <3>2
      <4> QED BY <3>2, <3>3, <4>1, <4>2 DEF State
    <3>5. 0 \in ToSet(t.trace)
      <4>1. CASE s.firstFaultDone
        BY <2>9, <3>2, <4>1 DEF Run
      <4>2. CASE ~s.firstFaultDone
        <5>1. p = 0
          BY <2>1, <4>2 DEF Run
        <5> QED BY <3>2, <5>1
      <4> QED BY <4>1, <4>2
    <3>6. Run(v, t, b, Tail(f), n)
      BY <2>3, <2>7, <2>9, <3>5 DEF Run
    <3> QED BY <2>6, <2>7, <3>4, <3>6
  <2>10. CASE s.isRecordReady
    <3>1. s.trace \in Seq(Pages(v)) /\ s.uniqueNum \in Nat /\ s.replayedNum \in Nat
          /\ s.isRecordReady \in BOOLEAN /\ s.IsLazyMode \in BOOLEAN
      BY <2>8 DEF SnapshotStateOK
    <3>2. t.uniqueNum \in Nat /\ t.replayedNum \in Nat /\ t.trace = s.trace
      BY <2>7, <2>10, <3>1
    <3>3. SnapshotStateOK(v, t)
      BY <2>1, <2>3, <2>7, <2>8, <3>1, <3>2, TypedState
    <3>4. State(v, t, c, file, n)
      BY <2>7, <2>10, <3>2, <3>3 DEF State
    <3>5. ContainsRecord(s.trace, p) <=> p \in ToSet(s.trace)
      BY <3>1 DEF ContainsRecord, Contains, ToSet
    <3>6. /\ s.uniqueNum = Cardinality(Filled(v, m) \ ToSet(s.trace))
          /\ s.IsLazyMode => s.replayedNum = Cardinality(Filled(v, m))
          /\ ~s.IsLazyMode => ToSet(s.trace) \subseteq Filled(v, m)
      <4>1. CASE s.firstFaultDone
        BY <2>10, <4>1 DEF Run
      <4>2. CASE ~s.firstFaultDone
        <5>1. s.IsLazyMode
          BY <2>10, <4>2 DEF Replaying
        <5>2. Filled(v, m) = {} /\ s.uniqueNum = 0 /\ s.replayedNum = 0
          BY <4>2 DEF Run
        <5>3. Filled(v, m) \ ToSet(s.trace) = {}
          BY <5>2
        <5> QED BY <5>1, <5>2, <5>3, FS_EmptySet
      <4> QED BY <4>1, <4>2
    <3>7. /\ IsFiniteSet(Filled(v, m)) /\ Cardinality(Filled(v, m)) \in Nat
          /\ IsFiniteSet(Filled(v, m) \ ToSet(s.trace)) /\ Cardinality(Filled(v, m) \ ToSet(s.trace)) \in Nat
      BY FilledFinite
    <3>8. Cardinality(Filled(v, n)) = Cardinality(Filled(v, m)) + 1
      <4>1. Cardinality(Filled(v, m) \cup {p}) =
              IF p \in Filled(v, m) THEN Cardinality(Filled(v, m)) ELSE Cardinality(Filled(v, m)) + 1
        BY <3>7, FS_AddElement
      <4> QED BY <2>5, <4>1
    <3>9. Cardinality(Filled(v, n) \ ToSet(s.trace)) =
            IF p \in ToSet(s.trace) THEN Cardinality(Filled(v, m) \ ToSet(s.trace))
                                    ELSE Cardinality(Filled(v, m) \ ToSet(s.trace)) + 1
      <4>1. CASE p \in ToSet(s.trace)
        <5>1. Filled(v, n) \ ToSet(s.trace) = Filled(v, m) \ ToSet(s.trace)
          BY <2>5, <4>1
        <5> QED BY <4>1, <5>1
      <4>2. CASE p \notin ToSet(s.trace)
        <5>1. Filled(v, n) \ ToSet(s.trace) = (Filled(v, m) \ ToSet(s.trace)) \cup {p}
          BY <2>5, <4>2
        <5>2. p \notin Filled(v, m) \ ToSet(s.trace)
          BY <2>5
        <5> QED BY <3>7, <4>2, <5>1, <5>2, FS_AddElement
      <4> QED BY <4>1, <4>2
    <3>10. ~s.IsLazyMode => p \notin ToSet(s.trace)
      BY <2>5, <3>6
    <3>11. /\ t.uniqueNum = Cardinality(Filled(v, n) \ ToSet(t.trace))
           /\ t.IsLazyMode => t.replayedNum = Cardinality(Filled(v, n))
           /\ ~t.IsLazyMode => ToSet(t.trace) \subseteq Filled(v, n)
      <4>1. t.uniqueNum = IF p \in ToSet(s.trace) THEN s.uniqueNum ELSE s.uniqueNum + 1
        BY <2>7, <2>10, <3>5, <3>10
      <4>2. t.uniqueNum = Cardinality(Filled(v, n) \ ToSet(t.trace))
        BY <3>2, <3>6, <3>9, <4>1
      <4>3. t.IsLazyMode => t.replayedNum = Cardinality(Filled(v, n))
        BY <2>7, <2>10, <3>6, <3>8
      <4>4. ~t.IsLazyMode => ToSet(t.trace) \subseteq Filled(v, n)
        BY <2>5, <2>7, <3>2, <3>6
      <4> QED BY <4>2, <4>3, <4>4
    <3>12. Run(v, t, b, Tail(f), n)
      BY <2>3, <2>7, <2>10, <3>11 DEF Run
    <3> QED BY <2>6, <2>7, <3>4, <3>12
  <2> QED BY <2>9, <2>10
<1> QED BY <1>6, <1>7

\* What the replay of a working set puts where.
LEMMA Placed ==
  ASSUME NEW v \in VMs, NEW s, NEW c, NEW file, NEW m, State(v, s, c, file, m), s.isActive, Replaying(s)
  PROVE  /\ InstalledPages(s.regions, s.workingSet) = [p \in ToSet(s.trace) |-> p]
         /\ ToSet(s.trace) \subseteq Pages(v)
<1>1. s.workingSet = file /\ InstalledPages(s.regions, file) = [p \in ToSet(s.trace) |-> p]
  BY DEF State, Replays, Replaying
<1>2. s.trace \in Seq(Pages(v))
  BY DEF State, SnapshotStateOK
<1> QED BY <1>1, <1>2 DEF ToSet

\* InstallWorkingSet, on values.
LEMMA InstallData ==
  ASSUME NEW v \in VMs, NEW s, NEW c, NEW file, NEW b, NEW f, NEW m, NEW ov,
         DOMAIN s = SnapshotFields, s.isActive,
         Guest(v, b, f, m, ov), State(v, s, c, file, m), Run(v, s, b, f, m), f # <<>>, Replaying(s),
         NEW t, t = FirstFault(s, f[1]),
         NEW n, n = [p \in Pages(v) |-> IF p \in ToSet(s.trace) THEN p ELSE m[p]]
  PROVE  /\ Guest(v, b, Tail(f), n, ov) /\ State(v, t, c, file, n) /\ Run(v, t, b, Tail(f), n)
         /\ t.isActive
<1>1. f \in Seq(Nat) /\ b \in Nat /\ f[1] = b
  <2>1. f \in Seq(Nat) /\ b \in Nat
    BY DEF Guest
  <2> QED BY <2>1 DEF Replaying, Run
<1>2. ToSet(s.trace) \subseteq Pages(v)
  BY Placed
<1>3. Filled(v, m) = {} /\ s.uniqueNum = 0
  BY DEF Run, Replaying
<1>4. /\ n \in [Pages(v) -> Pages(v) \cup {Absent}] /\ \A q \in Pages(v) : n[q] \in {q, Absent}
      /\ Filled(v, n) = ToSet(s.trace)
  <2>1. \A q \in Pages(v) : m[q] = Absent
    BY <1>3 DEF Filled
  <2> QED BY <1>2, <2>1, PagesFacts DEF Filled
<1>5. Guest(v, b, Tail(f), n, ov)
  BY <1>4, ServeGuest
<1>6. /\ DOMAIN t = SnapshotFields /\ t.firstFaultDone = TRUE /\ t.startAddress = f[1]
      /\ t.isActive = s.isActive /\ t.guestMem = s.guestMem
      /\ t.isEverActivated = s.isEverActivated /\ t.IsLazyMode = s.IsLazyMode
      /\ t.isRecordReady = s.isRecordReady /\ t.trace = s.trace /\ t.regions = s.regions
      /\ t.workingSet = s.workingSet /\ t.uniqueNum = s.uniqueNum /\ t.replayedNum = s.replayedNum
      /\ t.uniquePFServed = s.uniquePFServed /\ t.totalPFServed = s.totalPFServed
      /\ t.reusedPFServed = s.reusedPFServed
  BY DEF FirstFault, SnapshotFields
<1>7. SnapshotStateOK(v, s) /\ s.trace \in Seq(Pages(v)) /\ s.uniqueNum \in Nat /\ s.replayedNum \in Nat
  BY DEF State, SnapshotStateOK
<1>8. SnapshotStateOK(v, t)
  <2>1. t.firstFaultDone \in BOOLEAN /\ t.startAddress \in Nat
    BY <1>1, <1>6
  <2> QED BY <1>6, <1>7, <2>1, TypedState
<1>9. State(v, t, c, file, n)
  BY <1>6, <1>8 DEF State, Replaying
<1>10. t.uniqueNum = Cardinality(Filled(v, n) \ ToSet(t.trace))
  <2>1. Filled(v, n) \ ToSet(t.trace) = {}
    BY <1>4, <1>6
  <2> QED BY <1>3, <1>6, <2>1, FS_EmptySet
<1>11. Run(v, t, b, Tail(f), n)
  BY <1>1, <1>4, <1>6, <1>10 DEF Run, Replaying
<1> QED BY <1>5, <1>6, <1>9, <1>11

LEMMA ServeFacts ==
  ASSUME IInv, NEW v \in VMs, ServePageFault(v)
  PROVE  /\ Registered(v) /\ instances[v].isActive /\ DOMAIN instances[v] = SnapshotFields
         /\ instances[v].guestMem = TRUE
         /\ Guest(v, base[v], faults[v], mem[v], overlap[v]) /\ wsFile[v] \in Seq(Pages(v))
         /\ State(v, instances[v], cpc[v], wsFile[v], mem[v])
         /\ Run(v, instances[v], base[v], faults[v], mem[v])
         /\ faults[v] # <<>> /\ Head(faults[v]) = faults[v][1]
         /\ faults[v][1] - base[v] \in Pages(v)
<1>1. VMData(v) /\ VMControl(v)
  BY DEF IInv, ControlInv
<1>2. Registered(v) /\ instances[v].isActive /\ DOMAIN instances[v] = SnapshotFields
      /\ instances[v].guestMem = TRUE
  BY <1>1 DEF ServePageFault, VMControl, Control
<1>3. /\ Guest(v, base[v], faults[v], mem[v], overlap[v]) /\ wsFile[v] \in Seq(Pages(v))
      /\ State(v, instances[v], cpc[v], wsFile[v], mem[v])
      /\ Run(v, instances[v], base[v], faults[v], mem[v])
  BY <1>1, <1>2 DEF VMData, Data
<1>4. faults[v] # <<>> /\ faults[v] \in Seq(Nat)
  BY <1>3 DEF ServePageFault, Guest
<1>5. 1 \in 1..Len(faults[v]) /\ Head(faults[v]) = faults[v][1]
  BY <1>4
<1> QED BY <1>2, <1>3, <1>4, <1>5 DEF Guest

\* A fault that is served without an error leaves the guest memory as it should be.
LEMMA ServeData ==
  ASSUME IInv, NEW v \in VMs, ServePageFault(v), ~Fatal
  PROVE  VMData(v)' /\ UNCHANGED <<mLock, stray, overlap, crashed>>
<1> DEFINE s == instances[v]  b == base[v]  f == faults[v]  m == mem[v]  ov == overlap[v]
<1>1. Shape /\ UNCHANGED <<mLock, stray, cpc, wsFile, base, overlap, crashed>>
  BY DEF IInv, ControlInv, ServePageFault, InstallWorkingSet, ServeOnePage
<1>2. faults'[v] = Tail(f)
  BY <1>1 DEF ServePageFault, InstallWorkingSet, ServeOnePage, Wake, Shape
<1>3. /\ Registered(v) /\ s.isActive /\ DOMAIN s = SnapshotFields
      /\ Guest(v, b, f, m, ov) /\ wsFile[v] \in Seq(Pages(v)) /\ State(v, s, cpc[v], wsFile[v], m)
      /\ Run(v, s, b, f, m) /\ f # <<>> /\ Head(f) = f[1] /\ f[1] - b \in Pages(v)
  BY ServeFacts
<1>4. Registered(v)'
  BY ServedState DEF IInv
<1>6. CASE Replaying(s) /\ InstallWorkingSet(v, Head(f))
  <2>1. PICK t : t = FirstFault(s, f[1])
    OBVIOUS
  <2>2. PICK n : n = [p \in Pages(v) |-> IF p \in ToSet(s.trace) THEN p ELSE m[p]]
    OBVIOUS
  <2>3. instances'[v] = t
    BY <1>3, <1>6, <2>1, ServedState DEF IInv
  <2>4. mem'[v] = n
    <3>1. PICK placed : placed = InstalledPages(s.regions, s.workingSet)
      OBVIOUS
    <3>2. mem' = [mem EXCEPT ![v] = [p \in Pages(v) |-> IF p \in DOMAIN placed THEN placed[p] ELSE @[p]]]
      BY <1>6, <3>1 DEF InstallWorkingSet
    <3>3. mem'[v] = [p \in Pages(v) |-> IF p \in DOMAIN placed THEN placed[p] ELSE m[p]]
      BY <1>1, <3>2 DEF Shape
    <3>4. placed = [p \in ToSet(s.trace) |-> p]
      BY <1>3, <1>6, <3>1, Placed
    <3> QED BY <2>2, <3>3, <3>4
  <2>5. Guest(v, b, Tail(f), n, ov) /\ State(v, t, cpc[v], wsFile[v], n) /\ Run(v, t, b, Tail(f), n)
        /\ t.isActive
    <3> HIDE DEF s, b, f, m, ov
    <3> QED BY <1>3, <1>6, <2>1, <2>2, InstallData
  <2> QED BY <1>1, <1>2, <1>3, <1>4, <2>3, <2>4, <2>5 DEF VMData, Data
<1>7. CASE ~Replaying(s) /\ ServeOnePage(v, Head(f))
  <2> DEFINE t == Served(s, f[1])
             n == Put(m, f[1] - b, OffsetOf(s, f[1]))
  <2>1. instances'[v] = t
    BY <1>3, <1>7, ServedState DEF IInv, Served, OffsetOf, Begun
  <2>2. mem' = [mem EXCEPT ![v][f[1] - b] = OffsetOf(s, f[1])] /\ Installable(v, {f[1] - b})
    BY <1>3, <1>7 DEF ServeOnePage, OffsetOf, Begun
  <2>3. mem'[v] = n /\ m[f[1] - b] = Absent
    BY <1>1, <2>2 DEF Shape, Installable, Put
  <2>4. Guest(v, b, Tail(f), n, ov) /\ State(v, t, cpc[v], wsFile[v], n) /\ Run(v, t, b, Tail(f), n)
        /\ t.isActive
    <3> HIDE DEF s, b, f, m, ov
    <3> QED BY <1>3, <1>7, <2>3, ServeOneData
  <2> HIDE DEF t, n
  <2> QED BY <1>1, <1>2, <1>3, <1>4, <2>1, <2>3, <2>4 DEF VMData, Data
<1> QED BY <1>1, <1>6, <1>7 DEF ServePageFault

\* A guest whose threads never waited for two pages at once is served.
LEMMA FatalNeedsOverlap ==
  ASSUME IInv, NEW v \in VMs, ServePageFault(v), ~overlap[v]
  PROVE  ~Fatal
<1> DEFINE s == instances[v]  b == base[v]  f == faults[v]  m == mem[v]
<1>1. /\ s.isActive /\ DOMAIN s = SnapshotFields /\ s.guestMem = TRUE
      /\ Guest(v, b, f, m, overlap[v]) /\ State(v, s, cpc[v], wsFile[v], m)
      /\ Run(v, s, b, f, m) /\ f # <<>> /\ Head(f) = f[1] /\ f[1] - b \in Pages(v)
  BY ServeFacts
<1>2. f \in Seq(Nat) /\ b \in Nat /\ f[1] \in Nat /\ 1 \in 1..Len(f)
  <2>1. f \in Seq(Nat) /\ b \in Nat
    BY <1>1 DEF Guest
  <2> QED BY <1>1, <2>1
<1>3. m[f[1] - b] = Absent
  BY <1>1, <1>2 DEF Guest
<1>4. ~crashed
  BY DEF ServePageFault
<1>5. CASE Replaying(s) /\ InstallWorkingSet(v, Head(f))
  <2>1. PICK placed : placed = InstalledPages(s.regions, s.workingSet)
    OBVIOUS
  <2>2. placed = [p \in ToSet(s.trace) |-> p] /\ ToSet(s.trace) \subseteq Pages(v)
    BY <1>1, <1>5, <2>1, Placed
  <2>3. DOMAIN placed \subseteq Pages(v)
    BY <2>2
  <2>4. Installable(v, DOMAIN placed)
    BY <1>1, <1>5, <2>3 DEF Installable, Replaying, Run, Filled
  <2>5. crashed' = crashed
    BY <1>5, <2>1, <2>4 DEF InstallWorkingSet
  <2> QED BY <1>4, <2>5 DEF Fatal
<1>6. CASE ~Replaying(s) /\ ServeOnePage(v, Head(f))
  <2>1. PICK u : u = (IF s.firstFaultDone THEN s ELSE FirstFault(s, f[1]))
    OBVIOUS
  <2>2. u.startAddress = b /\ u.guestMem = TRUE
    <3> HIDE DEF s, b, f, m
    <3>1. CASE s.firstFaultDone
      BY <1>1, <2>1, <3>1 DEF Run
    <3>2. CASE ~s.firstFaultDone
      BY <1>1, <2>1, <3>2 DEF Run, FirstFault, SnapshotFields
    <3> QED BY <3>1, <3>2
  <2>3. PICK p : p = f[1] - b
    OBVIOUS
  <2>4. \A q \in {p} : m[q] = Absent
    BY <1>3, <2>3
  <2>5. Installable(v, {Head(f) - base[v]})
    BY <1>1, <2>3, <2>4 DEF Installable
  <2>6. (Head(f) - u.startAddress) \in Pages(v)
    BY <1>1, <2>2
  <2>7. crashed' = crashed
    BY <1>1, <1>6, <2>1, <2>2, <2>5, <2>6 DEF ServeOnePage
  <2> QED BY <1>4, <2>7 DEF Fatal
<1> QED BY <1>5, <1>6 DEF ServePageFault

\* ProcessMetrics keeps the lists of the statistics typed: no run reuses a negative number
\* of pages.
LEMMA MeteredTyped ==
  ASSUME NEW v \in VMs, NEW s, NEW b, NEW f, NEW m, DOMAIN s = SnapshotFields, SnapshotStateOK(v, s),
         Run(v, s, b, f, m), NEW t, t = ProcessMetrics(s)
  PROVE  /\ t.uniquePFServed \in Seq(Nat) /\ t.totalPFServed \in Seq(Nat) /\ t.reusedPFServed \in Seq(Nat)
<1>1. /\ s.uniqueNum \in Nat /\ s.replayedNum \in Nat
      /\ s.uniquePFServed \in Seq(Nat) /\ s.totalPFServed \in Seq(Nat) /\ s.reusedPFServed \in Seq(Nat)
  BY DEF SnapshotStateOK
<1>2. s.isRecordReady /\ s.IsLazyMode => s.replayedNum - s.uniqueNum \in Nat
  <2>1. CASE s.firstFaultDone
    <3>1. /\ Cardinality(Filled(v, m)) \in Nat /\ Cardinality(Filled(v, m) \ ToSet(s.trace)) \in Nat
          /\ Cardinality(Filled(v, m) \ ToSet(s.trace)) <= Cardinality(Filled(v, m))
      BY FilledFinite
    <3> QED BY <2>1, <3>1 DEF Run
  <2>2. CASE ~s.firstFaultDone
    BY <2>2 DEF Run
  <2> QED BY <2>1, <2>2
<1>3. /\ \/ t.uniquePFServed = s.uniquePFServed
         \/ s.isRecordReady /\ t.uniquePFServed = Append(s.uniquePFServed, s.uniqueNum)
      /\ \/ t.totalPFServed = s.totalPFServed
         \/ s.isRecordReady /\ s.IsLazyMode /\ t.totalPFServed = Append(s.totalPFServed, s.replayedNum)
      /\ \/ t.reusedPFServed = s.reusedPFServed
         \/ s.isRecordReady /\ s.IsLazyMode
            /\ t.reusedPFServed = Append(s.reusedPFServed, s.replayedNum - s.uniqueNum)
  BY MeteredState
<1>4. \A x \in Seq(Nat) : \A y \in Nat : Append(x, y) \in Seq(Nat)
  OBVIOUS
<1>5. t.uniquePFServed \in Seq(Nat) /\ t.totalPFServed \in Seq(Nat)
  BY ONLY <1>1, <1>3, <1>4
<1>6. t.reusedPFServed \in Seq(Nat)
  BY ONLY <1>1, <1>2, <1>3, <1>4
<1> QED BY <1>5, <1>6

LEMMA RecordProcessed ==
  ASSUME TracesReplay, NEW v \in VMs, NEW t \in Seq(Pages(v)), Recordable(t)
  PROVE  /\ SortedRecords(t) \in Seq(Pages(v)) /\ DOMAIN BuildRegions(t) \subseteq Pages(v)
         /\ WorkingSetFile(BuildRegions(t)) \in Seq(Pages(v))
         /\ Replays(SortedRecords(t), BuildRegions(t), WorkingSetFile(BuildRegions(t)))
<1>1. ReplayExact(t)
  BY DEF TracesReplay
<1>2. ToSet(t) \subseteq Pages(v)
  BY DEF ToSet
<1>3. /\ SortedRecords(t) \in Seq(ToSet(t)) /\ Len(SortedRecords(t)) = Len(t)
      /\ ToSet(SortedRecords(t)) = ToSet(t)
      /\ AreRunsOf(BuildRegions(t), ToSet(t))
      /\ WorkingSetFile(BuildRegions(t)) \in Seq(ToSet(t)) /\ Len(WorkingSetFile(BuildRegions(t))) = Len(t)
      /\ InstalledPages(BuildRegions(t), WorkingSetFile(BuildRegions(t))) = [p \in ToSet(t) |-> p]
  BY <1>1 DEF ReplayExact
<1>4. DOMAIN BuildRegions(t) \subseteq Pages(v)
  BY <1>2, <1>3 DEF AreRunsOf, RunStarts
<1>5. \A S, x : x \in Seq(S) /\ S \subseteq Pages(v) => x \in Seq(Pages(v))
  OBVIOUS
<1>6. SortedRecords(t) \in Seq(Pages(v)) /\ WorkingSetFile(BuildRegions(t)) \in Seq(Pages(v))
  BY <1>2, <1>3, <1>5
<1>7. Replays(SortedRecords(t), BuildRegions(t), WorkingSetFile(BuildRegions(t)))
  BY ONLY <1>3 DEF Replays
<1> QED BY <1>4, <1>6, <1>7

\* The state of a VM after Deactivate, on values.
LEMMA FinishedData ==
  ASSUME TracesReplay, NEW v \in VMs, NEW s, NEW c, NEW file, NEW b, NEW f, NEW m, NEW n, NEW ov,
         DOMAIN s = SnapshotFields, s.isActive, file \in Seq(Pages(v)),
         State(v, s, c, file, m), Run(v, s, b, f, m), Filled(v, n) = {},
         NEW r, r = ProcessMetrics(s),
         NEW t, t = (IF ~r.isRecordReady /\ ~r.IsLazyMode THEN ProcessRecord(r) ELSE r),
         NEW g, g = (IF ~r.isRecordReady /\ ~r.IsLazyMode THEN WorkingSetFile(t.regions) ELSE file),
         NEW d, d = Deactivated(t)
  PROVE  State(v, d, "idle", g, n) /\ g \in Seq(Pages(v)) /\ ~d.isActive
<1>1. SnapshotStateOK(v, s)
  BY DEF State
<1>2. /\ DOMAIN r = SnapshotFields
      /\ r.isEverActivated = s.isEverActivated /\ r.firstFaultDone = s.firstFaultDone
      /\ r.IsLazyMode = s.IsLazyMode /\ r.isRecordReady = s.isRecordReady /\ r.startAddress = s.startAddress
      /\ r.trace = s.trace /\ r.regions = s.regions /\ r.workingSet = s.workingSet
      /\ r.uniqueNum = s.uniqueNum /\ r.replayedNum = s.replayedNum
  BY MeteredState
<1>3. r.uniquePFServed \in Seq(Nat) /\ r.totalPFServed \in Seq(Nat) /\ r.reusedPFServed \in Seq(Nat)
  BY <1>1, MeteredTyped
<1>4. /\ DOMAIN t = SnapshotFields
      /\ t.isEverActivated = s.isEverActivated /\ t.firstFaultDone = s.firstFaultDone
      /\ t.IsLazyMode = s.IsLazyMode /\ t.startAddress = s.startAddress /\ t.workingSet = s.workingSet
      /\ t.uniqueNum = s.uniqueNum /\ t.replayedNum = s.replayedNum
      /\ t.uniquePFServed = r.uniquePFServed /\ t.totalPFServed = r.totalPFServed
      /\ t.reusedPFServed = r.reusedPFServed
  BY <1>2 DEF ProcessRecord, SnapshotFields
<1>5. /\ d.isActive = FALSE /\ d.guestMem = FALSE /\ d.isRecordReady = TRUE
      /\ d.isEverActivated = s.isEverActivated /\ d.firstFaultDone = s.firstFaultDone
      /\ d.IsLazyMode = s.IsLazyMode /\ d.startAddress = s.startAddress
      /\ d.trace = t.trace /\ d.regions = t.regions /\ d.workingSet = s.workingSet
      /\ d.uniqueNum = s.uniqueNum /\ d.replayedNum = s.replayedNum
      /\ d.uniquePFServed = r.uniquePFServed /\ d.totalPFServed = r.totalPFServed
      /\ d.reusedPFServed = r.reusedPFServed
  <2>1. DOMAIN t = SnapshotFields
    BY <1>4
  <2>2. /\ d.isActive = FALSE /\ d.guestMem = FALSE /\ d.isRecordReady = TRUE
        /\ d.isEverActivated = t.isEverActivated /\ d.firstFaultDone = t.firstFaultDone
        /\ d.IsLazyMode = t.IsLazyMode /\ d.startAddress = t.startAddress
        /\ d.trace = t.trace /\ d.regions = t.regions /\ d.workingSet = t.workingSet
        /\ d.uniqueNum = t.uniqueNum /\ d.replayedNum = t.replayedNum
        /\ d.uniquePFServed = t.uniquePFServed /\ d.totalPFServed = t.totalPFServed
        /\ d.reusedPFServed = t.reusedPFServed
    BY ONLY <2>1, d = Deactivated(t) DEF Deactivated, SnapshotFields
  <2> QED BY ONLY <1>4, <2>2
<1>6. /\ t.trace \in Seq(Pages(v)) /\ DOMAIN t.regions \subseteq Pages(v) /\ g \in Seq(Pages(v))
      /\ ~s.IsLazyMode => Replays(t.trace, t.regions, g)
  <2>1. CASE ~r.isRecordReady /\ ~r.IsLazyMode
    <3>1. t.trace = SortedRecords(s.trace) /\ t.regions = BuildRegions(s.trace) /\ g = WorkingSetFile(BuildRegions(s.trace))
      BY <1>2, <2>1 DEF ProcessRecord, SnapshotFields
    <3>2. s.trace \in Seq(Pages(v))
      BY <1>1 DEF SnapshotStateOK
    <3>3. Recordable(s.trace)
      <4>1. NoRepeats(s.trace) /\ ToSet(s.trace) = Filled(v, m)
        BY <1>2, <2>1 DEF State
      <4>2. CASE s.firstFaultDone
        BY <1>2, <2>1, <4>1, <4>2 DEF Recordable, Run
      <4>3. CASE ~s.firstFaultDone
        <5>1. ToSet(s.trace) = {}
          BY <4>1, <4>3 DEF Run
        <5>2. s.trace = <<>>
          BY <3>2, <5>1 DEF ToSet
        <5> QED BY <4>1, <5>2 DEF Recordable
      <4> QED BY <4>2, <4>3
    <3>4. /\ SortedRecords(s.trace) \in Seq(Pages(v)) /\ DOMAIN BuildRegions(s.trace) \subseteq Pages(v)
          /\ WorkingSetFile(BuildRegions(s.trace)) \in Seq(Pages(v))
          /\ Replays(SortedRecords(s.trace), BuildRegions(s.trace), WorkingSetFile(BuildRegions(s.trace)))
      BY ONLY TracesReplay, v \in VMs, <3>2, <3>3, RecordProcessed
    <3> QED BY ONLY <3>1, <3>4
  <2>2. CASE r.isRecordReady \/ r.IsLazyMode
    <3>1. t = r /\ g = file
      BY <2>2
    <3>2. s.trace \in Seq(Pages(v)) /\ DOMAIN s.regions \subseteq Pages(v)
      BY <1>1 DEF SnapshotStateOK
    <3>3. ~s.IsLazyMode => Replays(s.trace, s.regions, file)
      BY <1>2, <2>2 DEF State
    <3> QED BY <1>2, <3>1, <3>2, <3>3
  <2> QED BY <2>1, <2>2
<1>7. SnapshotStateOK(v, d)
  <2>1. {d.IsLazyMode, d.isEverActivated, d.isActive, d.isRecordReady, d.firstFaultDone, d.guestMem} \subseteq BOOLEAN
    BY ONLY <1>1, <1>5 DEF SnapshotStateOK
  <2>2. d.startAddress \in Nat /\ d.workingSet \in Seq(Pages(v) \cup {Absent})
        /\ {d.uniqueNum, d.replayedNum} \subseteq Nat
    BY ONLY <1>1, <1>5 DEF SnapshotStateOK
  <2>3. d.trace \in Seq(Pages(v)) /\ DOMAIN d.regions \subseteq Pages(v)
    BY ONLY <1>5, <1>6
  <2>4. {d.uniquePFServed, d.totalPFServed, d.reusedPFServed} \subseteq Seq(Nat)
    BY ONLY <1>3, <1>5
  <2> QED BY ONLY <2>1, <2>2, <2>3, <2>4 DEF SnapshotStateOK
<1>8. State(v, d, "idle", g, n)
  BY ONLY <1>5, <1>6, <1>7 DEF State
<1> QED BY <1>5, <1>6, <1>8

LEMMA FinishData ==
  ASSUME TracesReplay, IInv, NEW v \in VMs, DeactivateFinish(v)
  PROVE  VMData(v)'
<1> DEFINE s == instances[v]  r == Metered(v)  t == Finished(v)
           g == IF Recording(v) THEN WorkingSetFile(t.regions) ELSE wsFile[v]  d == Deactivated(t)
           n == [p \in Pages(v) |-> Absent]
<1>1. VMData(v) /\ VMControl(v) /\ Shape
  BY DEF IInv, ControlInv
<1>2. Registered(v) /\ s.isActive /\ DOMAIN s = SnapshotFields
  BY <1>1 DEF DeactivateFinish, At, VMControl, Control
<1>3. /\ Guest(v, base[v], faults[v], mem[v], overlap[v]) /\ wsFile[v] \in Seq(Pages(v))
      /\ State(v, s, cpc[v], wsFile[v], mem[v]) /\ Run(v, s, base[v], faults[v], mem[v])
  BY <1>1, <1>2 DEF VMData, Data
<1>4. /\ Registered(v)' /\ instances'[v] = d /\ wsFile'[v] = g
      /\ faults'[v] = <<>> /\ mem'[v] = n /\ base'[v] = 0 /\ cpc'[v] = "idle" /\ overlap' = overlap
  BY <1>1, <1>2, FinishedState
<1>5. Filled(v, n) = {}
  BY DEF Filled
<1>6. Guest(v, 0, <<>>, n, overlap[v])
  BY <1>3 DEF Guest
<1>7. State(v, d, "idle", g, n) /\ g \in Seq(Pages(v)) /\ ~d.isActive
  <2>1. /\ r = ProcessMetrics(s)
        /\ t = (IF ~r.isRecordReady /\ ~r.IsLazyMode THEN ProcessRecord(r) ELSE r)
        /\ g = (IF ~r.isRecordReady /\ ~r.IsLazyMode THEN WorkingSetFile(t.regions) ELSE wsFile[v])
        /\ d = Deactivated(t)
    BY DEF Metered, Finished, Recording
  <2> HIDE DEF s, r, t, g, d, n
  <2> QED BY <1>2, <1>3, <1>5, <2>1, FinishedData
<1> HIDE DEF s, d, g, n
<1> QED BY <1>4, <1>5, <1>6, <1>7 DEF VMData, Data

-----------------------------------------------------------------------------
LEMMA InitData == Init => IInv
<1> SUFFICES ASSUME Init PROVE IInv
  OBVIOUS
<1>1. ControlInv
  BY DEF Init, NoInstances, ControlInv, Shape, VMControl, Control, Registered, CallerLabels, PollerLabels
<1>2. ASSUME NEW v \in VMs
      PROVE  VMData(v)
  <2>1. /\ ~Registered(v) /\ base[v] = 0 /\ faults[v] = <<>> /\ overlap[v] = FALSE /\ wsFile[v] = <<>>
    BY DEF Init, NoInstances, Registered
  <2>2. mem[v] = [p \in Pages(v) |-> Absent]
    BY DEF Init
  <2>3. Filled(v, mem[v]) = {}
    BY <2>2 DEF Filled
  <2>4. mem[v] \in [Pages(v) -> Pages(v) \cup {Absent}] /\ \A p \in Pages(v) : mem[v][p] \in {p, Absent}
    BY <2>2
  <2>5. Guest(v, 0, <<>>, mem[v], FALSE)
    BY <2>4 DEF Guest
  <2>6. wsFile[v] \in Seq(Pages(v))
    BY <2>1
  <2> QED BY <2>1, <2>3, <2>5, <2>6 DEF VMData, Data
<1> QED BY <1>1, <1>2 DEF Init, IInv, FatalOnlyOnOverlap

LEMMA StepData ==
  ASSUME TracesReplay, IInv, NEW v \in VMs, Step(v)
  PROVE  IInv'
<1>1. Shape /\ ControlInv' /\ Others(v) /\ mLock \in BOOLEAN /\ stray \in BOOLEAN /\ crashed \in BOOLEAN
  BY ControlStep, StepFrame DEF IInv, ControlInv
<1>2. CASE RegisterVM(v) \/ DeregisterVM(v)
  <2>1. UNCHANGED <<mLock, stray, overlap, crashed>>
    BY <1>2 DEF RegisterVM, DeregisterVM, guestVars
  <2> QED BY <1>1, <1>2, <2>1, RegisterData, NoCrash
<1>3. CASE \/ LookupFails(v) \/ DumpStats(v) \/ Deactivate(v) \/ UnmapFails(v)
           \/ (\E op \in Operations : Call(v, op)) \/ PollerReady(v) \/ PollLoop(v)
  <2>1. UNCHANGED <<overlap, crashed>> /\ mLock' \in {mLock, TRUE} /\ stray' \in {stray, TRUE}
    BY <1>3 DEF LookupFails, DumpStats, Deactivate, UnmapFails, Call, PollerReady, PollLoop, guestVars
  <2>2. mLock' \in BOOLEAN /\ stray' \in BOOLEAN
    BY <1>1, <2>1
  <2> QED BY <1>3, <2>1, <2>2, CallData, NoCrash
<1>4. CASE FetchState(v) \/ ActivateMap(v) \/ GetUFFD(v)
  <2>1. UNCHANGED <<mLock, stray, overlap, crashed>>
    BY <1>4 DEF FetchState, ActivateMap, GetUFFD, guestVars
  <2> QED BY <1>1, <1>4, <2>1, FetchData, MapData, UffdData, NoCrash
<1>5. CASE DeactivateFinish(v)
  <2>1. UNCHANGED <<mLock, stray, overlap, crashed>>
    BY <1>5 DEF DeactivateFinish
  <2> QED BY <1>1, <1>5, <2>1, FinishData, NoCrash
<1>6. CASE \E p \in Pages(v) : PageFault(v, p)
  <2>1. UNCHANGED <<mLock, stray, crashed>> /\ ~crashed
    BY <1>6 DEF PageFault
  <2>2. VMData(v)'
    BY <1>6, FaultData
  <2>3. FatalOnlyOnOverlap'
    BY <2>1 DEF FatalOnlyOnOverlap
  <2> QED BY <1>1, <2>1, <2>2, <2>3, OthersData
<1>7. CASE ServePageFault(v)
  <2>1. CASE ~Fatal
    <3>1. VMData(v)' /\ UNCHANGED <<mLock, stray, overlap, crashed>>
      BY <1>7, <2>1, ServeData
    <3> QED BY <1>1, <3>1, NoCrash
  <2>2. CASE Fatal
    <3>1. overlap[v]
      BY <1>7, <2>2, FatalNeedsOverlap
    <3>2. crashed' = TRUE /\ UNCHANGED <<mLock, stray, instances, cpc, poller, wsFile, base, faults, mem, overlap>>
      BY <2>2 DEF Fatal, guestVars
    <3>3. FatalOnlyOnOverlap'
      BY <3>1, <3>2 DEF FatalOnlyOnOverlap
    <3>4. VMData(v)'
      BY <3>2 DEF IInv, VMData, Registered
    <3> QED BY <1>1, <3>2, <3>3, <3>4, OthersData
  <2> QED BY <2>1, <2>2
<1> QED BY <1>2, <1>3, <1>4, <1>5, <1>6, <1>7 DEF Step

\* The inductive invariant of the memory manager.
THEOREM MemoryInvariant == ASSUME TracesReplay PROVE Spec => []IInv
<1>1. Init => IInv
  BY InitData
<1>2. IInv /\ [Next]_vars => IInv'
  <2>1. ASSUME IInv, Next
        PROVE  IInv'
    BY <2>1, NextIsStep, StepData
  <2>2. ASSUME IInv, UNCHANGED vars
        PROVE  IInv'
    BY <2>2 DEF vars, guestVars, IInv, ControlInv, Shape, VMControl, Registered, VMData, FatalOnlyOnOverlap
  <2> QED BY <2>1, <2>2
<1> QED BY <1>1, <1>2, PTL DEF Spec

\* Every variable of the memory manager keeps its type; in particular no run reports a
\* negative number of reused pages (snapshot_state.go 229-246).
THEOREM MemoryTypeCorrect == ASSUME TracesReplay PROVE Spec => []TypeOK
<1>1. IInv => TypeOK
  <2> SUFFICES ASSUME IInv, NEW v \in VMs
               PROVE  /\ {mLock, stray, crashed} \subseteq BOOLEAN
                      /\ Registered(v) => SnapshotStateOK(v, instances[v])
                      /\ cpc[v] \in CallerLabels /\ poller[v] \in PollerLabels
                      /\ wsFile[v] \in Seq(Pages(v)) /\ base[v] \in Nat /\ faults[v] \in Seq(Nat)
                      /\ mem[v] \in [Pages(v) -> Pages(v) \cup {Absent}] /\ overlap[v] \in BOOLEAN
                      /\ unmapFailed[v] \in BOOLEAN
    BY DEF TypeOK, CallerLabels, PollerLabels, IInv
  <2>1. VMControl(v) /\ VMData(v)
    BY DEF IInv, ControlInv
  <2> QED BY <2>1 DEF IInv, VMControl, Control, VMData, Data, Guest, State
<1> QED BY <1>1, MemoryInvariant, PTL

\* The guest never sees a wrong page, however its faults, the recording and the replays of
\* all VMs interleave (snapshot_state.go 378-469).
THEOREM GuestMemoryCorrect == ASSUME TracesReplay PROVE Spec => []GuestMemoryFaithful
<1>1. IInv => GuestMemoryFaithful
  BY DEF IInv, VMData, Data, Guest, GuestMemoryFaithful
<1> QED BY <1>1, MemoryInvariant, PTL

\* The counters of a replayed run are exact at every moment (snapshot_state.go 415-426).
THEOREM StatsCorrect == ASSUME TracesReplay PROVE Spec => []StatsExact
<1>1. IInv => StatsExact
  <2> SUFFICES ASSUME IInv, NEW v \in VMs, Active(v), instances[v].isRecordReady, instances[v].firstFaultDone
               PROVE  /\ instances[v].uniqueNum = Cardinality(Resident(v) \ ToSet(instances[v].trace))
                      /\ instances[v].IsLazyMode => instances[v].replayedNum = Cardinality(Resident(v))
    BY DEF StatsExact
  <2>1. Run(v, instances[v], base[v], faults[v], mem[v])
    BY DEF IInv, VMData, Data, Active
  <2>2. Resident(v) = Filled(v, mem[v])
    BY DEF Resident, Filled
  <2> QED BY <2>1, <2>2 DEF Run
<1> QED BY <1>1, MemoryInvariant, PTL

\* The daemon never dies serving the faults of guests whose threads do not wait for two
\* pages at once (snapshot_state.go 331-333, 461-463).
THEOREM FatalCorrect == ASSUME TracesReplay PROVE Spec => []FatalOnlyOnOverlap
<1>1. IInv => FatalOnlyOnOverlap
  BY DEF IInv
<1> QED BY <1>1, MemoryInvariant, PTL
=============================================================================
