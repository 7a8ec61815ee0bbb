------------------------------ MODULE FuncPool ------------------------------
(***************************************************************************)
(* The function pool, its statistics and the RPCs of the daemon            *)
(* (functions.go, stats.go, vhive.go).  Requests for several functions run *)
(* concurrently; a function is created by the first request that names it  *)
(* and its instance by the first one that needs it.  What a function does  *)
(* with its instance afterwards is the subject of FuncServe.               *)
(***************************************************************************)
EXTENDS Dialer, Integers, FiniteSets, Sequences

CONSTANTS
  Functions,      \* fIDs
  IntOf,          \* strconv.Atoi of each of them, NotANumber if it fails
  Images,         \* images that clients ask for
  Requests,       \* RPCs, one each
  Nobody, NotANumber, Absent,
  ServedThs,      \* values of the flag -st
  PinnedFuncNums, \* values of the flag -hn
  Draws,          \* bound: values that rand.NormFloat64() * stddev takes
  MaxDials,       \* bound: dials of a function before the 60 seconds are over
  Prompt          \* bound: functions whose guests accept the first dial at once

Bogus == "bogus imageName"

ASSUME FuncPoolAssumption ==
  /\ Nobody \notin Requests /\ Bogus \notin Images /\ NotANumber \notin Int
  /\ Absent \notin [served : Nat, started : Nat]
  /\ Absent \notin [imageName : Images \cup {Bogus}, isPinnedInMem : BOOLEAN, servedTh : Nat]
  /\ ServedThs \subseteq Nat /\ PinnedFuncNums \subseteq Int /\ Draws \subseteq Int
  /\ MaxDials \in Nat \ {0} /\ Prompt \subseteq Functions

VARIABLES
  saveMemoryMode, servedTh, pinnedFuncNum,  \* the pool's options
  lock,      \* FuncPool's mutex
  funcMap,   \* fID -> Function, Absent if there is none
  statMap,   \* fID -> FuncStat, Absent if there is none
  pc, req,   \* where each RPC is and what it asks for
  instance,  \* per function: none, starting, up
  dials,     \* the calls of timeoutDialer for each function
  beat,      \* the heartbeat goroutine
  raced,     \* statMap was read during a write
  cause      \* why the daemon died, "" while it runs

options == <<saveMemoryMode, servedTh, pinnedFuncNum>>
vars == <<options, lock, funcMap, statMap, pc, req, instance, dials, beat, raced, cause>>

Init ==
  /\ saveMemoryMode \in BOOLEAN /\ servedTh \in ServedThs /\ pinnedFuncNum \in PinnedFuncNums
  /\ lock = Nobody
  /\ funcMap = [f \in Functions |-> Absent]
  /\ statMap = [f \in Functions |-> Absent]
  /\ pc = [r \in Requests |-> "new"]
  /\ req = [r \in Requests |-> Absent]
  /\ instance = [f \in Functions |-> "none"]
  /\ dials = [f \in Functions |-> <<>>]
  /\ beat = "idle" /\ raced = FALSE /\ cause = ""

Running == cause = ""
At(r, l) == Running /\ pc[r] = l
Goto(r, l) == pc' = [pc EXCEPT ![r] = l]
Func(r) == req[r].fID

Panic(why) ==
  /\ cause' = why
  /\ UNCHANGED <<options, lock, funcMap, statMap, pc, req, instance, dials, beat, raced>>

-----------------------------------------------------------------------------
(* The RPCs and getFunction. *)

\* FwdHello and StartVM serve; StopSingleVM removes under a made-up image name;
\* AddInstance and the two Dump calls name the function as well.
Arrive(r, op, f, image) ==
  /\ At(r, "new")
  /\ (op = "remove") <=> (image = Bogus)
  /\ req' = [req EXCEPT ![r] = [op |-> op, fID |-> f, imageName |-> image]]
  /\ Goto(r, "getFunction")
  /\ UNCHANGED <<options, lock, funcMap, statMap, instance, dials, beat, raced, cause>>

\* Mutant: the lookup is skipped.
NeverFound(f) == FALSE

Found(f) == funcMap[f] # Absent

GetFunction(r) ==
  /\ At(r, "getFunction") /\ lock = Nobody
  /\ \/ Found(Func(r)) /\ Goto(r, "found") /\ UNCHANGED lock
     \/ ~Found(Func(r)) /\ Goto(r, "create") /\ lock' = r
  /\ UNCHANGED <<options, funcMap, statMap, req, instance, dials, beat, raced, cause>>

IsToPin(f) == ~(saveMemoryMode /\ IntOf[f] # NotANumber /\ IntOf[f] > pinnedFuncNum)

\* Mutant: zero is taken for a threshold.
ThresholdNegativeOnly(draw) ==
  LET thresh == IF servedTh \div 2 = 0 THEN servedTh ELSE servedTh + draw
  IN  IF thresh < 0 THEN servedTh ELSE thresh

\* A draw from a normal distribution with mean servedTh and deviation servedTh/2, in
\* whole requests; what is not positive is replaced by servedTh.
Threshold(draw) ==
  LET thresh == IF servedTh \div 2 = 0 THEN servedTh ELSE servedTh + draw
  IN  IF thresh <= 0 THEN servedTh ELSE thresh

\* Mutant: the function is published without its FuncStat.
NewFunctionNoStats(r) ==
  /\ At(r, "create")
  /\ \E draw \in Draws :
        funcMap' = [funcMap EXCEPT ![Func(r)] =
          [imageName |-> req[r].imageName, isPinnedInMem |-> IsToPin(Func(r)),
           servedTh |-> Threshold(draw)]]
  /\ Goto(r, "found") /\ lock' = Nobody
  /\ UNCHANGED <<options, statMap, req, instance, dials, beat, raced, cause>>

NewFunction(r) ==
  /\ At(r, "create")
  /\ \E draw \in Draws :
        funcMap' = [funcMap EXCEPT ![Func(r)] =
          [imageName |-> req[r].imageName, isPinnedInMem |-> IsToPin(Func(r)),
           servedTh |-> Threshold(draw)]]
  /\ Goto(r, "createStats")
  /\ UNCHANGED <<options, lock, statMap, req, instance, dials, beat, raced, cause>>

-----------------------------------------------------------------------------
(* Stats: a plain map, written under the pool's lock and read without it. *)

\* Between NewFunction and the end of CreateStats the map is being written.
StatsWriter == \E r \in Requests : pc[r] = "createStats"

\* The Go runtime kills the process when it notices.
RaceFatal(conflict) == conflict /\ cause' = "statMap"

\* Mutant: no deferred Unlock.
KeepLock == UNCHANGED lock

Unlock == lock' = Nobody

CreateStats(r) ==
  /\ At(r, "createStats")
  /\ raced' = (raced \/ beat = "printing")
  /\ \/ RaceFatal(beat = "printing") /\ UNCHANGED <<lock, statMap, pc>>
     \/ /\ statMap[Func(r)] # Absent
        /\ cause' = "statExists" /\ UNCHANGED <<lock, statMap, pc>>
     \/ /\ statMap[Func(r)] = Absent
        /\ statMap' = [statMap EXCEPT ![Func(r)] = [served |-> 0, started |-> 0]]
        /\ Unlock
        /\ Goto(r, "found")
        /\ UNCHANGED cause
  /\ UNCHANGED <<options, funcMap, req, instance, dials, beat>>

\* One access to the function's FuncStat by an RPC; next is where the RPC goes on.
WithStat(r, field, value, next) ==
  /\ raced' = (raced \/ StatsWriter)
  /\ \/ RaceFatal(StatsWriter) /\ UNCHANGED <<statMap, pc>>
     \/ statMap[Func(r)] = Absent /\ cause' = "nilStat" /\ UNCHANGED <<statMap, pc>>
     \/ /\ statMap[Func(r)] # Absent
        /\ statMap' = [statMap EXCEPT ![Func(r)] = [@ EXCEPT ![field] = value]]
        /\ Goto(r, next)
        /\ UNCHANGED cause

\* SprintStats, every 60 seconds.
HeartbeatBegin ==
  /\ Running /\ beat = "idle"
  /\ raced' = (raced \/ StatsWriter)
  /\ \/ RaceFatal(StatsWriter) /\ UNCHANGED beat
     \/ beat' = "printing" /\ UNCHANGED cause
  /\ UNCHANGED <<options, lock, funcMap, statMap, pc, req, instance, dials>>

HeartbeatEnd ==
  /\ Running /\ beat = "printing"
  /\ beat' = "idle"
  /\ UNCHANGED <<options, lock, funcMap, statMap, pc, req, instance, dials, raced, cause>>

-----------------------------------------------------------------------------
(* What the RPC does with the function. *)

\* Serve: a function that is not pinned takes a permit of a semaphore of size servedTh;
\* of size zero it never gets one.  (When one is free, if ever, is FuncServe's subject.)
Acquire(r) ==
  /\ At(r, "found") /\ req[r].op = "serve"
  /\ funcMap[Func(r)].isPinnedInMem \/ funcMap[Func(r)].servedTh > 0
  /\ Goto(r, "acquired")
  /\ UNCHANGED <<options, lock, funcMap, statMap, req, instance, dials, beat, raced, cause>>

IncServed(r) ==
  /\ At(r, "acquired")
  /\ WithStat(r, "served", statMap[Func(r)].served + 1, "once")
  /\ UNCHANGED <<options, lock, funcMap, req, instance, dials, beat>>

\* AddInstance goes straight to OnceAddInstance; Dump asks the orchestrator and returns.
AddOrDump(r) ==
  /\ At(r, "found") /\ req[r].op \in {"add", "dump"}
  /\ Goto(r, IF req[r].op = "add" THEN "once" ELSE "done")
  /\ UNCHANGED <<options, lock, funcMap, statMap, req, instance, dials, beat, raced, cause>>

\* RemoveInstance waits for f.Lock.  Without a VM in the orchestrator's pool the daemon
\* panics; after a retirement the VM may still be there, offloaded or not yet stopped.
Remove(r) ==
  /\ At(r, "found") /\ req[r].op = "remove"
  /\ \/ instance[Func(r)] = "none" /\ Panic("noInstance")
     \/ /\ \/ instance[Func(r)] = "up"
           \/ instance[Func(r)] = "none" /\ dials[Func(r)] # <<>>
        /\ instance' = [instance EXCEPT ![Func(r)] = "none"]
        /\ Goto(r, "done")
        /\ UNCHANGED <<options, lock, funcMap, statMap, req, dials, beat, raced, cause>>

AfterOnce(r) == IF req[r].op = "serve" THEN "forward" ELSE "done"

OnceAddInstance(r) ==
  /\ At(r, "once")
  /\ \/ /\ instance[Func(r)] = "up"
        /\ Goto(r, AfterOnce(r)) /\ UNCHANGED instance
     \/ /\ instance[Func(r)] = "none"
        /\ instance' = [instance EXCEPT ![Func(r)] = "starting"]
        /\ Goto(r, "startVM")
  /\ UNCHANGED <<options, lock, funcMap, statMap, req, dials, beat, raced, cause>>

\* timeoutDialer for a guest that is already listening.
Answered == [NewAttempt EXCEPT !.caller = "connected", !.worker = "ended", !.conn = "returned"]

\* orch.StartVM with the image of the function, not of the request, then the first dial.
StartVM(r) ==
  /\ At(r, "startVM")
  /\ \/ Panic("startVM")
     \/ /\ funcMap[Func(r)].imageName # Bogus
        /\ dials' = [dials EXCEPT ![Func(r)] = Append(@,
             IF Func(r) \in Prompt THEN Answered ELSE NewAttempt)]
        /\ Goto(r, "dial")
        /\ UNCHANGED <<options, lock, funcMap, statMap, req, instance, beat, raced, cause>>

\* A step of the goroutines of timeoutDialer to one of the attempts in next.
DialStep(f, i, next) ==
  /\ Running
  /\ \E a \in next : dials' = [dials EXCEPT ![f][i] = a]
  /\ UNCHANGED <<options, lock, funcMap, statMap, pc, req, instance, beat, raced, cause>>

\* grpc.DialContext: dial again after a timeout until the context is over.
Dialled(r) ==
  /\ At(r, "dial")
  /\ LET last == dials[Func(r)][Len(dials[Func(r)])]
     IN  \/ /\ last.caller = "connected"
            /\ Goto(r, "started") /\ UNCHANGED <<dials, cause>>
         \/ /\ last.caller = "timeout" /\ Len(dials[Func(r)]) < MaxDials
            /\ dials' = [dials EXCEPT ![Func(r)] = Append(@, NewAttempt)]
            /\ UNCHANGED <<pc, cause>>
         \/ /\ last.caller = "timeout" /\ Len(dials[Func(r)]) >= MaxDials
            /\ cause' = "dial" /\ UNCHANGED <<pc, dials>>
  /\ UNCHANGED <<options, lock, funcMap, statMap, req, instance, beat, raced>>

IncStarted(r) ==
  /\ At(r, "started")
  /\ instance' = [instance EXCEPT ![Func(r)] = "up"]
  /\ WithStat(r, "started", statMap[Func(r)].started + 1, AfterOnce(r))
  /\ UNCHANGED <<options, lock, funcMap, req, dials, beat>>

\* The answer or an error, once the lock lets the request through; the last request of a
\* round retires the instance and zeroes the function's served counter.
Forward(r) ==
  /\ At(r, "forward")
  /\ \/ Goto(r, "done") /\ UNCHANGED <<statMap, instance, raced, cause>>
     \/ /\ ~funcMap[Func(r)].isPinnedInMem /\ instance[Func(r)] = "up"
        /\ instance' = [instance EXCEPT ![Func(r)] = "none"]
        /\ WithStat(r, "served", 0, "done")
  /\ UNCHANGED <<options, lock, funcMap, req, dials, beat>>

-----------------------------------------------------------------------------
\* The steps that wait for nothing but the pool's lock, the orchestrator and the dialer.
PoolStep(r) ==
  \/ GetFunction(r) \/ NewFunction(r) \/ CreateStats(r) \/ IncServed(r) \/ AddOrDump(r)
  \/ StartVM(r) \/ Dialled(r) \/ IncStarted(r)

\* The steps that wait for a function's semaphore, its sync.Once or its lock.  They may
\* wait for ever: a failed last request keeps the permits, and a reader of the lock that
\* reads it again can meet a writer (FuncServe).
FunctionStep(r) == Acquire(r) \/ OnceAddInstance(r) \/ Forward(r) \/ Remove(r)

RequestStep(r) == PoolStep(r) \/ FunctionStep(r)

DialerStep(f, i) ==
  \/ DialStep(f, i, WorkerSelect(dials[f][i])) \/ DialStep(f, i, WorkerDial(dials[f][i]))
  \/ DialStep(f, i, Receive(dials[f][i])) \/ DialStep(f, i, DrainClosed(dials[f][i]))

TimerStep(f, i) == DialStep(f, i, Timeout(dials[f][i]))

Next ==
  \/ HeartbeatBegin \/ HeartbeatEnd
  \/ \E r \in Requests : \/ RequestStep(r)
                         \/ \E op \in {"serve", "remove", "add", "dump"}, f \in Functions,
                              image \in Images \cup {Bogus} : Arrive(r, op, f, image)
  \/ \E f \in Functions : \E i \in 1..Len(dials[f]) : DialerStep(f, i) \/ TimerStep(f, i)

Spec == Init /\ [][Next]_vars

\* Goroutines run and timers fire.  Nobody has to send a request, and no function has to let
\* one in.
FairSpec ==
  /\ Spec
  /\ \A r \in Requests : WF_vars(PoolStep(r))
  /\ \A f \in Functions \ Prompt : \A i \in 1..(MaxDials + Cardinality(Requests)) :
        /\ WF_vars(i \in DOMAIN dials[f] /\ DialerStep(f, i))
        /\ WF_vars(i \in DOMAIN dials[f] /\ TimerStep(f, i))

-----------------------------------------------------------------------------
(* Properties. *)

\* Every variable keeps the shape of the field it stands for; in particular a function's
\* threshold, the size of its semaphore, is never negative, and zero only if the daemon
\* was started with -st 0 (functions.go 193-205).
TypeOK ==
  /\ lock \in Requests \cup {Nobody}
  /\ \A f \in Functions :
       /\ Found(f) => /\ funcMap[f] \in [imageName : Images \cup {Bogus}, isPinnedInMem : BOOLEAN,
                           servedTh : Nat]
                      /\ funcMap[f].servedTh > 0 \/ servedTh = 0
       /\ statMap[f] # Absent => statMap[f] \in [served : Nat, started : Nat]
       /\ instance[f] \in {"none", "starting", "up"}
       /\ dials[f] \in Seq(Attempt)
  /\ beat \in {"idle", "printing"} /\ raced \in BOOLEAN

\* "Functions can only be added but never removed from the map" (functions.go 63-64):
\* nor is one ever replaced, so that concurrent first requests agree on its semaphore,
\* its sync.Once and its image.
FunctionsNeverChange ==
  [][\A f \in Functions : funcMap[f] # Absent => funcMap'[f] = funcMap[f]]_vars

\* The daemon dies only for a reason the code names: no image or no answer from the
\* guest (functions.go 361, 374), StopSingleVM of a function without an instance, or
\* the unlocked statMap.  A missing FuncStat (stats.go 65, 70) or a second one
\* (functions.go 110) is not among them.
CrashesExplained ==
  /\ cause \in {"", "startVM", "dial", "noInstance", "statMap"}
  /\ cause = "noInstance" => \E r \in Requests : pc[r] = "found" /\ req[r].op = "remove"
  /\ cause = "statMap" => raced

\* No RPC is held up by the pool, by the statistics or by the start of an instance, whatever
\* the other requests do: if it waits for ever, then for a permit, for the start of an
\* instance by another request or for the function's lock (functions.go 90-119, 241-270,
\* 343-380).
RequestsProceed ==
  \A r \in Requests :
    []<>(pc[r] \in {"new", "found", "once", "forward", "done"} \/ ~Running)

\* timeoutDialer leaks neither a goroutine nor a connection, whichever of connection and
\* timeout comes first (functions.go 573-613).
DialersSettle ==
  \A f \in Functions : []<>(~Running \/ \A i \in DOMAIN dials[f] : Settled(dials[f][i]))
=============================================================================
