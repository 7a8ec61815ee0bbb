--------------------------- MODULE FuncPool_proofs ---------------------------
(***************************************************************************)
(* Proofs about FuncPool, for any number of functions, RPCs and dials.     *)
(*                                                                         *)
(* The pool's lock is held from the failed lookup of a function to the end *)
(* of CreateStats.  So a function that is in the map has its FuncStat,     *)
(* except while its creator holds the lock, and nobody who looked it up    *)
(* under the lock can be ahead of its FuncStat.                            *)
(***************************************************************************)
EXTENDS FuncPool, TLAPS

FunctionRecord == [imageName : Images \cup {Bogus}, isPinnedInMem : BOOLEAN, servedTh : Nat]
FuncStat == [served : Nat, started : Nat]
Request == [op : {"serve", "remove", "add", "dump"}, fID : Functions,
            imageName : Images \cup {Bogus}]

\* An RPC before, during and after getFunction.
Creating == {"create", "createStats"}
Holding == {"found", "acquired", "once", "startVM", "dial", "started", "forward", "done"}
Labels == {"new", "getFunction"} \cup Creating \cup Holding

TypeInv ==
  /\ servedTh \in Nat
  /\ lock \in Requests \cup {Nobody}
  /\ funcMap \in [Functions -> FunctionRecord \cup {Absent}]
  /\ statMap \in [Functions -> FuncStat \cup {Absent}]
  /\ pc \in [Requests -> Labels]
  /\ DOMAIN req = Requests
  /\ \A r \in Requests : pc[r] # "new" => req[r] \in Request
  /\ instance \in [Functions -> {"none", "starting", "up"}]
  /\ dials \in [Functions -> Seq(Attempt)]
  /\ beat \in {"idle", "printing"} /\ raced \in BOOLEAN

ThresholdInv == \A f \in Functions : Found(f) => funcMap[f].servedTh > 0 \/ servedTh = 0

\* Who creates a function holds the lock.
LockInv == \A r \in Requests : pc[r] \in Creating => lock = r

\* What a creator has done so far, and what everybody else may rely on.
CreatorInv ==
  \A r \in Requests :
    /\ pc[r] \in Creating => statMap[Func(r)] = Absent
    /\ pc[r] = "create" => ~Found(Func(r))
    /\ pc[r] = "createStats" => Found(Func(r))
    /\ pc[r] \in Holding => statMap[Func(r)] # Absent

StatInv ==
  \A f \in Functions :
    /\ statMap[f] # Absent => Found(f)
    /\ Found(f) => statMap[f] # Absent \/ \E r \in Requests : pc[r] = "createStats" /\ Func(r) = f

IInv == TypeInv /\ ThresholdInv /\ LockInv /\ CreatorInv /\ StatInv /\ CrashesExplained

-----------------------------------------------------------------------------
(* The operators that the steps are built from. *)

\* stats.go and functions.go tell "nothing there" from every entry of their maps.
LEMMA AbsentFact == Absent \notin FuncStat /\ Absent \notin FunctionRecord
BY FuncPoolAssumption DEF FuncStat, FunctionRecord

\* The threshold of NewFunction: positive, or zero because the flag -st is.
LEMMA ThresholdPositive ==
  ASSUME servedTh \in Nat, NEW draw \in Draws
  PROVE  Threshold(draw) \in Nat /\ (Threshold(draw) > 0 \/ servedTh = 0)
<1>1. draw \in Int
  BY FuncPoolAssumption
<1> QED BY <1>1 DEF Threshold

LEMMA StatCounts ==
  ASSUME NEW s \in FuncStat
  PROVE  s.served + 1 \in Nat /\ s.started + 1 \in Nat
BY DEF FuncStat

LEMMA AppendOK ==
  ASSUME NEW s \in Seq(Attempt), NEW a \in Attempt
  PROVE  Append(s, a) \in Seq(Attempt)
OBVIOUS

LEMMA NewAttemptOK == NewAttempt \in Attempt /\ Answered \in Attempt
BY DEF NewAttempt, Answered, Attempt

\* timeoutDialer's goroutines keep their attempt well formed.
LEMMA DialerTypes ==
  ASSUME NEW a \in Attempt
  PROVE  /\ WorkerSelect(a) \subseteq Attempt /\ WorkerDial(a) \subseteq Attempt
         /\ Receive(a) \subseteq Attempt /\ DrainClosed(a) \subseteq Attempt
         /\ Timeout(a) \subseteq Attempt
<1>1. WorkerSelect(a) \subseteq Attempt
  BY DEF WorkerSelect, Attempt
<1>2. WorkerDial(a) \subseteq Attempt
  BY DEF WorkerDial, Attempt
<1>3. Receive(a) \subseteq Attempt
  BY DEF Receive, Attempt
<1>4. DrainClosed(a) \subseteq Attempt
  BY DEF DrainClosed, Attempt
<1>5. Timeout(a) \subseteq Attempt
  BY DEF Timeout, Attempt
<1> QED BY <1>1, <1>2, <1>3, <1>4, <1>5

\* What an RPC needs of IInv to use its function.
LEMMA HoldingFacts ==
  ASSUME IInv, NEW r \in Requests, pc[r] \in Holding
  PROVE  /\ req[r] \in Request /\ Func(r) \in Functions
         /\ statMap[Func(r)] \in FuncStat /\ funcMap[Func(r)] \in FunctionRecord
<1>1. pc[r] # "new"
  BY DEF Holding
<1>2. req[r] \in Request /\ Func(r) \in Functions
  BY <1>1 DEF IInv, TypeInv, Request, Func
<1>3. statMap[Func(r)] # Absent /\ statMap[Func(r)] \in FuncStat \cup {Absent}
  BY <1>2 DEF IInv, CreatorInv, TypeInv
<1>4. funcMap[Func(r)] # Absent /\ funcMap[Func(r)] \in FunctionRecord \cup {Absent}
  BY <1>2, <1>3 DEF IInv, StatInv, Found, TypeInv
<1> QED BY <1>2, <1>3, <1>4

\* A step that leaves getFunction alone: at most one RPC moves on, past getFunction, and no
\* FuncStat appears or disappears.
Later ==
  /\ UNCHANGED <<options, lock, funcMap, req>>
  /\ \/ pc' = pc
     \/ \E r \in Requests, l \in Holding : pc[r] \in Holding /\ pc' = [pc EXCEPT ![r] = l]
  /\ statMap' \in [Functions -> FuncStat \cup {Absent}]
  /\ \A f \in Functions : statMap'[f] = Absent <=> statMap[f] = Absent

LEMMA LaterStep ==
  ASSUME IInv, Later
  PROVE  ThresholdInv' /\ LockInv' /\ CreatorInv' /\ StatInv'
<1>1. \A r \in Requests : /\ pc'[r] \in Creating <=> pc[r] \in Creating
                          /\ pc'[r] = "create" <=> pc[r] = "create"
                          /\ pc'[r] = "createStats" <=> pc[r] = "createStats"
                          /\ pc'[r] \in Holding <=> pc[r] \in Holding
  BY DEF Later, IInv, TypeInv, Creating, Holding
<1>2. \A r \in Requests : pc[r] \in Creating \cup Holding => Func(r) \in Functions
  BY DEF IInv, TypeInv, Creating, Holding, Request, Func
<1>3. /\ funcMap' = funcMap /\ lock' = lock /\ servedTh' = servedTh
      /\ \A r \in Requests : Func(r)' = Func(r)
  BY DEF Later, options, Func
<1>4. ThresholdInv' /\ LockInv'
  BY <1>1, <1>3 DEF IInv, ThresholdInv, LockInv, Found
<1>5. CreatorInv'
  <2> SUFFICES ASSUME NEW r \in Requests
               PROVE  /\ pc'[r] \in Creating => statMap'[Func(r)] = Absent
                      /\ pc'[r] = "create" => funcMap[Func(r)] = Absent
                      /\ pc'[r] = "createStats" => funcMap[Func(r)] # Absent
                      /\ pc'[r] \in Holding => statMap'[Func(r)] # Absent
    BY <1>3 DEF CreatorInv, Found
  <2> QED BY <1>1, <1>2 DEF IInv, CreatorInv, Later, Found
<1>6. StatInv'
  <2> SUFFICES ASSUME NEW f \in Functions
               PROVE  /\ statMap'[f] # Absent => funcMap[f] # Absent
                      /\ funcMap[f] # Absent => \/ statMap'[f] # Absent
                                                \/ \E r \in Requests : pc'[r] = "createStats" /\ Func(r) = f
    BY <1>3 DEF StatInv, Found
  <2> QED BY <1>1 DEF IInv, StatInv, Found, Later
<1> QED BY <1>4, <1>5, <1>6

\* One access to a FuncStat: there is one, so the daemon does not die of a nil pointer.
LEMMA WithStatStep ==
  ASSUME IInv, NEW r \in Requests, pc[r] \in Holding, NEW next \in Holding,
         NEW field \in {"served", "started"}, NEW value, value \in Nat,
         WithStat(r, field, value, next)
  PROVE  /\ statMap' \in [Functions -> FuncStat \cup {Absent}]
         /\ \A f \in Functions : statMap'[f] = Absent <=> statMap[f] = Absent
         /\ pc' \in [Requests -> Labels]
         /\ pc' = pc \/ pc' = [pc EXCEPT ![r] = next]
         /\ raced' \in BOOLEAN /\ cause' \in {cause, "statMap"}
         /\ (raced => raced') /\ (cause' # cause => raced')
<1>1. statMap[Func(r)] \in FuncStat /\ Func(r) \in Functions
  BY HoldingFacts
<1>2. statMap[Func(r)] # Absent
  BY <1>1, AbsentFact
<1>3. raced' = (raced \/ StatsWriter) /\ raced' \in BOOLEAN /\ (raced => raced')
  BY DEF WithStat, StatsWriter, IInv, TypeInv
<1>4. CASE StatsWriter /\ cause' = "statMap" /\ UNCHANGED <<statMap, pc>>
  BY <1>3, <1>4 DEF IInv, TypeInv
<1>5. CASE /\ statMap' = [statMap EXCEPT ![Func(r)] = [@ EXCEPT ![field] = value]]
           /\ pc' = [pc EXCEPT ![r] = next] /\ cause' = cause
  <2>1. [statMap[Func(r)] EXCEPT ![field] = value] \in FuncStat
    <3>1. CASE field = "served"
      BY <1>1, <3>1 DEF FuncStat
    <3>2. CASE field = "started"
      BY <1>1, <3>2 DEF FuncStat
    <3> QED BY <3>1, <3>2
  <2>2. /\ statMap' \in [Functions -> FuncStat \cup {Absent}]
        /\ \A f \in Functions : statMap'[f] = Absent <=> statMap[f] = Absent
    BY <1>1, <1>2, <1>5, <2>1, AbsentFact DEF IInv, TypeInv
  <2>3. pc' \in [Requests -> Labels]
    BY <1>5 DEF IInv, TypeInv, Labels
  <2> QED BY <1>3, <1>5, <2>2, <2>3
<1> QED BY <1>2, <1>4, <1>5 DEF WithStat, RaceFatal, Goto

-----------------------------------------------------------------------------
(* getFunction. *)

LEMMA ArriveStep ==
  ASSUME IInv, NEW r \in Requests, NEW op \in {"serve", "remove", "add", "dump"},
         NEW f \in Functions, NEW image \in Images \cup {Bogus}, Arrive(r, op, f, image)
  PROVE  IInv'
<1>0. /\ pc[r] = "new" /\ pc' = [pc EXCEPT ![r] = "getFunction"]
      /\ req' = [req EXCEPT ![r] = [op |-> op, fID |-> f, imageName |-> image]]
      /\ UNCHANGED <<options, lock, funcMap, statMap, instance, dials, beat, raced, cause>>
      /\ cause = ""
  BY DEF Arrive, At, Goto, Running
<1>1. TypeInv'
  <2>1. [op |-> op, fID |-> f, imageName |-> image] \in Request
    BY DEF Request
  <2> QED BY <1>0, <2>1 DEF IInv, TypeInv, Labels, options
<1>2. \A q \in Requests \ {r} : pc'[q] = pc[q] /\ Func(q)' = Func(q)
  BY <1>0 DEF IInv, TypeInv, Func
<1>3. pc'[r] = "getFunction" /\ pc[r] = "new"
  BY <1>0 DEF IInv, TypeInv
<1>4. ThresholdInv' /\ LockInv' /\ CreatorInv'
  BY <1>0, <1>2, <1>3 DEF IInv, ThresholdInv, LockInv, CreatorInv, Found, options, Creating, Holding
<1>5. StatInv'
  BY <1>0, <1>2, <1>3 DEF IInv, StatInv, Found
<1>6. CrashesExplained'
  BY <1>0 DEF CrashesExplained
<1> QED BY <1>1, <1>4, <1>5, <1>6 DEF IInv

\* A function that is found under the lock has its FuncStat.
LEMMA GetFunctionStep ==
  ASSUME IInv, NEW r \in Requests, GetFunction(r)
  PROVE  IInv'
<1>0. /\ pc[r] = "getFunction" /\ lock = Nobody /\ cause = ""
      /\ UNCHANGED <<options, funcMap, statMap, req, instance, dials, beat, raced, cause>>
      /\ Func(r) \in Functions /\ \A q \in Requests : Func(q)' = Func(q)
  BY DEF GetFunction, At, Running, IInv, TypeInv, Request, Func
<1>1. \A q \in Requests : pc[q] \notin Creating
  BY <1>0, FuncPoolAssumption DEF IInv, LockInv
<1>2. \A f \in Functions : Found(f) <=> statMap[f] # Absent
  BY <1>1 DEF IInv, StatInv, Creating
<1>3. PICK l : /\ pc' = [pc EXCEPT ![r] = l]
               /\ \/ l = "found" /\ Found(Func(r)) /\ lock' = lock
                  \/ l = "create" /\ ~Found(Func(r)) /\ lock' = r
  BY DEF GetFunction, Goto
<1>4. pc'[r] = l /\ \A q \in Requests \ {r} : pc'[q] = pc[q]
  BY <1>3 DEF IInv, TypeInv
<1>5. TypeInv'
  BY <1>0, <1>3 DEF IInv, TypeInv, Labels, Creating, Holding, options
<1>6. LockInv'
  BY <1>1, <1>3, <1>4 DEF LockInv, Creating
<1>7. ThresholdInv'
  BY <1>0 DEF IInv, ThresholdInv, Found, options
<1>8. CreatorInv'
  BY <1>0, <1>1, <1>2, <1>3, <1>4 DEF IInv, CreatorInv, Creating, Holding, Found
<1>9. StatInv'
  BY <1>0, <1>2 DEF StatInv, Found
<1>10. CrashesExplained'
  BY <1>0 DEF CrashesExplained
<1> QED BY <1>5, <1>6, <1>7, <1>8, <1>9, <1>10 DEF IInv

LEMMA NewFunctionStep ==
  ASSUME IInv, NEW r \in Requests, NewFunction(r)
  PROVE  IInv'
<1>0. /\ pc[r] = "create" /\ cause = "" /\ pc' = [pc EXCEPT ![r] = "createStats"]
      /\ UNCHANGED <<options, lock, statMap, req, instance, dials, beat, raced, cause>>
      /\ req[r] \in Request /\ Func(r) \in Functions /\ \A q \in Requests : Func(q)' = Func(q)
  BY DEF NewFunction, At, Goto, Running, IInv, TypeInv, Request, Func
<1>1. PICK draw \in Draws : funcMap' = [funcMap EXCEPT ![Func(r)] =
          [imageName |-> req[r].imageName, isPinnedInMem |-> IsToPin(Func(r)),
           servedTh |-> Threshold(draw)]]
  BY DEF NewFunction
<1>2. Threshold(draw) \in Nat /\ (Threshold(draw) > 0 \/ servedTh = 0)
  BY ThresholdPositive DEF IInv, TypeInv
<1>3. PICK rec \in FunctionRecord : /\ funcMap' = [funcMap EXCEPT ![Func(r)] = rec]
                                    /\ rec.servedTh > 0 \/ servedTh = 0
  <2> DEFINE rec == [imageName |-> req[r].imageName, isPinnedInMem |-> IsToPin(Func(r)),
                     servedTh |-> Threshold(draw)]
  <2>1. IsToPin(Func(r)) \in BOOLEAN
    BY DEF IsToPin
  <2>2. req[r].imageName \in Images \cup {Bogus}
    BY <1>0 DEF Request
  <2>3. rec \in FunctionRecord /\ rec.servedTh = Threshold(draw)
    BY <1>2, <2>1, <2>2 DEF FunctionRecord
  <2> QED BY <1>1, <1>2, <2>3
<1>4. /\ funcMap'[Func(r)] = rec /\ rec # Absent
      /\ \A f \in Functions \ {Func(r)} : funcMap'[f] = funcMap[f]
  BY <1>0, <1>3, AbsentFact DEF IInv, TypeInv
<1>5. pc'[r] = "createStats" /\ \A q \in Requests \ {r} : pc'[q] = pc[q]
  BY <1>0 DEF IInv, TypeInv
<1>6. lock = r /\ \A q \in Requests \ {r} : pc[q] \notin Creating
  BY <1>0, FuncPoolAssumption DEF IInv, LockInv, Creating
<1>7. TypeInv'
  BY <1>0, <1>3 DEF IInv, TypeInv, Labels, Creating, options
<1>8. ThresholdInv'
  BY <1>0, <1>3, <1>4 DEF IInv, ThresholdInv, Found, options
<1>9. LockInv'
  BY <1>0, <1>5, <1>6 DEF LockInv
<1>10. CreatorInv'
  <2>1. pc'[r] \notin Holding /\ statMap'[Func(r)] = Absent /\ Found(Func(r))'
    BY <1>0, <1>4, <1>5 DEF IInv, CreatorInv, Creating, Holding, Found
  <2>2. ASSUME NEW q \in Requests \ {r}
        PROVE  pc'[q] \notin Creating /\ (pc'[q] \in Holding => statMap'[Func(q)] # Absent)
    BY <1>0, <1>5, <1>6 DEF IInv, CreatorInv
  <2> QED BY <1>0, <1>5, <2>1, <2>2 DEF CreatorInv, Creating
<1>11. StatInv'
  BY <1>0, <1>4, <1>5, <1>6 DEF IInv, StatInv, Found, Creating
<1>12. CrashesExplained'
  BY <1>0 DEF CrashesExplained
<1> QED BY <1>7, <1>8, <1>9, <1>10, <1>11, <1>12 DEF IInv

\* CreateStats finds no FuncStat: functions.go 110 does not panic.
LEMMA CreateStatsStep ==
  ASSUME IInv, NEW r \in Requests, CreateStats(r)
  PROVE  IInv'
<1>0. /\ pc[r] = "createStats" /\ cause = "" /\ raced' = (raced \/ beat = "printing")
      /\ UNCHANGED <<options, funcMap, req, instance, dials, beat>>
      /\ Func(r) \in Functions /\ \A q \in Requests : Func(q)' = Func(q)
      /\ statMap[Func(r)] = Absent /\ Found(Func(r))
  BY DEF CreateStats, At, Running, IInv, TypeInv, Request, Func, CreatorInv, Creating, Found
<1>1. lock = r /\ \A q \in Requests \ {r} : pc[q] \notin Creating
  BY <1>0, FuncPoolAssumption DEF IInv, LockInv, Creating
<1>2. CASE beat = "printing" /\ cause' = "statMap" /\ UNCHANGED <<lock, statMap, pc>>
  <2>1. TypeInv'
    BY <1>0, <1>2 DEF IInv, TypeInv, options
  <2>2. ThresholdInv' /\ LockInv' /\ CreatorInv' /\ StatInv'
    BY <1>0, <1>2 DEF IInv, ThresholdInv, LockInv, CreatorInv, StatInv, Found, Func, options
  <2>3. CrashesExplained'
    BY <1>0, <1>2 DEF CrashesExplained
  <2> QED BY <2>1, <2>2, <2>3 DEF IInv
<1>3. CASE /\ statMap' = [statMap EXCEPT ![Func(r)] = [served |-> 0, started |-> 0]]
           /\ lock' = Nobody /\ pc' = [pc EXCEPT ![r] = "found"] /\ cause' = cause
  <2>1. /\ pc'[r] = "found" /\ \A q \in Requests \ {r} : pc'[q] = pc[q]
        /\ [served |-> 0, started |-> 0] \in FuncStat
    BY <1>3 DEF IInv, TypeInv, FuncStat
  <2>2. /\ statMap'[Func(r)] # Absent
        /\ \A f \in Functions \ {Func(r)} : statMap'[f] = statMap[f]
    BY <1>0, <1>3, <2>1, AbsentFact DEF IInv, TypeInv
  <2>3. TypeInv'
    BY <1>0, <1>3, <2>1 DEF IInv, TypeInv, options, Labels, Holding
  <2>4. ThresholdInv' /\ LockInv'
    BY <1>0, <1>1, <2>1 DEF IInv, ThresholdInv, LockInv, Found, options, Creating
  <2>5. \A q \in Requests : pc'[q] \in Holding => statMap'[Func(q)] # Absent
    <3> SUFFICES ASSUME NEW q \in Requests \ {r}, pc[q] \in Holding
                 PROVE  statMap'[Func(q)] # Absent
      BY <2>1, <2>2
    <3>1. Func(q) \in Functions /\ statMap[Func(q)] # Absent
      BY DEF IInv, TypeInv, Holding, Request, Func, CreatorInv
    <3> QED BY <3>1, <2>2
  <2>6. CreatorInv'
    <3>1. \A q \in Requests : pc'[q] \notin Creating
      BY <1>1, <2>1 DEF Creating
    <3> QED BY <1>0, <2>5, <3>1 DEF CreatorInv, Creating
  <2>7. StatInv'
    <3>1. \A f \in Functions : Found(f)' <=> Found(f)
      BY <1>0 DEF Found
    <3>2. \A f \in Functions \ {Func(r)} : Found(f) <=> statMap[f] # Absent
      BY <1>1 DEF IInv, StatInv, Creating
    <3> QED BY <1>0, <2>2, <3>1, <3>2 DEF StatInv
  <2>8. CrashesExplained'
    BY <1>0, <1>3 DEF CrashesExplained
  <2> QED BY <2>3, <2>4, <2>6, <2>7, <2>8 DEF IInv
<1> QED BY <1>0, <1>2, <1>3 DEF CreateStats, RaceFatal, Unlock, Goto

-----------------------------------------------------------------------------
(* What an RPC does with its function. *)

\* A step of one RPC that neither creates nor kills.
LEMMA HoldingStep ==
  ASSUME IInv, NEW r \in Requests, pc[r] \in Holding, NEW l \in Holding,
         cause = "", pc' = [pc EXCEPT ![r] = l],
         instance' \in [Functions -> {"none", "starting", "up"}],
         dials' \in [Functions -> Seq(Attempt)],
         UNCHANGED <<options, lock, funcMap, statMap, req, beat, raced, cause>>
  PROVE  IInv'
<1>1. TypeInv'
  BY DEF IInv, TypeInv, Labels, Holding, options
<1>2. Later
  BY DEF Later, IInv, TypeInv
<1>3. CrashesExplained'
  BY DEF CrashesExplained
<1> QED BY <1>1, <1>2, <1>3, LaterStep DEF IInv

LEMMA StatStep ==
  ASSUME IInv, NEW r \in Requests, pc[r] \in Holding, NEW l \in Holding,
         NEW field \in {"served", "started"}, NEW value, value \in Nat, cause = "",
         WithStat(r, field, value, l),
         instance' \in [Functions -> {"none", "starting", "up"}],
         UNCHANGED <<options, lock, funcMap, req, dials, beat>>
  PROVE  IInv'
<1>1. /\ statMap' \in [Functions -> FuncStat \cup {Absent}]
      /\ \A f \in Functions : statMap'[f] = Absent <=> statMap[f] = Absent
      /\ pc' \in [Requests -> Labels]
      /\ pc' = pc \/ pc' = [pc EXCEPT ![r] = l]
      /\ raced' \in BOOLEAN /\ cause' \in {cause, "statMap"}
      /\ (raced => raced') /\ (cause' # cause => raced')
  BY WithStatStep
<1>2. TypeInv'
  BY <1>1 DEF IInv, TypeInv, Labels, Holding, options
<1>3. Later
  BY <1>1 DEF Later
<1>4. CrashesExplained'
  BY <1>1 DEF CrashesExplained
<1> QED BY <1>2, <1>3, <1>4, LaterStep DEF IInv

\* The daemon dies of what Serve and RemoveInstance run into; nothing else changes.
LEMMA DeathStep ==
  ASSUME IInv, cause' \in {"startVM", "dial", "noInstance"},
         cause' = "noInstance" => \E r \in Requests : pc[r] = "found" /\ req[r].op = "remove",
         UNCHANGED <<options, lock, funcMap, statMap, pc, req, instance, dials, beat, raced>>
  PROVE  IInv'
<1>1. TypeInv'
  BY DEF IInv, TypeInv, options
<1>2. Later
  BY DEF Later, IInv, TypeInv
<1>3. CrashesExplained'
  BY DEF CrashesExplained
<1> QED BY <1>1, <1>2, <1>3, LaterStep DEF IInv

LEMMA ServeStep ==
  ASSUME IInv, NEW r \in Requests,
         Acquire(r) \/ IncServed(r) \/ AddOrDump(r) \/ OnceAddInstance(r)
  PROVE  IInv'
<1>1. CASE Acquire(r)
  <2>1. "acquired" \in Holding /\ "found" \in Holding
    BY DEF Holding
  <2> QED BY <1>1, <2>1, HoldingStep DEF Acquire, At, Running, Goto, IInv, TypeInv
<1>2. CASE IncServed(r)
  <2>1. "acquired" \in Holding /\ "once" \in Holding
    BY DEF Holding
  <2>2. pc[r] \in Holding
    BY <1>2, <2>1 DEF IncServed, At
  <2>3. statMap[Func(r)].served + 1 \in Nat
    BY <2>2, HoldingFacts, StatCounts
  <2>4. instance' \in [Functions -> {"none", "starting", "up"}]
    BY <1>2 DEF IncServed, IInv, TypeInv
  <2> QED BY <1>2, <2>1, <2>2, <2>3, <2>4, StatStep DEF IncServed, At, Running
<1>3. CASE AddOrDump(r)
  <2>1. "found" \in Holding /\ (IF req[r].op = "add" THEN "once" ELSE "done") \in Holding
    BY DEF Holding
  <2> QED BY <1>3, <2>1, HoldingStep DEF AddOrDump, At, Running, Goto, IInv, TypeInv
<1>4. CASE OnceAddInstance(r)
  <2>1. "once" \in Holding /\ "startVM" \in Holding /\ AfterOnce(r) \in Holding
    BY DEF Holding, AfterOnce
  <2>2. pc[r] \in Holding /\ Func(r) \in Functions
    BY <1>4, <2>1, HoldingFacts DEF OnceAddInstance, At
  <2>3. instance' \in [Functions -> {"none", "starting", "up"}]
    BY <1>4, <2>2 DEF OnceAddInstance, IInv, TypeInv
  <2>4. dials' \in [Functions -> Seq(Attempt)]
    BY <1>4 DEF OnceAddInstance, IInv, TypeInv
  <2>5. PICK l \in Holding : pc' = [pc EXCEPT ![r] = l]
    BY <1>4, <2>1 DEF OnceAddInstance, Goto
  <2> QED BY <1>4, <2>2, <2>3, <2>4, <2>5, HoldingStep DEF OnceAddInstance, At, Running
<1> QED BY <1>1, <1>2, <1>3, <1>4

LEMMA RemoveStep ==
  ASSUME IInv, NEW r \in Requests, Remove(r)
  PROVE  IInv'
<1>1. "found" \in Holding /\ "done" \in Holding
  BY DEF Holding
<1>2. pc[r] = "found" /\ req[r].op = "remove" /\ pc[r] \in Holding /\ Func(r) \in Functions
      /\ cause = ""
  BY <1>1, HoldingFacts DEF Remove, At, Running
<1>3. CASE Panic("noInstance")
  BY <1>2, <1>3, DeathStep DEF Panic
<1>4. CASE /\ instance' = [instance EXCEPT ![Func(r)] = "none"] /\ Goto(r, "done")
           /\ UNCHANGED <<options, lock, funcMap, statMap, req, dials, beat, raced, cause>>
  <2>1. instance' \in [Functions -> {"none", "starting", "up"}] /\ dials' \in [Functions -> Seq(Attempt)]
    BY <1>2, <1>4 DEF IInv, TypeInv
  <2> QED BY <1>1, <1>2, <1>4, <2>1, HoldingStep DEF Goto
<1> QED BY <1>3, <1>4 DEF Remove

LEMMA StartVMStep ==
  ASSUME IInv, NEW r \in Requests, StartVM(r)
  PROVE  IInv'
<1>1. "startVM" \in Holding /\ "dial" \in Holding
  BY DEF Holding
<1>2. pc[r] \in Holding /\ Func(r) \in Functions /\ cause = ""
  BY <1>1, HoldingFacts DEF StartVM, At, Running
<1>3. CASE Panic("startVM")
  BY <1>3, DeathStep DEF Panic
<1>4. CASE /\ dials' = [dials EXCEPT ![Func(r)] = Append(@,
                IF Func(r) \in Prompt THEN Answered ELSE NewAttempt)]
           /\ Goto(r, "dial")
           /\ UNCHANGED <<options, lock, funcMap, statMap, req, instance, beat, raced, cause>>
  <2>0. dials[Func(r)] \in Seq(Attempt)
    BY <1>2 DEF IInv, TypeInv
  <2>1. dials' \in [Functions -> Seq(Attempt)] /\ instance' \in [Functions -> {"none", "starting", "up"}]
    BY <1>2, <1>4, <2>0, NewAttemptOK, AppendOK DEF IInv, TypeInv
  <2> QED BY <1>1, <1>2, <1>4, <2>1, HoldingStep DEF Goto
<1> QED BY <1>3, <1>4 DEF StartVM

LEMMA DialledStep ==
  ASSUME IInv, NEW r \in Requests, Dialled(r)
  PROVE  IInv'
<1>1. "dial" \in Holding /\ "started" \in Holding
  BY DEF Holding
<1>2. /\ pc[r] \in Holding /\ pc[r] = "dial" /\ Func(r) \in Functions /\ cause = ""
      /\ UNCHANGED <<options, lock, funcMap, statMap, req, instance, beat, raced>>
  BY <1>1, HoldingFacts DEF Dialled, At, Running
<1>3. CASE Goto(r, "started") /\ UNCHANGED <<dials, cause>>
  <2>1. dials' \in [Functions -> Seq(Attempt)] /\ instance' \in [Functions -> {"none", "starting", "up"}]
    BY <1>2, <1>3 DEF IInv, TypeInv
  <2> QED BY <1>1, <1>2, <1>3, <2>1, HoldingStep DEF Goto
<1>4. CASE dials' = [dials EXCEPT ![Func(r)] = Append(@, NewAttempt)] /\ UNCHANGED <<pc, cause>>
  <2>0. dials[Func(r)] \in Seq(Attempt)
    BY <1>2 DEF IInv, TypeInv
  <2>1. dials' \in [Functions -> Seq(Attempt)] /\ instance' \in [Functions -> {"none", "starting", "up"}]
    BY <1>2, <1>4, <2>0, NewAttemptOK, AppendOK DEF IInv, TypeInv
  <2>2. pc' = [pc EXCEPT ![r] = "dial"]
    BY <1>2, <1>4 DEF IInv, TypeInv
  <2> QED BY <1>1, <1>2, <1>4, <2>1, <2>2, HoldingStep
<1>5. CASE cause' = "dial" /\ UNCHANGED <<pc, dials>>
  BY <1>2, <1>5, DeathStep
<1> QED BY <1>3, <1>4, <1>5 DEF Dialled

LEMMA RoundStep ==
  ASSUME IInv, NEW r \in Requests, IncStarted(r) \/ Forward(r)
  PROVE  IInv'
<1>1. "started" \in Holding /\ "forward" \in Holding /\ "done" \in Holding /\ AfterOnce(r) \in Holding
  BY DEF Holding, AfterOnce
<1>2. pc[r] \in Holding /\ Func(r) \in Functions /\ statMap[Func(r)] \in FuncStat /\ cause = ""
  BY <1>1, HoldingFacts DEF IncStarted, Forward, At, Running
<1>3. CASE IncStarted(r)
  <2>1. instance' \in [Functions -> {"none", "starting", "up"}]
    BY <1>2, <1>3 DEF IncStarted, IInv, TypeInv
  <2>2. statMap[Func(r)].started + 1 \in Nat
    BY <1>2, StatCounts
  <2> QED BY <1>1, <1>2, <1>3, <2>1, <2>2, StatStep DEF IncStarted
<1>4. CASE Forward(r)
  <2>1. CASE Goto(r, "done") /\ UNCHANGED <<statMap, instance, raced, cause>>
    <3>1. dials' \in [Functions -> Seq(Attempt)] /\ instance' \in [Functions -> {"none", "starting", "up"}]
      BY <1>4, <2>1 DEF Forward, IInv, TypeInv
    <3> QED BY <1>1, <1>2, <1>4, <2>1, <3>1, HoldingStep DEF Forward, Goto
  <2>2. CASE instance' = [instance EXCEPT ![Func(r)] = "none"] /\ WithStat(r, "served", 0, "done")
    <3>1. instance' \in [Functions -> {"none", "starting", "up"}]
      BY <1>2, <2>2 DEF IInv, TypeInv
    <3> QED BY <1>1, <1>2, <1>4, <2>2, <3>1, StatStep DEF Forward
  <2> QED BY <1>4, <2>1, <2>2 DEF Forward
<1> QED BY <1>3, <1>4

-----------------------------------------------------------------------------
(* The heartbeat and the dialers. *)

LEMMA HeartbeatStep ==
  ASSUME IInv, HeartbeatBegin \/ HeartbeatEnd
  PROVE  IInv'
<1>1. /\ UNCHANGED <<options, lock, funcMap, statMap, pc, req, instance, dials>>
      /\ beat' \in {"idle", "printing"} /\ raced' \in BOOLEAN /\ cause = ""
      /\ (cause' = cause \/ (cause' = "statMap" /\ raced'))
  BY DEF HeartbeatBegin, HeartbeatEnd, IInv, TypeInv, StatsWriter, RaceFatal, Running
<1>2. TypeInv'
  BY <1>1 DEF IInv, TypeInv, options
<1>3. Later
  BY <1>1 DEF Later, IInv, TypeInv
<1>4. CrashesExplained'
  BY <1>1 DEF CrashesExplained
<1> QED BY <1>2, <1>3, <1>4, LaterStep DEF IInv

LEMMA DialingStep ==
  ASSUME IInv, NEW f \in Functions, NEW i \in 1..Len(dials[f]), DialerStep(f, i) \/ TimerStep(f, i)
  PROVE  IInv'
<1>1. dials[f] \in Seq(Attempt) /\ dials[f][i] \in Attempt
  BY DEF IInv, TypeInv
<1>2. PICK a \in Attempt : dials' = [dials EXCEPT ![f][i] = a]
  BY <1>1, DialerTypes DEF DialerStep, TimerStep, DialStep
<1>3. /\ UNCHANGED <<options, lock, funcMap, statMap, pc, req, instance, beat, raced, cause>>
      /\ cause = ""
  BY DEF DialerStep, TimerStep, DialStep, Running
<1>4. dials' \in [Functions -> Seq(Attempt)]
  <2>1. [dials[f] EXCEPT ![i] = a] \in Seq(Attempt)
    BY <1>1
  <2> QED BY <1>2, <2>1 DEF IInv, TypeInv
<1>5. TypeInv'
  BY <1>3, <1>4 DEF IInv, TypeInv, options
<1>6. Later
  BY <1>3 DEF Later, IInv, TypeInv
<1>7. CrashesExplained'
  BY <1>3 DEF CrashesExplained
<1> QED BY <1>5, <1>6, <1>7, LaterStep DEF IInv

-----------------------------------------------------------------------------
LEMMA InitOK == Init => IInv
<1> SUFFICES ASSUME Init PROVE IInv
  OBVIOUS
<1>1. servedTh \in Nat
  BY FuncPoolAssumption DEF Init
<1>2. TypeInv
  <2>1. dials \in [Functions -> Seq(Attempt)]
    <3>1. <<>> \in Seq(Attempt)
      OBVIOUS
    <3> QED BY <3>1 DEF Init
  <2> QED BY <1>1, <2>1 DEF Init, TypeInv, Labels
<1>3. ThresholdInv /\ LockInv /\ CreatorInv /\ StatInv /\ CrashesExplained
  BY DEF Init, ThresholdInv, LockInv, CreatorInv, StatInv, CrashesExplained, Found, Creating, Holding
<1> QED BY <1>2, <1>3 DEF IInv

LEMMA NextOK == IInv /\ [Next]_vars => IInv'
<1> SUFFICES ASSUME IInv, [Next]_vars PROVE IInv'
  OBVIOUS
<1>1. CASE HeartbeatBegin \/ HeartbeatEnd
  BY <1>1, HeartbeatStep
<1>2. ASSUME NEW r \in Requests, RequestStep(r)
      PROVE  IInv'
  BY <1>2, GetFunctionStep, NewFunctionStep, CreateStatsStep, ServeStep, RemoveStep, StartVMStep,
     DialledStep, RoundStep DEF RequestStep, PoolStep, FunctionStep
<1>3. ASSUME NEW r \in Requests, NEW op \in {"serve", "remove", "add", "dump"},
             NEW f \in Functions, NEW image \in Images \cup {Bogus}, Arrive(r, op, f, image)
      PROVE  IInv'
  BY <1>3, ArriveStep
<1>4. ASSUME NEW f \in Functions, NEW i \in 1..Len(dials[f]), DialerStep(f, i) \/ TimerStep(f, i)
      PROVE  IInv'
  BY <1>4, DialingStep
<1>5. CASE UNCHANGED vars
  <2>1. TypeInv' /\ ThresholdInv' /\ LockInv'
    BY <1>5 DEF IInv, TypeInv, ThresholdInv, LockInv, Found, vars, options
  <2>2. CreatorInv' /\ StatInv' /\ CrashesExplained'
    BY <1>5 DEF IInv, CreatorInv, StatInv, CrashesExplained, Found, Func, vars
  <2> QED BY <2>1, <2>2 DEF IInv
<1> QED BY <1>1, <1>2, <1>3, <1>4, <1>5 DEF Next

\* IInv is an invariant: the lock of functions.go 70-96 covers a function's creation and
\* that of its FuncStat together.
THEOREM PoolInvariant == Spec => []IInv
BY InitOK, NextOK, PTL DEF Spec

\* The shapes of the pool's state; in particular the threshold that NewFunction draws is
\* positive unless the flag -st is 0 (functions.go 193-205).
THEOREM FuncPoolTypeCorrect == Spec => []TypeOK
<1>1. IInv => TypeOK
  BY DEF IInv, TypeInv, ThresholdInv, TypeOK, FunctionRecord, FuncStat, Found
<1> QED BY <1>1, PoolInvariant, PTL

\* The daemon dies only of the causes that CrashesExplained lists: in particular never of a
\* missing FuncStat (stats.go 65, 70) nor of a second one (functions.go 110).
THEOREM CrashesCorrect == Spec => []CrashesExplained
<1>1. IInv => CrashesExplained
  BY DEF IInv
<1> QED BY <1>1, PoolInvariant, PTL

\* A function in the pool's map is never removed and never replaced (functions.go 63-64):
\* getFunction creates only what it did not find, and keeps the lock until it is there.
THEOREM FunctionsKept == Spec => FunctionsNeverChange
<1>1. IInv /\ [Next]_vars =>
        [\A f \in Functions : funcMap[f] # Absent => funcMap'[f] = funcMap[f]]_vars
  <2> SUFFICES ASSUME IInv, [Next]_vars, NEW f \in Functions, funcMap[f] # Absent
               PROVE  funcMap'[f] = funcMap[f]
    OBVIOUS
  <2>1. CASE \E r \in Requests : NewFunction(r)
    <3>1. PICK r \in Requests : NewFunction(r)
      BY <2>1
    <3>2. pc[r] = "create" /\ funcMap[Func(r)] = Absent
      BY <3>1 DEF NewFunction, At, IInv, CreatorInv, Found
    <3>3. f # Func(r)
      BY <3>2
    <3> QED BY <3>1, <3>3 DEF NewFunction, IInv, TypeInv
  <2>2. CASE funcMap' = funcMap
    BY <2>2
  <2> QED BY <2>1, <2>2 DEF Next, vars, RequestStep, PoolStep, FunctionStep, DialerStep, TimerStep, DialStep, HeartbeatBegin,
             HeartbeatEnd, Arrive, GetFunction, CreateStats, Acquire, IncServed, AddOrDump, Remove,
             Panic, OnceAddInstance, StartVM, Dialled, IncStarted, Forward
<1> QED BY <1>1, PoolInvariant, PTL DEF Spec, FunctionsNeverChange

-----------------------------------------------------------------------------
(* timeoutDialer: who still has to do something, and who holds the connection. *)

AttemptInv(a) ==
  /\ a.worker = "send" <=> a.conn = "open"
  /\ a.caller = "connected" <=> a.conn = "returned"
  /\ a.caller = "timeout" <=> a.drain # "none"
  /\ a.caller = "select" => a.worker # "ended"
  /\ a.caller = "connected" \/ a.drain = "done" => a.worker = "ended"

DialsInv == \A f \in Functions : \A i \in 1..Len(dials[f]) : AttemptInv(dials[f][i])

\* None of the goroutines of the attempt can take a step.
Stuck(a) == /\ WorkerSelect(a) = {} /\ WorkerDial(a) = {} /\ Receive(a) = {}
            /\ DrainClosed(a) = {} /\ Timeout(a) = {}

\* No goroutine of timeoutDialer is left waiting for one that has gone: where nothing can
\* move any more, the worker and the draining goroutine have ended and the connection is
\* the caller's or closed (functions.go 573-613).
NoDialerLeak ==
  \A f \in Functions : \A i \in 1..Len(dials[f]) : Stuck(dials[f][i]) => Settled(dials[f][i])

LEMMA AttemptSteps ==
  ASSUME NEW a \in Attempt, AttemptInv(a),
         NEW b \in WorkerSelect(a) \cup WorkerDial(a) \cup Receive(a) \cup DrainClosed(a) \cup Timeout(a)
  PROVE  AttemptInv(b)
<1>1. CASE b \in WorkerSelect(a)
  BY <1>1 DEF AttemptInv, Attempt, WorkerSelect, Stopped
<1>2. CASE b \in WorkerDial(a)
  BY <1>2 DEF AttemptInv, Attempt, WorkerDial
<1>3. CASE b \in Receive(a)
  BY <1>3 DEF AttemptInv, Attempt, Receive
<1>4. CASE b \in DrainClosed(a)
  BY <1>4 DEF AttemptInv, Attempt, DrainClosed
<1>5. CASE b \in Timeout(a)
  BY <1>5 DEF AttemptInv, Attempt, Timeout
<1> QED BY <1>1, <1>2, <1>3, <1>4, <1>5

LEMMA StuckSettled ==
  ASSUME NEW a \in Attempt, AttemptInv(a), Stuck(a)
  PROVE  Settled(a)
<1>1. a.worker # "loop"
  BY DEF Stuck, WorkerSelect
<1>2. a.worker # "dialing"
  BY DEF Stuck, WorkerDial
<1>3. a.caller # "select"
  BY DEF Stuck, Timeout
<1>4. a.worker # "send"
  <2> SUFFICES ASSUME a.worker = "send" PROVE FALSE
    OBVIOUS
  <2>1. a.drain = "receive"
    BY <1>3 DEF AttemptInv, Attempt
  <2>2. [a EXCEPT !.drain = "done", !.worker = "ended", !.conn = "closed"] \in Receive(a)
    BY <2>1 DEF Receive, Attempt
  <2> QED BY <2>2 DEF Stuck
<1>5. a.worker = "ended"
  BY <1>1, <1>2, <1>4 DEF Attempt
<1>6. a.drain # "receive"
  BY <1>5 DEF Stuck, DrainClosed
<1> QED BY <1>5, <1>6 DEF Settled, AttemptInv, Attempt

LEMMA DialsAppend ==
  ASSUME IInv, DialsInv, NEW f \in Functions, NEW a \in Attempt, AttemptInv(a),
         dials' = [dials EXCEPT ![f] = Append(@, a)]
  PROVE  DialsInv'
<1> SUFFICES ASSUME NEW g \in Functions, NEW i \in 1..Len(dials'[g])
             PROVE  AttemptInv(dials'[g][i])
  BY DEF DialsInv
<1>1. dials[f] \in Seq(Attempt)
  BY DEF IInv, TypeInv
<1>2. CASE g # f
  BY <1>2 DEF IInv, TypeInv, DialsInv
<1>3. CASE g = f
  <2>1. dials'[f] = Append(dials[f], a)
    BY DEF IInv, TypeInv
  <2>2. i \in 1..(Len(dials[f]) + 1) /\ dials'[f][i] = IF i = Len(dials[f]) + 1 THEN a ELSE dials[f][i]
    BY <1>1, <1>3, <2>1
  <2>3. Len(dials[f]) \in Nat
    BY <1>1
  <2>4. CASE i = Len(dials[f]) + 1
    BY <1>3, <2>2, <2>3, <2>4
  <2>5. CASE i # Len(dials[f]) + 1
    <3>1. i \in 1..Len(dials[f]) /\ dials'[f][i] = dials[f][i]
      BY <2>2, <2>3, <2>5
    <3> QED BY <1>3, <3>1 DEF DialsInv
  <2> QED BY <2>4, <2>5
<1> QED BY <1>2, <1>3

\* functions.go 573-613: the safety half of DialersSettle, for any number of dials.
THEOREM DialersNeverStuck == Spec => []NoDialerLeak
<1>1. Init => DialsInv
  <2> SUFFICES ASSUME Init, NEW f \in Functions, NEW i \in 1..Len(dials[f]) PROVE FALSE
    BY DEF DialsInv
  <2>1. dials[f] = << >>
    BY DEF Init
  <2> QED BY <2>1
<1>2. IInv /\ DialsInv /\ [Next]_vars => DialsInv'
  <2> SUFFICES ASSUME IInv, DialsInv, [Next]_vars PROVE DialsInv'
    OBVIOUS
  <2>1. ASSUME NEW f \in Functions, NEW i \in 1..Len(dials[f]), DialerStep(f, i) \/ TimerStep(f, i)
        PROVE  DialsInv'
    <3>1. dials[f] \in Seq(Attempt) /\ dials[f][i] \in Attempt /\ AttemptInv(dials[f][i])
      BY <2>1 DEF IInv, TypeInv, DialsInv
    <3>2. PICK a : AttemptInv(a) /\ dials' = [dials EXCEPT ![f][i] = a]
      BY <2>1, <3>1, AttemptSteps DEF DialerStep, TimerStep, DialStep
    <3>3. /\ \A g \in Functions \ {f} : dials'[g] = dials[g]
          /\ Len(dials'[f]) = Len(dials[f]) /\ dials'[f][i] = a
          /\ \A j \in 1..Len(dials[f]) : j # i => dials'[f][j] = dials[f][j]
      BY <2>1, <3>1, <3>2 DEF IInv, TypeInv
    <3> QED BY <3>2, <3>3 DEF DialsInv
  <2>2. ASSUME NEW r \in Requests, StartVM(r) \/ Dialled(r)
        PROVE  DialsInv'
    <3>1. AttemptInv(NewAttempt) /\ AttemptInv(Answered)
      BY DEF AttemptInv, NewAttempt, Answered
    <3>2. Func(r) \in Functions
      <4>1. pc[r] \in Holding
        BY <2>2 DEF StartVM, Dialled, At, Holding
      <4> QED BY <4>1, HoldingFacts
    <3>3. \/ dials' = dials
          \/ dials' = [dials EXCEPT ![Func(r)] = Append(@, Answered)]
          \/ dials' = [dials EXCEPT ![Func(r)] = Append(@, NewAttempt)]
      BY <2>2 DEF StartVM, Dialled, Panic
    <3>4. CASE dials' = dials
      BY <3>4 DEF DialsInv
    <3> QED BY <3>1, <3>2, <3>3, <3>4, NewAttemptOK, DialsAppend
  <2>3. CASE dials' = dials
    BY <2>3 DEF DialsInv
  <2> QED BY <2>1, <2>2, <2>3 DEF Next, vars, RequestStep, PoolStep, FunctionStep, HeartbeatBegin, HeartbeatEnd, Arrive,
             GetFunction, NewFunction, CreateStats, Acquire, IncServed, AddOrDump, Remove, Panic,
             OnceAddInstance, IncStarted, Forward
<1>3. IInv /\ DialsInv => NoDialerLeak
  <2> SUFFICES ASSUME IInv, DialsInv, NEW f \in Functions, NEW i \in 1..Len(dials[f]),
                      Stuck(dials[f][i])
               PROVE  Settled(dials[f][i])
    BY DEF NoDialerLeak
  <2>1. dials[f] \in Seq(Attempt) /\ dials[f][i] \in Attempt /\ AttemptInv(dials[f][i])
    BY DEF IInv, TypeInv, DialsInv
  <2> QED BY <2>1, StuckSettled
<1> QED BY <1>1, <1>2, <1>3, PoolInvariant, PTL DEF Spec
=============================================================================
