------------------------- MODULE Orchestrator_proofs -------------------------
(***************************************************************************)
(* Proofs about Orchestrator, for any number of VMs and any host faults.   *)
(*                                                                         *)
(* A caller and somebody else may work on a VM at the same time, but what  *)
(* StopSingleVM releases nobody brings back: it begins only once StartVM   *)
(* has stored vm.Task, and by then StartVM has created all it ever will.   *)
(***************************************************************************)
EXTENDS Orchestrator, TLAPS

VMRecord ==
  [pool : BOOLEAN, handle : {"none", "task", "both"}, container : BOOLEAN,
   task : {"none", "created", "running", "dying", "exited"},
   fc : {"none", "running", "paused", "offloaded", "loaded", "resumed"},
   snap : BOOLEAN, mm : {"none", "registered", "active", "inactive", "unpolled"},
   io : BOOLEAN, expired : BOOLEAN, refused : BOOLEAN]

StopLabels == {"getVM", "kill", "await", "blocked", "deleteTask", "deleteContainer", "stopVM", "free"}
OffloadLabels == {"deactivate", "fcOffload", "tap"}
LoadLabels == {"activate", "join", "joinFailed"}
CallerLabels == {"idle", "start", "undo"} \cup StopLabels \cup OffloadLabels \cup LoadLabels
OtherLabels == {"idle", "stopped", "failed"} \cup StopLabels

\* What a caller may know of a VM that StartVM has returned and nobody stopped.
Alive == {"up", "paused", "off", "unloaded", "loaded"}

TypeInv ==
  /\ TypeOK
  /\ DOMAIN pc = Actors
  /\ pc["caller"] \in [VMs -> CallerLabels]
  /\ pc["other"] \in [VMs -> OtherLabels]

(* The invariant of one VM v.  r is its pool entry and what the host holds for it, c and  *)
(* t where its caller and somebody else are, s StartVM's position, o what the caller      *)
(* knows and l its loading goroutine.                                                     *)

\* The call in progress goes with what the caller knew, and the loading goroutine with
\* LoadSnapshot.
CallInv(v, c, t, o, l) ==
  /\ c \in {"start", "undo"} => o = "new"
  /\ c \in StopLabels => o = "up"
  /\ c \in OffloadLabels => o \in {"up", "paused"}
  /\ c \in LoadLabels => o \in {"off", "unloaded"}
  /\ l # "none" => c \in LoadLabels
  /\ v \notin Shared => t = "idle"
  /\ td = "none" => v \notin listed

\* How far StartVM has come.
StartInv(r, c, s, o) ==
  /\ o = "new" /\ c = "idle" => r = NoVM /\ s = 1
  /\ c = "start" =>
       /\ s = 1 => ~r.pool
       /\ s \in 2..7 => r.pool
       /\ s <= 5 => r.fc = "none"
       /\ s <= 6 => ~r.container /\ ~r.io
       /\ s <= 7 => r.task = "none" /\ r.handle = "none"
       /\ s > 7 => r.handle # "none"
  /\ o \in {"new", "unstarted"} => r.mm = "none" /\ r.fc \in {"none", "running"}
  /\ o \in Alive \cup {"stopped"} => r.handle # "none"

\* What a failed StartVM has undone so far.
UndoInv(v, r, c, s, o) ==
  ~r.expired /\ ~r.refused =>
    /\ r.fc # "none" => r.pool
    /\ c = "undo" \/ o = "unstarted" =>
         /\ s = 1 => ~r.pool
         /\ s <= 5 => r.fc = "none"
         /\ s <= 6 => (r.container => r.task # "none" \/ v \in Shared)
    /\ o = "unstarted" => s = 1

\* What StopSingleVM has released when it is at label.
Released(r, label) ==
  /\ label \in (StopLabels \ {"getVM"}) \cup {"stopped"} => r.handle # "none"
  /\ label \in {"deleteContainer", "stopVM", "free", "stopped"} => r.task = "none"
  /\ label \in {"stopVM", "free", "stopped"} => ~r.container
  /\ label \in {"free", "stopped"} => r.fc = "none"
  /\ label = "stopped" => ~r.pool /\ ~r.io

StopInv(r, c, t, o) ==
  Released(r, c) /\ Released(r, t) /\ (o = "stopped" => Released(r, "stopped"))

\* The microVM and its memory manager, from the caller's point of view.
LoadInv(r, c, o, l) ==
  /\ o = "paused" => r.fc \in {"paused", "none"} \/ (c = "tap" /\ r.fc = "offloaded")
  /\ o = "off" => r.fc \in {"offloaded", "loaded", "none"}
  /\ o = "loaded" => r.fc \in {"loaded", "none"}
  /\ c = "tap" => r.fc \in {"offloaded", "none"}
  /\ l = "ok" => r.fc \in {"loaded", "none"}
  /\ options.isUPFEnabled /\ (c = "join" \/ o = "loaded") => r.mm = "active"
  /\ r.fc = "resumed" => r.mm = "active" \/ c = "fcOffload" \/ o \in {"unloaded", "failed"}

\* A VM that nobody else stops is not taken away from its caller.
AloneInv(v, r, c, s, o, l) ==
  v \notin Shared => /\ o \in Alive \/ (c = "start" /\ s > 1) => r.pool
                     /\ l = "ok" \/ o = "loaded" => r.fc = "loaded"

Fits(v, r, c, t, s, o, l) ==
  /\ CallInv(v, c, t, o, l) /\ StartInv(r, c, s, o) /\ UndoInv(v, r, c, s, o)
  /\ StopInv(r, c, t, o) /\ LoadInv(r, c, o, l) /\ AloneInv(v, r, c, s, o, l)

VMInv(v) == Fits(v, vm[v], pc["caller"][v], pc["other"][v], step[v], owner[v], loader[v])

IInv == TypeInv /\ CrashesExplained /\ \A v \in VMs : VMInv(v)

-----------------------------------------------------------------------------
(* What the calls to the host do. *)

\* The pool entry and the host's view after a call that was served.
After(call, r) == Bookkeep(call, Effect(call, r))

LEMMA StartOutcomes ==
  ASSUME NEW r \in VMRecord
  PROVE  /\ After("allocate", r) = [r EXCEPT !.pool = TRUE]
         /\ After("pull", r) = r /\ After("mkdir", r) = r
         /\ After("createVM", r) = [r EXCEPT !.fc = "running"]
         /\ After("newContainer", r) = [r EXCEPT !.container = TRUE, !.io = TRUE]
         /\ After("newTask", r) = [r EXCEPT !.task = "created", !.handle = "task"]
         /\ After("wait", r) = [r EXCEPT !.handle = "both"]
         /\ After("taskStart", r) = [r EXCEPT !.task = "running"]
         /\ After("register", r) = [r EXCEPT !.mm = "registered"]
BY DEF After, Effect, Bookkeep, VMRecord

LEMMA StopOutcomes ==
  ASSUME NEW r \in VMRecord
  PROVE  /\ After("kill", r) = [r EXCEPT !.task = "dying"]
         /\ After("deleteTask", r) = [r EXCEPT !.task = "none"]
         /\ After("deleteContainer", r) = [r EXCEPT !.container = FALSE]
         /\ After("stopVM", r) = [r EXCEPT !.fc = "none",
                                           !.task = IF r.task = "none" THEN "none" ELSE "exited"]
         /\ After("free", r) = [r EXCEPT !.pool = FALSE]
BY DEF After, Effect, Bookkeep, VMRecord

LEMMA SnapshotOutcomes ==
  ASSUME NEW r \in VMRecord
  PROVE  /\ After("pause", r) = [r EXCEPT !.fc = "paused"]
         /\ After("resume", r) = [r EXCEPT !.fc = IF r.fc = "loaded" /\ options.isUPFEnabled
                                                    THEN "resumed" ELSE "running"]
         /\ After("createSnapshot", r) = [r EXCEPT !.snap = TRUE]
         /\ After("fcOffload", r) = [r EXCEPT !.fc = "offloaded"]
         /\ After("fcLoad", r) = [r EXCEPT !.fc = "loaded"]
BY DEF After, Effect, Bookkeep, VMRecord

LEMMA Preconditions ==
  ASSUME NEW r \in VMRecord
  PROVE  /\ Can("taskStart", r) => r.task = "created"
         /\ Can("kill", r) => r.task \in {"created", "running", "dying"}
         /\ Can("deleteTask", r) => r.task = "exited"
         /\ Can("deleteContainer", r) <=> r.container /\ r.task = "none"
         /\ Can("stopVM", r) <=> r.fc # "none"
         /\ Can("pause", r) => r.fc \in {"running", "resumed"}
         /\ Can("resume", r) => r.fc \in {"paused", "loaded"}
         /\ Can("createSnapshot", r) => r.fc = "paused"
         /\ Can("fcOffload", r) => r.fc \notin {"none", "offloaded"}
         /\ Can("fcLoad", r) => r.fc = "offloaded"
BY DEF Can, GuestRuns, VMRecord

LEMMA StepNames ==
  /\ StartSteps[1] = "allocate" /\ StartSteps[2] = "lookup" /\ StartSteps[3] = "pull"
  /\ StartSteps[4] = "store" /\ StartSteps[5] = "createVM" /\ StartSteps[6] = "newContainer"
  /\ StartSteps[7] = "newTask" /\ StartSteps[8] = "wait" /\ StartSteps[9] = "taskStart"
  /\ StartSteps[10] = "mkdir" /\ StartSteps[11] = "register" /\ Len(StartSteps) = 11
BY DEF StartSteps

LEMMA DeferredNames ==
  /\ Deferred("allocate") = "free" /\ Deferred("createVM") = "stopVM"
  /\ Deferred("newContainer") = "deleteContainer" /\ Deferred("newTask") = "deleteTask"
  /\ Deferred("wait") = "kill" /\ Deferred("taskStart") = "kill"
  /\ Deferred("lookup") = "none" /\ Deferred("pull") = "none" /\ Deferred("store") = "none"
  /\ Deferred("mkdir") = "none"
BY DEF Deferred

LEMMA NoVMRecord == NoVM \in VMRecord
BY DEF NoVM, VMRecord

-----------------------------------------------------------------------------
(* Steps of one VM. *)

Owners == {"new", "up", "paused", "off", "unloaded", "loaded", "stopped", "failed", "unstarted"}
Loaders == {"none", "running", "ok", "error"}

\* The step that leaves v with r, c, t, s, o and l, and every other VM as it is.
Moves(v, r, c, t, s, o, l) ==
  /\ vm' = [vm EXCEPT ![v] = r]
  /\ DOMAIN pc' = Actors
  /\ pc'["caller"] = [pc["caller"] EXCEPT ![v] = c]
  /\ pc'["other"] = [pc["other"] EXCEPT ![v] = t]
  /\ step' = [step EXCEPT ![v] = s]
  /\ owner' = [owner EXCEPT ![v] = o]
  /\ loader' = [loader EXCEPT ![v] = l]
  /\ UNCHANGED <<options, td, listed, strays>>

LEMMA TypeFacts ==
  ASSUME TypeInv, NEW v \in VMs
  PROVE  /\ vm \in [VMs -> VMRecord] /\ vm[v] \in VMRecord
         /\ step \in [VMs -> 1..11] /\ step[v] \in 1..11
         /\ owner \in [VMs -> Owners] /\ owner[v] \in Owners
         /\ loader \in [VMs -> Loaders] /\ loader[v] \in Loaders
         /\ pc["caller"][v] \in CallerLabels /\ pc["other"][v] \in OtherLabels
         /\ raced \in BOOLEAN /\ crashed \in BOOLEAN /\ options.isUPFEnabled \in BOOLEAN
<1>1. options.isUPFEnabled \in BOOLEAN /\ raced \in BOOLEAN /\ crashed \in BOOLEAN
  BY DEF TypeInv, TypeOK, AcceptedOptions, Options
<1>2. vm \in [VMs -> VMRecord] /\ step \in [VMs -> 1..11] /\ owner \in [VMs -> Owners]
      /\ loader \in [VMs -> Loaders]
  BY StepNames DEF TypeInv, TypeOK, VMRecord, Owners, Loaders
<1>3. pc["caller"][v] \in CallerLabels /\ pc["other"][v] \in OtherLabels
  BY DEF TypeInv
<1> QED BY <1>1, <1>2, <1>3

\* A step that fits keeps the invariant.
LEMMA MoveOK ==
  ASSUME IInv, NEW v \in VMs, NEW r \in VMRecord, NEW c \in CallerLabels, NEW t \in OtherLabels,
         NEW s \in 1..11, NEW o \in Owners, NEW l \in Loaders, Moves(v, r, c, t, s, o, l),
         Fits(v, r, c, t, s, o, l),
         cachedImages' \subseteq {ImageOf[w] : w \in VMs}, raced' \in BOOLEAN, crashed' \in BOOLEAN,
         CrashesExplained'
  PROVE  IInv'
<1>1. TypeInv'
  <2>1. vm' \in [VMs -> VMRecord] /\ step' \in [VMs -> 1..11] /\ owner' \in [VMs -> Owners]
        /\ loader' \in [VMs -> Loaders]
    BY TypeFacts DEF IInv, Moves
  <2>2. pc'["caller"] \in [VMs -> CallerLabels] /\ pc'["other"] \in [VMs -> OtherLabels]
    BY DEF IInv, TypeInv, Moves
  <2>3. options' \in AcceptedOptions /\ td' \in {"none", "stopping", "closed", "exited"}
        /\ listed' \subseteq VMs /\ strays' \subseteq VMs
    BY DEF IInv, TypeInv, TypeOK, Moves
  <2>4. TypeOK'
    BY <2>1, <2>3, StepNames DEF TypeOK, VMRecord, Owners, Loaders
  <2> QED BY <2>2, <2>4 DEF TypeInv, Moves
<1>2. ASSUME NEW w \in VMs
      PROVE  VMInv(w)'
  <2>1. Fits(w, vm'[w], pc'["caller"][w], pc'["other"][w], step'[w], owner'[w], loader'[w])
    <3>1. CASE w = v
      <4>1. vm'[v] = r /\ step'[v] = s /\ owner'[v] = o /\ loader'[v] = l
        BY TypeFacts DEF IInv, Moves
      <4>2. pc'["caller"][v] = c /\ pc'["other"][v] = t
        BY DEF IInv, TypeInv, Moves
      <4> QED BY <3>1, <4>1, <4>2
    <3>2. CASE w # v
      <4>1. vm'[w] = vm[w] /\ step'[w] = step[w] /\ owner'[w] = owner[w] /\ loader'[w] = loader[w]
        BY <3>2, TypeFacts DEF IInv, Moves
      <4>2. pc'["caller"][w] = pc["caller"][w] /\ pc'["other"][w] = pc["other"][w]
        BY <3>2 DEF IInv, TypeInv, Moves
      <4> QED BY <4>1, <4>2 DEF IInv, VMInv
    <3> QED BY <3>1, <3>2
  <2>2. UNCHANGED <<options, td, listed, strays, Shared>>
    BY DEF Moves, Shared
  <2> QED BY <2>1, <2>2 DEF VMInv, Fits, CallInv, StartInv, UndoInv, StopInv, LoadInv, AloneInv
<1> QED BY <1>1, <1>2 DEF IInv

LEMMA CallerGoto ==
  ASSUME TypeInv, NEW v \in VMs, NEW label, Goto("caller", v, label)
  PROVE  /\ DOMAIN pc' = Actors
         /\ pc'["caller"] = [pc["caller"] EXCEPT ![v] = label]
         /\ pc'["other"] = [pc["other"] EXCEPT ![v] = pc["other"][v]]
BY DEF TypeInv, Goto, Actors

LEMMA OtherGoto ==
  ASSUME TypeInv, NEW v \in VMs, NEW label, Goto("other", v, label)
  PROVE  /\ DOMAIN pc' = Actors
         /\ pc'["caller"] = [pc["caller"] EXCEPT ![v] = pc["caller"][v]]
         /\ pc'["other"] = [pc["other"] EXCEPT ![v] = label]
BY DEF TypeInv, Goto, Actors

\* What does not change is replaced by itself.
LEMMA Same ==
  ASSUME TypeInv, NEW v \in VMs
  PROVE  /\ pc' = pc => /\ DOMAIN pc' = Actors
                        /\ pc'["caller"] = [pc["caller"] EXCEPT ![v] = pc["caller"][v]]
                        /\ pc'["other"] = [pc["other"] EXCEPT ![v] = pc["other"][v]]
         /\ vm' = vm => vm' = [vm EXCEPT ![v] = vm[v]]
         /\ step' = step => step' = [step EXCEPT ![v] = step[v]]
         /\ owner' = owner => owner' = [owner EXCEPT ![v] = owner[v]]
         /\ loader' = loader => loader' = [loader EXCEPT ![v] = loader[v]]
<1>1. pc' = pc => /\ DOMAIN pc' = Actors
                  /\ pc'["caller"] = [pc["caller"] EXCEPT ![v] = pc["caller"][v]]
                  /\ pc'["other"] = [pc["other"] EXCEPT ![v] = pc["other"][v]]
  BY DEF TypeInv
<1> QED BY <1>1, TypeFacts

-----------------------------------------------------------------------------
(* One step per action. *)

LEMMA Now ==
  ASSUME IInv, NEW v \in VMs
  PROVE  /\ TypeInv
         /\ Fits(v, vm[v], pc["caller"][v], pc["other"][v], step[v], owner[v], loader[v])
         /\ vm[v] \in VMRecord /\ pc["caller"][v] \in CallerLabels
         /\ pc["other"][v] \in OtherLabels
         /\ step[v] \in 1..11 /\ owner[v] \in Owners /\ loader[v] \in Loaders
         /\ raced \in BOOLEAN /\ crashed \in BOOLEAN /\ options.isUPFEnabled \in BOOLEAN
         /\ cachedImages \subseteq {ImageOf[w] : w \in VMs} /\ (crashed => raced \/ Shared # {})
BY TypeFacts DEF IInv, VMInv, CrashesExplained, TypeInv, TypeOK

\* The daemon dies: nothing else changes.
LEMMA PanicOK ==
  ASSUME IInv, crashed' = TRUE, raced' \in BOOLEAN, raced' \/ Shared # {},
         UNCHANGED <<options, vm, pc, step, owner, loader, cachedImages, td, listed, strays>>
  PROVE  IInv'
<1>1. TypeInv'
  BY DEF IInv, TypeInv, TypeOK
<1>2. CrashesExplained' /\ Shared' = Shared
  BY DEF CrashesExplained, Shared
<1>3. \A v \in VMs : VMInv(v)'
  BY <1>2 DEF IInv, VMInv, Fits, CallInv, StartInv, UndoInv, StopInv, LoadInv, AloneInv
<1> QED BY <1>1, <1>2, <1>3 DEF IInv

\* MoveOK for a step that does not touch the image cache.
LEMMA QuietMove ==
  ASSUME IInv, NEW v \in VMs, NEW r \in VMRecord, NEW c \in CallerLabels, NEW t \in OtherLabels,
         NEW s \in 1..11, NEW o \in Owners, NEW l \in Loaders, Moves(v, r, c, t, s, o, l),
         Fits(v, r, c, t, s, o, l), UNCHANGED <<cachedImages, raced, crashed>>
  PROVE  IInv'
<1>1. CrashesExplained'
  BY DEF IInv, CrashesExplained, Moves, Shared
<1> QED BY <1>1, Now, MoveOK

LEMMA StartVMStep ==
  ASSUME IInv, NEW v \in VMs, StartVM(v)
  PROVE  IInv'
<1> DEFINE r == vm[v]  c == pc["caller"][v]  t == pc["other"][v]
           s == step[v]  o == owner[v]  l == loader[v]
<1>1. /\ TypeInv /\ Fits(v, r, c, t, s, o, l) /\ r \in VMRecord /\ c \in CallerLabels
      /\ t \in OtherLabels /\ s \in 1..11 /\ o \in Owners /\ l \in Loaders
      /\ raced \in BOOLEAN /\ crashed \in BOOLEAN /\ options.isUPFEnabled \in BOOLEAN
      /\ cachedImages \subseteq {ImageOf[w] : w \in VMs} /\ (crashed => raced \/ Shared # {})
  BY Now
<1>2. c = "idle" /\ o = "new" /\ Goto("caller", v, "start")
  BY DEF StartVM, At
<1>3. Moves(v, r, "start", t, s, o, l)
  BY <1>1, <1>2, CallerGoto, Same DEF StartVM, Moves
<1>4. Fits(v, r, "start", t, s, o, l)
  BY <1>1, <1>2 DEF Fits, CallInv, StartInv, UndoInv, StopInv, Released, LoadInv, AloneInv,
          StopLabels, OffloadLabels, LoadLabels, Alive, NoVM, VMRecord
<1>5. "start" \in CallerLabels
  BY DEF CallerLabels
<1> QED BY <1>1, <1>3, <1>4, <1>5, QuietMove DEF StartVM

\* Where Advance leads: to the next step, or out of StartVM.
LEMMA AdvanceMoves ==
  ASSUME IInv, NEW v \in VMs, pc["caller"][v] = "start", NEW n \in 2..12, Advance(v, n),
         NEW q, vm' = [vm EXCEPT ![v] = q], UNCHANGED <<options, loader, td, listed, strays>>
  PROVE  \/ n \in 2..11 /\ Moves(v, q, "start", pc["other"][v], n, owner[v], loader[v])
         \/ n \in 11..12 /\ Moves(v, q, "idle", pc["other"][v], step[v], "up", loader[v])
<1> DEFINE r == vm[v]  c == pc["caller"][v]  t == pc["other"][v]
           s == step[v]  o == owner[v]  l == loader[v]
<1>1. /\ TypeInv /\ Fits(v, r, c, t, s, o, l) /\ r \in VMRecord /\ c \in CallerLabels
      /\ t \in OtherLabels /\ s \in 1..11 /\ o \in Owners /\ l \in Loaders
      /\ raced \in BOOLEAN /\ crashed \in BOOLEAN /\ options.isUPFEnabled \in BOOLEAN
      /\ cachedImages \subseteq {ImageOf[w] : w \in VMs} /\ (crashed => raced \/ Shared # {})
  BY Now
<1>2. CASE n > Len(StartSteps) \/ (StartSteps[n] = "register" /\ ~options.isUPFEnabled)
  <2>1. n \in 11..12
    BY <1>2, StepNames
  <2>2. Goto("caller", v, "idle") /\ owner' = [owner EXCEPT ![v] = "up"] /\ UNCHANGED step
    BY <1>2 DEF Advance, Returns
  <2> QED BY <1>1, <2>1, <2>2, CallerGoto, Same DEF Moves
<1>3. CASE ~(n > Len(StartSteps) \/ (StartSteps[n] = "register" /\ ~options.isUPFEnabled))
  <2>1. n \in 2..11
    BY <1>3, StepNames
  <2>2. step' = [step EXCEPT ![v] = n] /\ UNCHANGED <<pc, owner>>
    BY <1>3 DEF Advance
  <2> QED BY <1>1, <2>1, <2>2, Same DEF Moves
<1> QED BY <1>2, <1>3

\* StartVM after a step that left r: it goes on with step n or returns.
LEMMA AdvanceOK ==
  ASSUME IInv, NEW v \in VMs, pc["caller"][v] = "start", NEW n \in 2..12, Advance(v, n),
         NEW r \in VMRecord, vm' = [vm EXCEPT ![v] = r], UNCHANGED <<options, loader, td, listed, strays>>,
         n \in 2..11 => Fits(v, r, "start", pc["other"][v], n, owner[v], loader[v]),
         n \in 11..12 => Fits(v, r, "idle", pc["other"][v], step[v], "up", loader[v]),
         cachedImages' \subseteq {ImageOf[w] : w \in VMs}, raced' \in BOOLEAN, crashed' \in BOOLEAN,
         CrashesExplained'
  PROVE  IInv'
<1>1. "start" \in CallerLabels /\ "idle" \in CallerLabels /\ "up" \in Owners
  BY DEF CallerLabels, Owners
<1>2. CASE n \in 2..11 /\ Moves(v, r, "start", pc["other"][v], n, owner[v], loader[v])
  BY <1>1, <1>2, Now, MoveOK
<1>3. CASE n \in 11..12 /\ Moves(v, r, "idle", pc["other"][v], step[v], "up", loader[v])
  BY <1>1, <1>3, Now, MoveOK
<1> QED BY <1>2, <1>3, AdvanceMoves

\* A step of StartVM that was served leads to where StartVM should be.
LEMMA StartFits ==
  ASSUME NEW v \in VMs, NEW r \in VMRecord, NEW t \in OtherLabels, NEW s \in 1..11, NEW q,
         StartSteps[s] \notin {"lookup", "store"}, Can(StartSteps[s], r),
         q = After(StartSteps[s], r), options.isUPFEnabled \in BOOLEAN,
         Fits(v, r, "start", t, s, "new", "none")
  PROVE  /\ q \in VMRecord
         /\ s + 1 \in 2..11 => Fits(v, q, "start", t, s + 1, "new", "none")
         /\ s + 1 \in 11..12 => Fits(v, q, "idle", t, s, "up", "none")
<1>1. s \notin {2, 4}
  BY StepNames
<1>2. CASE s = 1
  <2>1. StartSteps[s] = "allocate"
    BY <1>2, StepNames
  <2>2. q = [r EXCEPT !.pool = TRUE]
    BY <2>1, StartOutcomes
  <2>3. /\ q \in VMRecord
        /\ q.pool = TRUE /\ q.handle = r.handle /\ q.container = r.container /\ q.task = r.task /\ q.fc = r.fc
        /\ q.snap = r.snap /\ q.mm = r.mm /\ q.io = r.io /\ q.expired = r.expired /\ q.refused = r.refused
    BY <2>2 DEF VMRecord
  <2> QED BY <1>2, <2>3
          DEF Fits, CallInv, StartInv, UndoInv, StopInv, Released, LoadInv, AloneInv,
              StopLabels, OffloadLabels, LoadLabels, Alive
<1>3. CASE s = 3
  <2>1. StartSteps[s] = "pull"
    BY <1>3, StepNames
  <2>2. q = r
    BY <2>1, StartOutcomes
  <2> QED BY <1>3, <2>2
          DEF Fits, CallInv, StartInv, UndoInv, StopInv, Released, LoadInv, AloneInv,
              StopLabels, OffloadLabels, LoadLabels, Alive
<1>4. CASE s = 5
  <2>1. StartSteps[s] = "createVM"
    BY <1>4, StepNames
  <2>2. q = [r EXCEPT !.fc = "running"]
    BY <2>1, StartOutcomes
  <2>3. /\ q \in VMRecord
        /\ q.fc = "running" /\ q.pool = r.pool /\ q.handle = r.handle /\ q.container = r.container /\ q.task = r.task
        /\ q.snap = r.snap /\ q.mm = r.mm /\ q.io = r.io /\ q.expired = r.expired /\ q.refused = r.refused
    BY <2>2 DEF VMRecord
  <2> QED BY <1>4, <2>3
          DEF Fits, CallInv, StartInv, UndoInv, StopInv, Released, LoadInv, AloneInv,
              StopLabels, OffloadLabels, LoadLabels, Alive
<1>5. CASE s = 6
  <2>1. StartSteps[s] = "newContainer"
    BY <1>5, StepNames
  <2>2. q = [r EXCEPT !.container = TRUE, !.io = TRUE]
    BY <2>1, StartOutcomes
  <2>3. /\ q \in VMRecord
        /\ q.container = TRUE /\ q.io = TRUE /\ q.pool = r.pool /\ q.handle = r.handle /\ q.task = r.task
        /\ q.fc = r.fc /\ q.snap = r.snap /\ q.mm = r.mm /\ q.expired = r.expired /\ q.refused = r.refused
    BY <2>2 DEF VMRecord
  <2> QED BY <1>5, <2>3
          DEF Fits, CallInv, StartInv, UndoInv, StopInv, Released, LoadInv, AloneInv,
              StopLabels, OffloadLabels, LoadLabels, Alive
<1>6. CASE s = 7
  <2>1. StartSteps[s] = "newTask"
    BY <1>6, StepNames
  <2>2. q = [r EXCEPT !.task = "created", !.handle = "task"]
    BY <2>1, StartOutcomes
  <2>3. /\ q \in VMRecord
        /\ q.task = "created" /\ q.handle = "task" /\ q.pool = r.pool /\ q.container = r.container /\ q.fc = r.fc
        /\ q.snap = r.snap /\ q.mm = r.mm /\ q.io = r.io /\ q.expired = r.expired /\ q.refused = r.refused
    BY <2>2 DEF VMRecord
  <2> QED BY <1>6, <2>3
          DEF Fits, CallInv, StartInv, UndoInv, StopInv, Released, LoadInv, AloneInv,
              StopLabels, OffloadLabels, LoadLabels, Alive
<1>7. CASE s = 8
  <2>1. StartSteps[s] = "wait"
    BY <1>7, StepNames
  <2>2. q = [r EXCEPT !.handle = "both"]
    BY <2>1, StartOutcomes
  <2>3. /\ q \in VMRecord
        /\ q.handle = "both" /\ q.pool = r.pool /\ q.container = r.container /\ q.task = r.task /\ q.fc = r.fc
        /\ q.snap = r.snap /\ q.mm = r.mm /\ q.io = r.io /\ q.expired = r.expired /\ q.refused = r.refused
    BY <2>2 DEF VMRecord
  <2> QED BY <1>7, <2>3
          DEF Fits, CallInv, StartInv, UndoInv, StopInv, Released, LoadInv, AloneInv,
              StopLabels, OffloadLabels, LoadLabels, Alive
<1>8. CASE s = 9
  <2>1. StartSteps[s] = "taskStart"
    BY <1>8, StepNames
  <2>2. q = [r EXCEPT !.task = "running"]
    BY <2>1, StartOutcomes
  <2>3. /\ q \in VMRecord
        /\ q.task = "running" /\ q.pool = r.pool /\ q.handle = r.handle /\ q.container = r.container /\ q.fc = r.fc
        /\ q.snap = r.snap /\ q.mm = r.mm /\ q.io = r.io /\ q.expired = r.expired /\ q.refused = r.refused
    BY <2>2 DEF VMRecord
  <2>4. r.task = "created"
    BY <2>1, Preconditions
  <2> QED BY <1>8, <2>3, <2>4
          DEF Fits, CallInv, StartInv, UndoInv, StopInv, Released, LoadInv, AloneInv,
              StopLabels, OffloadLabels, LoadLabels, Alive
<1>9. CASE s = 10
  <2>1. StartSteps[s] = "mkdir"
    BY <1>9, StepNames
  <2>2. q = r
    BY <2>1, StartOutcomes
  <2> QED BY <1>9, <2>2
          DEF Fits, CallInv, StartInv, UndoInv, StopInv, Released, LoadInv, AloneInv,
              StopLabels, OffloadLabels, LoadLabels, Alive
<1>10. CASE s = 11
  <2>1. StartSteps[s] = "register"
    BY <1>10, StepNames
  <2>2. q = [r EXCEPT !.mm = "registered"]
    BY <2>1, StartOutcomes
  <2>3. /\ q \in VMRecord
        /\ q.mm = "registered" /\ q.pool = r.pool /\ q.handle = r.handle /\ q.container = r.container /\ q.task = r.task
        /\ q.fc = r.fc /\ q.snap = r.snap /\ q.io = r.io /\ q.expired = r.expired /\ q.refused = r.refused
    BY <2>2 DEF VMRecord
  <2> QED BY <1>10, <2>3
          DEF Fits, CallInv, StartInv, UndoInv, StopInv, Released, LoadInv, AloneInv,
              StopLabels, OffloadLabels, LoadLabels, Alive
<1> QED BY <1>1, <1>2, <1>3, <1>4, <1>5, <1>6, <1>7, <1>8, <1>9, <1>10

LEMMA StartStepOK ==
  ASSUME IInv, NEW v \in VMs, StartStep(v)
  PROVE  IInv'
<1> DEFINE r == vm[v]  c == pc["caller"][v]  t == pc["other"][v]
           s == step[v]  o == owner[v]  l == loader[v]
<1>1. /\ TypeInv /\ Fits(v, r, c, t, s, o, l) /\ r \in VMRecord /\ c \in CallerLabels
      /\ t \in OtherLabels /\ s \in 1..11 /\ o \in Owners /\ l \in Loaders
      /\ raced \in BOOLEAN /\ crashed \in BOOLEAN /\ options.isUPFEnabled \in BOOLEAN
      /\ cachedImages \subseteq {ImageOf[w] : w \in VMs} /\ (crashed => raced \/ Shared # {})
  BY Now
<1>2. /\ c = "start" /\ Can(StartSteps[s], r) /\ vm' = [vm EXCEPT ![v] = After(StartSteps[s], vm[v])]
      /\ Advance(v, s + 1) /\ StartSteps[s] \notin {"lookup", "store"}
      /\ UNCHANGED <<options, loader, cachedImages, raced, td, listed, strays, crashed>>
  BY <1>1, TypeFacts DEF StartStep, At, CallOK, CurrentStep, Apply, After
<1>3. o = "new" /\ l = "none" /\ s \notin {2, 4}
  BY <1>1, <1>2, StepNames DEF Fits, CallInv, StartInv, UndoInv, StopInv, Released, LoadInv, AloneInv,
          StopLabels, OffloadLabels, LoadLabels, Alive
<1> DEFINE q == After(StartSteps[s], r)
<1>4. /\ q \in VMRecord
      /\ s + 1 \in 2..11 => Fits(v, q, "start", t, s + 1, o, l)
      /\ s + 1 \in 11..12 => Fits(v, q, "idle", t, s, "up", l)
  BY <1>1, <1>2, <1>3, StartFits
<1>5. s + 1 \in 2..12
  BY <1>1
<1>6. CrashesExplained'
  BY <1>1, <1>2 DEF CrashesExplained, Shared
<1> QED BY <1>1, <1>2, <1>4, <1>5, <1>6, AdvanceOK

LEMMA ImageStep ==
  ASSUME IInv, NEW v \in VMs, ImageLookup(v) \/ ImageStore(v)
  PROVE  IInv'
<1> DEFINE r == vm[v]  c == pc["caller"][v]  t == pc["other"][v]
           s == step[v]  o == owner[v]  l == loader[v]
<1>1. /\ TypeInv /\ Fits(v, r, c, t, s, o, l) /\ r \in VMRecord /\ c \in CallerLabels
      /\ t \in OtherLabels /\ s \in 1..11 /\ o \in Owners /\ l \in Loaders
      /\ raced \in BOOLEAN /\ crashed \in BOOLEAN /\ options.isUPFEnabled \in BOOLEAN
      /\ cachedImages \subseteq {ImageOf[w] : w \in VMs} /\ (crashed => raced \/ Shared # {})
  BY Now
<1>2. /\ c = "start" /\ s \in {2, 4} /\ vm' = [vm EXCEPT ![v] = r]
      /\ UNCHANGED <<options, vm, loader, td, listed, strays>>
      /\ raced' \in BOOLEAN /\ (raced => raced')
  <2>1. c = "start" /\ UNCHANGED <<options, vm, loader, td, listed, strays>>
    BY DEF ImageLookup, ImageStore, At
  <2>2. s \in {2, 4}
    BY <1>1, StepNames DEF ImageLookup, ImageStore, CurrentStep
  <2>3. raced' \in BOOLEAN /\ (raced => raced')
    BY <1>1 DEF ImageLookup, ImageStore, ImageConflict
  <2> QED BY <1>1, <2>1, <2>2, <2>3, Same
<1>3. CASE crashed' = TRUE /\ ImageConflict(v) /\ UNCHANGED <<pc, step, owner, cachedImages>>
  <2>1. raced'
    BY <1>1, <1>3 DEF ImageLookup, ImageStore
  <2> QED BY <1>2, <1>3, <2>1, PanicOK
<1>4. ASSUME NEW n \in {s + 1, s + 3}, Advance(v, n), n \in {3, 5}, crashed' = crashed,
             cachedImages' \subseteq cachedImages \cup {ImageOf[v]}
      PROVE  IInv'
  <2>1. n \in 2..12 /\ n \notin 11..12
    BY <1>4
  <2>2. Fits(v, r, "start", t, n, o, l)
    BY <1>1, <1>2, <1>4 DEF Fits, CallInv, StartInv, UndoInv, StopInv, Released, LoadInv, AloneInv,
              StopLabels, OffloadLabels, LoadLabels, Alive
  <2>3. CrashesExplained'
    BY <1>1, <1>2, <1>4 DEF CrashesExplained, Shared
  <2>4. cachedImages' \subseteq {ImageOf[w] : w \in VMs} /\ crashed' \in BOOLEAN
    BY <1>1, <1>4
  <2> QED BY <1>1, <1>2, <1>4, <2>1, <2>2, <2>3, <2>4, AdvanceOK
<1>5. CASE ImageLookup(v)
  <2>1. s = 2
    BY <1>1, <1>5, StepNames DEF ImageLookup, CurrentStep
  <2>2. CASE Advance(v, s + (IF ImageOf[v] \in cachedImages THEN 3 ELSE 1)) /\ UNCHANGED crashed
    <3>1. PICK n \in {s + 1, s + 3} : Advance(v, n) /\ n \in {3, 5}
      BY <2>1, <2>2
    <3>2. cachedImages' = cachedImages
      BY <1>5 DEF ImageLookup
    <3> QED BY <1>4, <2>2, <3>1, <3>2
  <2>3. CASE ImageConflict(v) /\ crashed' = TRUE /\ UNCHANGED <<pc, step, owner>>
    BY <1>3, <1>5, <2>3 DEF ImageLookup
  <2> QED BY <1>5, <2>2, <2>3 DEF ImageLookup
<1>6. CASE ImageStore(v)
  <2>1. s = 4
    BY <1>1, <1>6, StepNames DEF ImageStore, CurrentStep
  <2>2. CASE cachedImages' = cachedImages \cup {ImageOf[v]} /\ Advance(v, s + 1) /\ UNCHANGED crashed
    BY <1>4, <2>1, <2>2
  <2>3. CASE ImageConflict(v) /\ crashed' = TRUE /\ UNCHANGED <<pc, step, owner, cachedImages>>
    BY <1>3, <2>3
  <2> QED BY <1>6, <2>2, <2>3 DEF ImageStore
<1> QED BY <1>5, <1>6

\* After a deadline the host may have done what StartVM no longer knows of.
LEMMA ExpiredFits ==
  ASSUME NEW v \in VMs, NEW r \in VMRecord, NEW t \in OtherLabels, NEW s \in 1..11, NEW q,
         Fits(v, r, "start", t, s, "new", "none"), StartSteps[s] \in WithContext, NEW done \in BOOLEAN,
         done => Can(StartSteps[s], r),
         q = [IF done THEN Effect(StartSteps[s], r) ELSE r EXCEPT !.expired = TRUE]
  PROVE  q \in VMRecord /\ Fits(v, q, "undo", t, s, "new", "none")
<1>1. s \in {3, 5, 6, 7, 8, 9}
  BY StepNames DEF WithContext
<1>2. PICK e : /\ q = [e EXCEPT !.expired = TRUE]
               /\ \/ e = r
                  \/ s = 5 /\ e = [r EXCEPT !.fc = "running"]
                  \/ s = 6 /\ e = [r EXCEPT !.container = TRUE]
                  \/ s = 7 /\ e = [r EXCEPT !.task = "created"]
                  \/ s = 9 /\ e = [r EXCEPT !.task = "running"] /\ r.task = "created"
  <2>1. CASE ~done
    BY <2>1
  <2>2. CASE done
    <3>1. s \in {3, 8} => Effect(StartSteps[s], r) = r
      BY StepNames DEF Effect
    <3>2. s = 5 => Effect(StartSteps[s], r) = [r EXCEPT !.fc = "running"]
      BY StepNames DEF Effect
    <3>3. s = 6 => Effect(StartSteps[s], r) = [r EXCEPT !.container = TRUE]
      BY StepNames DEF Effect
    <3>4. s = 7 => Effect(StartSteps[s], r) = [r EXCEPT !.task = "created"]
      BY StepNames DEF Effect
    <3>5. s = 9 => Effect(StartSteps[s], r) = [r EXCEPT !.task = "running"] /\ r.task = "created"
      BY <2>2, StepNames, Preconditions DEF Effect
    <3> QED BY <1>1, <2>2, <3>1, <3>2, <3>3, <3>4, <3>5
  <2> QED BY <2>1, <2>2
<1>3. CASE e = r
  <2>1. q = [r EXCEPT !.expired = TRUE]
    BY <1>2, <1>3 DEF VMRecord
  <2>2. /\ q \in VMRecord
        /\ q.expired = TRUE /\ q.pool = r.pool /\ q.handle = r.handle /\ q.container = r.container /\ q.task = r.task
        /\ q.fc = r.fc /\ q.snap = r.snap /\ q.mm = r.mm /\ q.io = r.io /\ q.refused = r.refused
    BY <2>1 DEF VMRecord
  <2> QED BY <1>3, <2>2 DEF Fits, CallInv, StartInv, UndoInv, StopInv, Released, LoadInv, AloneInv,
              StopLabels, OffloadLabels, LoadLabels, Alive
<1>4. CASE s = 5 /\ e = [r EXCEPT !.fc = "running"]
  <2>1. q = [r EXCEPT !.fc = "running", !.expired = TRUE]
    BY <1>2, <1>4 DEF VMRecord
  <2>2. /\ q \in VMRecord
        /\ q.fc = "running" /\ q.expired = TRUE /\ q.pool = r.pool /\ q.handle = r.handle /\ q.container = r.container
        /\ q.task = r.task /\ q.snap = r.snap /\ q.mm = r.mm /\ q.io = r.io /\ q.refused = r.refused
    BY <2>1 DEF VMRecord
  <2> QED BY <1>4, <2>2 DEF Fits, CallInv, StartInv, UndoInv, StopInv, Released, LoadInv, AloneInv,
              StopLabels, OffloadLabels, LoadLabels, Alive
<1>5. CASE s = 6 /\ e = [r EXCEPT !.container = TRUE]
  <2>1. q = [r EXCEPT !.container = TRUE, !.expired = TRUE]
    BY <1>2, <1>5 DEF VMRecord
  <2>2. /\ q \in VMRecord
        /\ q.container = TRUE /\ q.expired = TRUE /\ q.pool = r.pool /\ q.handle = r.handle /\ q.task = r.task
        /\ q.fc = r.fc /\ q.snap = r.snap /\ q.mm = r.mm /\ q.io = r.io /\ q.refused = r.refused
    BY <2>1 DEF VMRecord
  <2> QED BY <1>5, <2>2 DEF Fits, CallInv, StartInv, UndoInv, StopInv, Released, LoadInv, AloneInv,
              StopLabels, OffloadLabels, LoadLabels, Alive
<1>6. CASE s = 7 /\ e = [r EXCEPT !.task = "created"]
  <2>1. q = [r EXCEPT !.task = "created", !.expired = TRUE]
    BY <1>2, <1>6 DEF VMRecord
  <2>2. /\ q \in VMRecord
        /\ q.task = "created" /\ q.expired = TRUE /\ q.pool = r.pool /\ q.handle = r.handle /\ q.container = r.container
        /\ q.fc = r.fc /\ q.snap = r.snap /\ q.mm = r.mm /\ q.io = r.io /\ q.refused = r.refused
    BY <2>1 DEF VMRecord
  <2> QED BY <1>6, <2>2 DEF Fits, CallInv, StartInv, UndoInv, StopInv, Released, LoadInv, AloneInv,
              StopLabels, OffloadLabels, LoadLabels, Alive
<1>7. CASE s = 9 /\ e = [r EXCEPT !.task = "running"] /\ r.task = "created"
  <2>1. q = [r EXCEPT !.task = "running", !.expired = TRUE]
    BY <1>2, <1>7 DEF VMRecord
  <2>2. /\ q \in VMRecord
        /\ q.task = "running" /\ q.expired = TRUE /\ q.pool = r.pool /\ q.handle = r.handle /\ q.container = r.container
        /\ q.fc = r.fc /\ q.snap = r.snap /\ q.mm = r.mm /\ q.io = r.io /\ q.refused = r.refused
    BY <2>1 DEF VMRecord
  <2> QED BY <1>7, <2>2 DEF Fits, CallInv, StartInv, UndoInv, StopInv, Released, LoadInv, AloneInv,
              StopLabels, OffloadLabels, LoadLabels, Alive
<1> QED BY <1>2, <1>3, <1>4, <1>5, <1>6, <1>7

LEMMA StartFailsStep ==
  ASSUME IInv, NEW v \in VMs, StartFails(v)
  PROVE  IInv'
<1> DEFINE r == vm[v]  c == pc["caller"][v]  t == pc["other"][v]
           s == step[v]  o == owner[v]  l == loader[v]
<1>1. /\ TypeInv /\ Fits(v, r, c, t, s, o, l) /\ r \in VMRecord /\ c \in CallerLabels
      /\ t \in OtherLabels /\ s \in 1..11 /\ o \in Owners /\ l \in Loaders
      /\ raced \in BOOLEAN /\ crashed \in BOOLEAN /\ options.isUPFEnabled \in BOOLEAN
      /\ cachedImages \subseteq {ImageOf[w] : w \in VMs} /\ (crashed => raced \/ Shared # {})
  BY Now
<1>2. /\ c = "start" /\ o = "new" /\ l = "none" /\ Goto("caller", v, "undo")
      /\ UNCHANGED <<options, step, owner, loader, cachedImages, raced, td, listed, strays, crashed>>
  BY <1>1 DEF StartFails, At, Fits, CallInv, LoadLabels
<1>3. "undo" \in CallerLabels
  BY DEF CallerLabels
<1>4. CASE vm' = vm
  <2>1. Moves(v, r, "undo", t, s, o, l)
    BY <1>1, <1>2, <1>4, CallerGoto, Same DEF Moves
  <2>2. Fits(v, r, "undo", t, s, o, l)
    BY <1>1, <1>2 DEF Fits, CallInv, StartInv, UndoInv, StopInv, Released, LoadInv, AloneInv,
              StopLabels, OffloadLabels, LoadLabels, Alive
  <2> QED BY <1>1, <1>2, <1>3, <2>1, <2>2, QuietMove
<1>5. ASSUME NEW done \in BOOLEAN, done => CallOK(CurrentStep(v), v), CurrentStep(v) \in WithContext,
             vm' = [vm EXCEPT ![v] =
               [IF done THEN Effect(CurrentStep(v), @) ELSE @ EXCEPT !.expired = TRUE]]
      PROVE  IInv'
  <2> DEFINE q == [IF done THEN Effect(StartSteps[s], r) ELSE r EXCEPT !.expired = TRUE]
  <2>1. vm' = [vm EXCEPT ![v] = q]
    BY <1>1, <1>5, TypeFacts DEF CurrentStep
  <2>2. StartSteps[s] \in WithContext /\ (done => Can(StartSteps[s], r))
    BY <1>5 DEF CurrentStep, CallOK
  <2>3. q \in VMRecord /\ Fits(v, q, "undo", t, s, o, l)
    <3> HIDE DEF q
    <3>1. q = [IF done THEN Effect(StartSteps[s], r) ELSE r EXCEPT !.expired = TRUE]
      BY DEF q
    <3> QED BY <1>1, <1>2, <1>5, <2>2, <3>1, ExpiredFits
  <2>4. Moves(v, q, "undo", t, s, o, l)
    BY <1>1, <1>2, <2>1, CallerGoto, Same DEF Moves
  <2> HIDE DEF q
  <2> QED BY <1>1, <1>2, <1>3, <2>3, <2>4, QuietMove
<1> QED BY <1>4, <1>5 DEF StartFails

-----------------------------------------------------------------------------
(* The deferred functions of StartVM and the steps of StopSingleVM. *)

\* A deferred call of a failed StartVM that was served.
LEMMA UndoFits ==
  ASSUME NEW v \in VMs, NEW r \in VMRecord, NEW t \in OtherLabels, NEW s \in 2..11, NEW q,
         NEW call, call = Deferred(StartSteps[s - 1]), call # "none",
         call = "free" \/ Can(call, r), q = After(call, r),
         Fits(v, r, "undo", t, s, "new", "none")
  PROVE  q \in VMRecord /\ Fits(v, q, "undo", t, s - 1, "new", "none")
<1>1. s - 1 \in {1, 5, 6, 7, 8, 9}
  BY StepNames, DeferredNames
<1>2. CASE s - 1 = 1
  <2>1. call = "free"
    BY <1>2, StepNames, DeferredNames
  <2>2. q = [r EXCEPT !.pool = FALSE]
    BY <2>1, StopOutcomes
  <2>3. /\ q \in VMRecord
        /\ q.pool = FALSE /\ q.handle = r.handle /\ q.container = r.container /\ q.task = r.task /\ q.fc = r.fc
        /\ q.snap = r.snap /\ q.mm = r.mm /\ q.io = r.io /\ q.expired = r.expired /\ q.refused = r.refused
    BY <2>2 DEF VMRecord
  <2> QED BY <1>2, <2>3
          DEF Fits, CallInv, StartInv, UndoInv, StopInv, Released, LoadInv, AloneInv,
              StopLabels, OffloadLabels, LoadLabels, Alive
<1>3. CASE s - 1 = 5
  <2>1. call = "stopVM"
    BY <1>3, StepNames, DeferredNames
  <2>2. PICK k : k = (IF r.task = "none" THEN "none" ELSE "exited") /\ q = [r EXCEPT !.fc = "none", !.task = k]
    BY <2>1, StopOutcomes
  <2>3. /\ q \in VMRecord
        /\ q.fc = "none" /\ q.task = k /\ q.pool = r.pool /\ q.handle = r.handle /\ q.container = r.container
        /\ q.snap = r.snap /\ q.mm = r.mm /\ q.io = r.io /\ q.expired = r.expired /\ q.refused = r.refused
    BY <2>2 DEF VMRecord
  <2> QED BY <1>3, <2>2, <2>3
          DEF Fits, CallInv, StartInv, UndoInv, StopInv, Released, LoadInv, AloneInv,
              StopLabels, OffloadLabels, LoadLabels, Alive
<1>4. CASE s - 1 = 6
  <2>1. call = "deleteContainer"
    BY <1>4, StepNames, DeferredNames
  <2>2. q = [r EXCEPT !.container = FALSE]
    BY <2>1, StopOutcomes
  <2>3. /\ q \in VMRecord
        /\ q.container = FALSE /\ q.pool = r.pool /\ q.handle = r.handle /\ q.task = r.task /\ q.fc = r.fc
        /\ q.snap = r.snap /\ q.mm = r.mm /\ q.io = r.io /\ q.expired = r.expired /\ q.refused = r.refused
    BY <2>2 DEF VMRecord
  <2> QED BY <1>4, <2>3
          DEF Fits, CallInv, StartInv, UndoInv, StopInv, Released, LoadInv, AloneInv,
              StopLabels, OffloadLabels, LoadLabels, Alive
<1>5. CASE s - 1 = 7
  <2>1. call = "deleteTask"
    BY <1>5, StepNames, DeferredNames
  <2>2. q = [r EXCEPT !.task = "none"]
    BY <2>1, StopOutcomes
  <2>3. /\ q \in VMRecord
        /\ q.task = "none" /\ q.pool = r.pool /\ q.handle = r.handle /\ q.container = r.container /\ q.fc = r.fc
        /\ q.snap = r.snap /\ q.mm = r.mm /\ q.io = r.io /\ q.expired = r.expired /\ q.refused = r.refused
    BY <2>2 DEF VMRecord
  <2>4. r.task = "exited"
    BY <2>1, Preconditions
  <2> QED BY <1>5, <2>3, <2>4
          DEF Fits, CallInv, StartInv, UndoInv, StopInv, Released, LoadInv, AloneInv,
              StopLabels, OffloadLabels, LoadLabels, Alive
<1>6. CASE s - 1 \in {8, 9}
  <2>1. call = "kill"
    BY <1>6, StepNames, DeferredNames
  <2>2. q = [r EXCEPT !.task = "dying"]
    BY <2>1, StopOutcomes
  <2>3. /\ q \in VMRecord
        /\ q.task = "dying" /\ q.pool = r.pool /\ q.handle = r.handle /\ q.container = r.container /\ q.fc = r.fc
        /\ q.snap = r.snap /\ q.mm = r.mm /\ q.io = r.io /\ q.expired = r.expired /\ q.refused = r.refused
    BY <2>2 DEF VMRecord
  <2>4. r.task \in {"created", "running", "dying"}
    BY <2>1, Preconditions
  <2> QED BY <1>6, <2>3, <2>4
          DEF Fits, CallInv, StartInv, UndoInv, StopInv, Released, LoadInv, AloneInv,
              StopLabels, OffloadLabels, LoadLabels, Alive
<1> QED BY <1>1, <1>2, <1>3, <1>4, <1>5, <1>6

\* A deferred call that changed nothing: there was none, or the VM was not in a state to
\* be served, or the deadline had passed.
LEMMA UndoSkipped ==
  ASSUME NEW v \in VMs, NEW r \in VMRecord, NEW t \in OtherLabels, NEW s \in 2..11,
         NEW call, call = Deferred(StartSteps[s - 1]),
         call = "none" \/ (call # "free" /\ ~Can(call, r)) \/ r.expired,
         Fits(v, r, "undo", t, s, "new", "none")
  PROVE  Fits(v, r, "undo", t, s - 1, "new", "none")
<1>1. CASE r.expired
  BY <1>1 DEF Fits, CallInv, StartInv, UndoInv, StopInv, Released, LoadInv, AloneInv,
          StopLabels, OffloadLabels, LoadLabels, Alive
<1>2. CASE ~r.expired /\ s = 2
  BY <1>2, StepNames, DeferredNames
<1>3. CASE ~r.expired /\ s = 6
  <2>1. r.fc = "none"
    BY <1>3, StepNames, DeferredNames, Preconditions
  <2> QED BY <1>3, <2>1 DEF Fits, CallInv, StartInv, UndoInv, StopInv, Released, LoadInv, AloneInv,
              StopLabels, OffloadLabels, LoadLabels, Alive
<1>4. CASE ~r.expired /\ s = 7
  <2>1. ~(r.container /\ r.task = "none")
    BY <1>4, StepNames, DeferredNames, Preconditions
  <2> QED BY <1>4, <2>1 DEF Fits, CallInv, StartInv, UndoInv, StopInv, Released, LoadInv, AloneInv,
              StopLabels, OffloadLabels, LoadLabels, Alive
<1>5. CASE s \notin {2, 6, 7}
  BY <1>5 DEF Fits, CallInv, StartInv, UndoInv, StopInv, Released, LoadInv, AloneInv,
          StopLabels, OffloadLabels, LoadLabels, Alive
<1> QED BY <1>1, <1>2, <1>3, <1>4, <1>5

LEMMA UndoStepOK ==
  ASSUME IInv, NEW v \in VMs, UndoStep(v)
  PROVE  IInv'
<1> DEFINE r == vm[v]  c == pc["caller"][v]  t == pc["other"][v]
           s == step[v]  o == owner[v]  l == loader[v]
<1>1. /\ TypeInv /\ Fits(v, r, c, t, s, o, l) /\ r \in VMRecord /\ c \in CallerLabels
      /\ t \in OtherLabels /\ s \in 1..11 /\ o \in Owners /\ l \in Loaders
      /\ raced \in BOOLEAN /\ crashed \in BOOLEAN /\ options.isUPFEnabled \in BOOLEAN
      /\ cachedImages \subseteq {ImageOf[w] : w \in VMs} /\ (crashed => raced \/ Shared # {})
  BY Now
<1>2. /\ c = "undo" /\ o = "new" /\ l = "none"
      /\ UNCHANGED <<options, loader, cachedImages, raced, td, listed, strays, crashed>>
  BY <1>1 DEF UndoStep, At, Fits, CallInv, LoadLabels
<1>3. "idle" \in CallerLabels /\ "undo" \in CallerLabels /\ "unstarted" \in Owners
  BY DEF CallerLabels, Owners
<1>4. CASE s = 1 /\ Returns(v, "unstarted") /\ UNCHANGED <<vm, step>>
  <2>1. Moves(v, r, "idle", t, s, "unstarted", l)
    BY <1>1, <1>2, <1>4, CallerGoto, Same DEF Moves, Returns
  <2>2. Fits(v, r, "idle", t, s, "unstarted", l)
    BY <1>1, <1>2, <1>4 DEF Fits, CallInv, StartInv, UndoInv, StopInv, Released, LoadInv, AloneInv,
              StopLabels, OffloadLabels, LoadLabels, Alive
  <2> QED BY <1>1, <1>2, <1>3, <2>1, <2>2, QuietMove
<1>5. CASE s > 1 /\ step' = [step EXCEPT ![v] = s - 1] /\ UNCHANGED <<pc, owner>>
  <2> DEFINE call == Deferred(StartSteps[s - 1])
  <2>1. s \in 2..11 /\ s - 1 \in 1..11
    BY <1>1, <1>5
  <2>2. ASSUME NEW q \in VMRecord, vm' = [vm EXCEPT ![v] = q], Fits(v, q, "undo", t, s - 1, o, l)
        PROVE  IInv'
    <3>1. Moves(v, q, "undo", t, s - 1, o, l)
      BY <1>1, <1>2, <1>5, <2>2, Same DEF Moves
    <3> QED BY <1>1, <1>2, <1>3, <2>1, <2>2, <3>1, QuietMove
  <2>3. CASE call # "none" /\ (call = "free" \/ Can(call, r)) /\ vm' = [vm EXCEPT ![v] = After(call, @)]
    <3> DEFINE q == After(call, r)
    <3>1. vm' = [vm EXCEPT ![v] = q]
      BY <2>3
    <3>2. q \in VMRecord /\ Fits(v, q, "undo", t, s - 1, o, l)
      BY <1>1, <1>2, <2>1, <2>3, UndoFits
    <3> QED BY <2>2, <3>1, <3>2
  <2>4. CASE vm' = [vm EXCEPT ![v].refused = TRUE]
    <3> DEFINE q == [r EXCEPT !.refused = TRUE]
    <3>1. vm' = [vm EXCEPT ![v] = q]
      BY <2>4
    <3>2. \A k \in VMRecord : LET d == [k EXCEPT !.refused = TRUE] IN
            d \in VMRecord /\ (Fits(v, k, "undo", t, s, o, l) => Fits(v, d, "undo", t, s - 1, o, l))
      <4> SUFFICES ASSUME NEW k \in VMRecord, NEW d, d = [k EXCEPT !.refused = TRUE]
                   PROVE  d \in VMRecord /\ (Fits(v, k, "undo", t, s, o, l) => Fits(v, d, "undo", t, s - 1, o, l))
        OBVIOUS
      <4>1. /\ d \in VMRecord /\ d.refused = TRUE /\ d.pool = k.pool /\ d.handle = k.handle
            /\ d.container = k.container /\ d.task = k.task /\ d.fc = k.fc /\ d.mm = k.mm
            /\ d.io = k.io /\ d.expired = k.expired
        BY DEF VMRecord
      <4> QED BY <1>2, <4>1 DEF Fits, CallInv, StartInv, UndoInv, StopInv, Released, LoadInv, AloneInv,
                  StopLabels, OffloadLabels, LoadLabels, Alive
    <3>3. q \in VMRecord /\ Fits(v, q, "undo", t, s - 1, o, l)
      BY <1>1, <1>2, <3>2
    <3> QED BY <2>2, <3>1, <3>3
  <2>5. CASE vm' = vm /\ (call = "none" \/ (call # "free" /\ ~Can(call, r)) \/ r.expired)
    <3>1. Fits(v, r, "undo", t, s - 1, o, l)
      BY <1>1, <1>2, <2>1, <2>5, UndoSkipped
    <3> QED BY <1>1, <2>2, <2>5, <3>1, Same
  <2>6. \/ call # "none" /\ (call = "free" \/ (CallOK(call, v) /\ ~vm[v].expired)) /\ Apply(call, v)
        \/ vm' = [vm EXCEPT ![v].refused = TRUE]
        \/ /\ call # "none" /\ ~(call = "free" \/ (CallOK(call, v) /\ ~vm[v].expired))
           /\ call \notin Broken[v] /\ td # "closed" /\ UNCHANGED vm
        \/ call = "none" /\ UNCHANGED vm
    BY <1>5 DEF UndoStep
  <2> QED BY <2>3, <2>4, <2>5, <2>6 DEF CallOK, Apply, After
<1> QED BY <1>1, <1>4, <1>5 DEF UndoStep

StopCalls == {"kill", "deleteTask", "deleteContainer", "stopVM"}

LEMMA NextStopFacts ==
  /\ DOMAIN NextStop = StopCalls
  /\ NextStop["kill"] = "await" /\ NextStop["deleteTask"] = "deleteContainer"
  /\ NextStop["deleteContainer"] = "stopVM" /\ NextStop["stopVM"] = "free"
BY DEF NextStop, StopCalls

\* A call of StopSingleVM that was served, for the caller or for somebody else.
LEMMA StopFits ==
  ASSUME NEW v \in VMs, NEW r \in VMRecord, NEW c \in CallerLabels, NEW t \in OtherLabels,
         NEW s \in 1..11, NEW o \in Owners, NEW l \in Loaders, NEW q,
         NEW call \in StopCalls, call \in {c, t}, Can(call, r), q = After(call, r),
         Fits(v, r, c, t, s, o, l)
  PROVE  /\ q \in VMRecord
         /\ call = c => Fits(v, q, NextStop[call], t, s, o, l)
         /\ call = t => Fits(v, q, c, NextStop[call], s, o, l)
<1>1. CASE call = "kill"
  <2>1. q = [r EXCEPT !.task = "dying"]
    BY <1>1, StopOutcomes
  <2>2. /\ q \in VMRecord
        /\ q.task = "dying" /\ q.pool = r.pool /\ q.handle = r.handle /\ q.container = r.container /\ q.fc = r.fc
        /\ q.snap = r.snap /\ q.mm = r.mm /\ q.io = r.io /\ q.expired = r.expired /\ q.refused = r.refused
    BY <2>1 DEF VMRecord
  <2>3. r.task \in {"created", "running", "dying"}
    BY <1>1, Preconditions
  <2>4. r # NoVM
    BY <2>3 DEF NoVM
  <2>5. call = c => Fits(v, q, NextStop[call], t, s, o, l)
    BY <1>1, <2>2, <2>3, <2>4, NextStopFacts DEF Fits, CallInv, StartInv, UndoInv, StopInv, Released, LoadInv, AloneInv,
        StopLabels, OffloadLabels, LoadLabels, Alive
  <2>6. call = t => Fits(v, q, c, NextStop[call], s, o, l)
    BY <1>1, <2>2, <2>3, <2>4, NextStopFacts DEF Fits, CallInv, StartInv, UndoInv, StopInv, Released, LoadInv, AloneInv,
        StopLabels, OffloadLabels, LoadLabels, Alive
  <2> QED BY <2>2, <2>5, <2>6
<1>2. CASE call = "deleteTask"
  <2>1. q = [r EXCEPT !.task = "none"]
    BY <1>2, StopOutcomes
  <2>2. /\ q \in VMRecord
        /\ q.task = "none" /\ q.pool = r.pool /\ q.handle = r.handle /\ q.container = r.container /\ q.fc = r.fc
        /\ q.snap = r.snap /\ q.mm = r.mm /\ q.io = r.io /\ q.expired = r.expired /\ q.refused = r.refused
    BY <2>1 DEF VMRecord
  <2>3. r.task = "exited"
    BY <1>2, Preconditions
  <2>4. r # NoVM
    BY <2>3 DEF NoVM
  <2>5. call = c => Fits(v, q, NextStop[call], t, s, o, l)
    BY <1>2, <2>2, <2>3, <2>4, NextStopFacts DEF Fits, CallInv, StartInv, UndoInv, StopInv, Released, LoadInv, AloneInv,
        StopLabels, OffloadLabels, LoadLabels, Alive
  <2>6. call = t => Fits(v, q, c, NextStop[call], s, o, l)
    BY <1>2, <2>2, <2>3, <2>4, NextStopFacts DEF Fits, CallInv, StartInv, UndoInv, StopInv, Released, LoadInv, AloneInv,
        StopLabels, OffloadLabels, LoadLabels, Alive
  <2> QED BY <2>2, <2>5, <2>6
<1>3. CASE call = "deleteContainer"
  <2>1. q = [r EXCEPT !.container = FALSE]
    BY <1>3, StopOutcomes
  <2>2. /\ q \in VMRecord
        /\ q.container = FALSE /\ q.pool = r.pool /\ q.handle = r.handle /\ q.task = r.task /\ q.fc = r.fc
        /\ q.snap = r.snap /\ q.mm = r.mm /\ q.io = r.io /\ q.expired = r.expired /\ q.refused = r.refused
    BY <2>1 DEF VMRecord
  <2>3. r.container /\ r.task = "none"
    BY <1>3, Preconditions
  <2>4. r # NoVM
    BY <2>3 DEF NoVM
  <2>5. call = c => Fits(v, q, NextStop[call], t, s, o, l)
    BY <1>3, <2>2, <2>3, <2>4, NextStopFacts DEF Fits, CallInv, StartInv, UndoInv, StopInv, Released, LoadInv, AloneInv,
        StopLabels, OffloadLabels, LoadLabels, Alive
  <2>6. call = t => Fits(v, q, c, NextStop[call], s, o, l)
    BY <1>3, <2>2, <2>3, <2>4, NextStopFacts DEF Fits, CallInv, StartInv, UndoInv, StopInv, Released, LoadInv, AloneInv,
        StopLabels, OffloadLabels, LoadLabels, Alive
  <2> QED BY <2>2, <2>5, <2>6
<1>4. CASE call = "stopVM"
  <2>1. PICK k : k = (IF r.task = "none" THEN "none" ELSE "exited") /\ q = [r EXCEPT !.fc = "none", !.task = k]
    BY <1>4, StopOutcomes
  <2>2. /\ q \in VMRecord
        /\ q.fc = "none" /\ q.task = k /\ q.pool = r.pool /\ q.handle = r.handle /\ q.container = r.container
        /\ q.snap = r.snap /\ q.mm = r.mm /\ q.io = r.io /\ q.expired = r.expired /\ q.refused = r.refused
    BY <2>1 DEF VMRecord
  <2>3. r.fc # "none"
    BY <1>4, Preconditions
  <2>4. r # NoVM
    BY <2>3 DEF NoVM
  <2>5. call = c => Fits(v, q, NextStop[call], t, s, o, l)
    BY <1>4, <2>1, <2>2, <2>3, <2>4, NextStopFacts DEF Fits, CallInv, StartInv, UndoInv, StopInv, Released, LoadInv, AloneInv,
        StopLabels, OffloadLabels, LoadLabels, Alive
  <2>6. call = t => Fits(v, q, c, NextStop[call], s, o, l)
    BY <1>4, <2>1, <2>2, <2>3, <2>4, NextStopFacts DEF Fits, CallInv, StartInv, UndoInv, StopInv, Released, LoadInv, AloneInv,
        StopLabels, OffloadLabels, LoadLabels, Alive
  <2> QED BY <2>2, <2>5, <2>6
<1> QED BY <1>1, <1>2, <1>3, <1>4 DEF StopCalls

LEMMA StopStepOK ==
  ASSUME IInv, NEW v \in VMs, NEW a \in Actors, StopStep(a, v)
  PROVE  IInv'
<1> DEFINE r == vm[v]  c == pc["caller"][v]  t == pc["other"][v]
           s == step[v]  o == owner[v]  l == loader[v]
<1>1. /\ TypeInv /\ Fits(v, r, c, t, s, o, l) /\ r \in VMRecord /\ c \in CallerLabels
      /\ t \in OtherLabels /\ s \in 1..11 /\ o \in Owners /\ l \in Loaders
      /\ raced \in BOOLEAN /\ crashed \in BOOLEAN /\ options.isUPFEnabled \in BOOLEAN
      /\ cachedImages \subseteq {ImageOf[w] : w \in VMs} /\ (crashed => raced \/ Shared # {})
  BY Now
<1> DEFINE call == pc[a][v]
             q == After(call, r)
<1>2. /\ call \in StopCalls /\ call \in {c, t} /\ (a = "caller" => call = c) /\ (a = "other" => call = t)
      /\ UNCHANGED <<options, step, loader, cachedImages, raced, td, listed, strays, crashed>>
  BY NextStopFacts DEF StopStep, Actors
<1>3. /\ NextStop[call] \in CallerLabels /\ NextStop[call] \in OtherLabels
      /\ {"stopped", "failed"} \subseteq Owners /\ {"stopped", "failed"} \subseteq OtherLabels
      /\ "idle" \in CallerLabels
  BY <1>2, NextStopFacts DEF StopCalls, CallerLabels, OtherLabels, StopLabels, Owners
<1>4. CASE CallOK(call, v) /\ Apply(call, v) /\ Goto(a, v, NextStop[call]) /\ UNCHANGED owner
  <2>1. Can(call, r) /\ vm' = [vm EXCEPT ![v] = q]
    BY <1>4 DEF CallOK, Apply, After
  <2>2. /\ q \in VMRecord
        /\ call = c => Fits(v, q, NextStop[call], t, s, o, l)
        /\ call = t => Fits(v, q, c, NextStop[call], s, o, l)
    BY <1>1, <1>2, <2>1, StopFits
  <2>3. CASE a = "caller"
    <3>1. Moves(v, q, NextStop[call], t, s, o, l)
      BY <1>1, <1>2, <1>4, <2>1, <2>3, CallerGoto, Same DEF Moves
    <3> QED BY <1>1, <1>2, <1>3, <2>2, <2>3, <3>1, QuietMove
  <2>4. CASE a = "other"
    <3>1. Moves(v, q, c, NextStop[call], s, o, l)
      BY <1>1, <1>2, <1>4, <2>1, <2>4, OtherGoto, Same DEF Moves
    <3> QED BY <1>1, <1>2, <1>3, <2>2, <2>4, <3>1, QuietMove
  <2> QED BY <2>3, <2>4 DEF Actors
<1>5. CASE StopEnds(a, v, FALSE) /\ UNCHANGED vm
  <2>1. CASE a = "caller"
    <3>1. Moves(v, r, "idle", t, s, "failed", l)
      BY <1>1, <1>2, <1>5, <2>1, CallerGoto, Same DEF Moves, StopEnds, Returns
    <3>2. Fits(v, r, "idle", t, s, "failed", l)
      BY <1>1, <1>2, <2>1 DEF Fits, CallInv, StartInv, UndoInv, StopInv, Released, LoadInv, AloneInv,
              StopLabels, OffloadLabels, LoadLabels, Alive, StopCalls
    <3> QED BY <1>1, <1>2, <1>3, <3>1, <3>2, QuietMove
  <2>2. CASE a = "other"
    <3>1. Moves(v, r, c, "failed", s, o, l)
      BY <1>1, <1>2, <1>5, <2>2, OtherGoto, Same DEF Moves, StopEnds
    <3>2. Fits(v, r, c, "failed", s, o, l)
      BY <1>1, <1>2, <2>2 DEF Fits, CallInv, StartInv, UndoInv, StopInv, Released, LoadInv, AloneInv,
              StopLabels, OffloadLabels, LoadLabels, Alive, StopCalls
    <3> QED BY <1>1, <1>2, <1>3, <3>1, <3>2, QuietMove
  <2> QED BY <2>1, <2>2 DEF Actors
<1> QED BY <1>4, <1>5 DEF StopStep

\* StopSingleVM panics only for a VM that somebody else stops.
LEMMA StopGetVMStep ==
  ASSUME IInv, NEW v \in VMs, NEW a \in Actors, StopGetVM(a, v)
  PROVE  IInv'
<1> DEFINE r == vm[v]  c == pc["caller"][v]  t == pc["other"][v]
           s == step[v]  o == owner[v]  l == loader[v]
<1>1. /\ TypeInv /\ Fits(v, r, c, t, s, o, l) /\ r \in VMRecord /\ c \in CallerLabels
      /\ t \in OtherLabels /\ s \in 1..11 /\ o \in Owners /\ l \in Loaders
      /\ raced \in BOOLEAN /\ crashed \in BOOLEAN /\ options.isUPFEnabled \in BOOLEAN
      /\ cachedImages \subseteq {ImageOf[w] : w \in VMs} /\ (crashed => raced \/ Shared # {})
  BY Now
<1>2. pc[a][v] = "getVM" /\ (a = "caller" => c = "getVM") /\ (a = "other" => t = "getVM")
  BY DEF StopGetVM, At
<1>3. v \notin Shared => r.pool /\ r.handle # "none" /\ a = "caller"
  BY <1>1, <1>2 DEF Fits, CallInv, StartInv, UndoInv, StopInv, Released, LoadInv, AloneInv,
          StopLabels, OffloadLabels, LoadLabels, Alive, Actors
<1>4. CASE (~GetVM(v) \/ vm[v].handle = "none") /\ Panic
  <2>1. Shared # {}
    BY <1>3, <1>4 DEF GetVM
  <2> QED BY <1>1, <1>4, <2>1, PanicOK DEF Panic
<1>5. CASE /\ vm[v].handle # "none" /\ Goto(a, v, "kill")
           /\ UNCHANGED <<options, vm, step, owner, loader, cachedImages, raced, td, listed, strays, crashed>>
  <2>1. "kill" \in CallerLabels /\ "kill" \in OtherLabels
    BY DEF CallerLabels, OtherLabels, StopLabels
  <2>2. CASE a = "caller"
    <3>1. Moves(v, r, "kill", t, s, o, l)
      BY <1>1, <1>5, <2>2, CallerGoto, Same DEF Moves
    <3>2. Fits(v, r, "kill", t, s, o, l)
      BY <1>1, <1>2, <1>5, <2>2 DEF Fits, CallInv, StartInv, UndoInv, StopInv, Released, LoadInv, AloneInv,
              StopLabels, OffloadLabels, LoadLabels, Alive
    <3> QED BY <1>1, <1>5, <2>1, <3>1, <3>2, QuietMove
  <2>3. CASE a = "other"
    <3>1. Moves(v, r, c, "kill", s, o, l)
      BY <1>1, <1>5, <2>3, OtherGoto, Same DEF Moves
    <3>2. Fits(v, r, c, "kill", s, o, l)
      BY <1>1, <1>2, <1>5, <2>3 DEF Fits, CallInv, StartInv, UndoInv, StopInv, Released, LoadInv, AloneInv,
              StopLabels, OffloadLabels, LoadLabels, Alive
    <3> QED BY <1>1, <1>5, <2>1, <3>1, <3>2, QuietMove
  <2> QED BY <2>2, <2>3 DEF Actors
<1> QED BY <1>4, <1>5 DEF StopGetVM

LEMMA StopAwaitStep ==
  ASSUME IInv, NEW v \in VMs, NEW a \in Actors, StopAwait(a, v)
  PROVE  IInv'
<1> DEFINE r == vm[v]  c == pc["caller"][v]  t == pc["other"][v]
           s == step[v]  o == owner[v]  l == loader[v]
<1>1. /\ TypeInv /\ Fits(v, r, c, t, s, o, l) /\ r \in VMRecord /\ c \in CallerLabels
      /\ t \in OtherLabels /\ s \in 1..11 /\ o \in Owners /\ l \in Loaders
      /\ raced \in BOOLEAN /\ crashed \in BOOLEAN /\ options.isUPFEnabled \in BOOLEAN
      /\ cachedImages \subseteq {ImageOf[w] : w \in VMs} /\ (crashed => raced \/ Shared # {})
  BY Now
<1>2. /\ pc[a][v] = "await" /\ (a = "caller" => c = "await") /\ (a = "other" => t = "await")
      /\ UNCHANGED <<options, vm, step, owner, loader, cachedImages, raced, td, listed, strays, crashed>>
  BY DEF StopAwait, At
<1>3. PICK label \in {"blocked", "deleteTask"} : Goto(a, v, label)
  BY DEF StopAwait
<1>4. label \in CallerLabels /\ label \in OtherLabels
  BY DEF CallerLabels, OtherLabels, StopLabels
<1>5. CASE a = "caller"
  <2>1. Moves(v, r, label, t, s, o, l)
    BY <1>1, <1>2, <1>3, <1>5, CallerGoto, Same DEF Moves
  <2>2. Fits(v, r, label, t, s, o, l)
    BY <1>1, <1>2, <1>5 DEF Fits, CallInv, StartInv, UndoInv, StopInv, Released, LoadInv, AloneInv,
              StopLabels, OffloadLabels, LoadLabels, Alive
  <2> QED BY <1>1, <1>2, <1>4, <2>1, <2>2, QuietMove
<1>6. CASE a = "other"
  <2>1. Moves(v, r, c, label, s, o, l)
    BY <1>1, <1>2, <1>3, <1>6, OtherGoto, Same DEF Moves
  <2>2. Fits(v, r, c, label, s, o, l)
    BY <1>1, <1>2, <1>6 DEF Fits, CallInv, StartInv, UndoInv, StopInv, Released, LoadInv, AloneInv,
              StopLabels, OffloadLabels, LoadLabels, Alive
  <2> QED BY <1>1, <1>2, <1>4, <2>1, <2>2, QuietMove
<1> QED BY <1>5, <1>6 DEF Actors

\* The last step of StopSingleVM, after which everything is released.
LEMMA FreedFits ==
  ASSUME NEW v \in VMs, NEW r \in VMRecord, NEW c \in CallerLabels, NEW t \in OtherLabels,
         NEW s \in 1..11, NEW o \in Owners, NEW l \in Loaders, NEW q,
         q = [r EXCEPT !.pool = FALSE, !.io = FALSE], Fits(v, r, c, t, s, o, l)
  PROVE  /\ q \in VMRecord
         /\ c = "free" => Fits(v, q, "idle", t, s, "stopped", l)
         /\ t = "free" => Fits(v, q, c, "stopped", s, o, l)
<1>1. /\ q \in VMRecord
      /\ q.pool = FALSE /\ q.io = FALSE /\ q.handle = r.handle /\ q.container = r.container /\ q.task = r.task
      /\ q.fc = r.fc /\ q.snap = r.snap /\ q.mm = r.mm /\ q.expired = r.expired /\ q.refused = r.refused
  BY DEF VMRecord
<1>2. c = "free" => Fits(v, q, "idle", t, s, "stopped", l)
  BY <1>1 DEF Fits, CallInv, StartInv, UndoInv, StopInv, Released, LoadInv, AloneInv,
          StopLabels, OffloadLabels, LoadLabels, Alive
<1>3. t = "free" => Fits(v, q, c, "stopped", s, o, l)
  <2>1. t = "free" => r # NoVM
    BY DEF Fits, StopInv, Released, StopLabels, NoVM
  <2> QED BY <1>1, <2>1 DEF Fits, CallInv, StartInv, UndoInv, StopInv, Released, LoadInv, AloneInv,
              StopLabels, OffloadLabels, LoadLabels, Alive
<1> QED BY <1>1, <1>2, <1>3

LEMMA StopFreeStep ==
  ASSUME IInv, NEW v \in VMs, NEW a \in Actors, StopFree(a, v)
  PROVE  IInv'
<1> DEFINE r == vm[v]  c == pc["caller"][v]  t == pc["other"][v]
           s == step[v]  o == owner[v]  l == loader[v]
<1>1. /\ TypeInv /\ Fits(v, r, c, t, s, o, l) /\ r \in VMRecord /\ c \in CallerLabels
      /\ t \in OtherLabels /\ s \in 1..11 /\ o \in Owners /\ l \in Loaders
      /\ raced \in BOOLEAN /\ crashed \in BOOLEAN /\ options.isUPFEnabled \in BOOLEAN
      /\ cachedImages \subseteq {ImageOf[w] : w \in VMs} /\ (crashed => raced \/ Shared # {})
  BY Now
<1>2. /\ pc[a][v] = "free" /\ (a = "caller" => c = "free") /\ (a = "other" => t = "free")
      /\ UNCHANGED <<options, step, loader, cachedImages, raced, td, listed, strays, crashed>>
  BY DEF StopFree, At
<1>3. /\ {"stopped", "failed"} \subseteq Owners /\ {"stopped", "failed"} \subseteq OtherLabels
      /\ "idle" \in CallerLabels
  BY DEF CallerLabels, OtherLabels, Owners
<1> DEFINE q == [r EXCEPT !.pool = FALSE, !.io = FALSE]
<1>4. CASE vm' = [vm EXCEPT ![v].pool = FALSE, ![v].io = FALSE] /\ StopEnds(a, v, TRUE)
  <2>1. vm' = [vm EXCEPT ![v] = q]
    BY <1>1, <1>4, TypeFacts
  <2>2. /\ q \in VMRecord
        /\ c = "free" => Fits(v, q, "idle", t, s, "stopped", l)
        /\ t = "free" => Fits(v, q, c, "stopped", s, o, l)
    BY <1>1, FreedFits
  <2> HIDE DEF q
  <2>3. CASE a = "caller"
    <3>1. Moves(v, q, "idle", t, s, "stopped", l)
      BY <1>1, <1>2, <1>4, <2>1, <2>3, CallerGoto, Same DEF Moves, StopEnds, Returns
    <3> QED BY <1>1, <1>2, <1>3, <2>2, <2>3, <3>1, QuietMove
  <2>4. CASE a = "other"
    <3>1. Moves(v, q, c, "stopped", s, o, l)
      BY <1>1, <1>2, <1>4, <2>1, <2>4, OtherGoto, Same DEF Moves, StopEnds
    <3> QED BY <1>1, <1>2, <1>3, <2>2, <2>4, <3>1, QuietMove
  <2> QED BY <2>3, <2>4 DEF Actors
<1>5. CASE StopEnds(a, v, FALSE) /\ UNCHANGED vm
  <2>1. CASE a = "caller"
    <3>1. Moves(v, r, "idle", t, s, "failed", l)
      BY <1>1, <1>2, <1>5, <2>1, CallerGoto, Same DEF Moves, StopEnds, Returns
    <3>2. Fits(v, r, "idle", t, s, "failed", l)
      BY <1>1, <1>2, <2>1 DEF Fits, CallInv, StartInv, UndoInv, StopInv, Released, LoadInv, AloneInv,
              StopLabels, OffloadLabels, LoadLabels, Alive
    <3> QED BY <1>1, <1>2, <1>3, <3>1, <3>2, QuietMove
  <2>2. CASE a = "other"
    <3>1. Moves(v, r, c, "failed", s, o, l)
      BY <1>1, <1>2, <1>5, <2>2, OtherGoto, Same DEF Moves, StopEnds
    <3>2. Fits(v, r, c, "failed", s, o, l)
      BY <1>1, <1>2, <2>2 DEF Fits, CallInv, StartInv, UndoInv, StopInv, Released, LoadInv, AloneInv,
              StopLabels, OffloadLabels, LoadLabels, Alive
    <3> QED BY <1>1, <1>2, <1>3, <3>1, <3>2, QuietMove
  <2> QED BY <2>1, <2>2 DEF Actors
<1> QED BY <1>4, <1>5 DEF StopFree

-----------------------------------------------------------------------------
(* The calls of one step, Offload and LoadSnapshot. *)

\* One field of the record changes.
LEMMA SetFC ==
  ASSUME NEW r \in VMRecord, NEW f \in {"none", "running", "paused", "offloaded", "loaded", "resumed"},
         NEW q, q = [r EXCEPT !.fc = f]
  PROVE  /\ q \in VMRecord
         /\ q.fc = f /\ q.pool = r.pool /\ q.handle = r.handle /\ q.container = r.container /\ q.task = r.task
         /\ q.snap = r.snap /\ q.mm = r.mm /\ q.io = r.io /\ q.expired = r.expired /\ q.refused = r.refused
BY DEF VMRecord

LEMMA SetMM ==
  ASSUME NEW r \in VMRecord, NEW m \in {"none", "registered", "active", "inactive", "unpolled"},
         NEW q, q = [r EXCEPT !.mm = m]
  PROVE  /\ q \in VMRecord
         /\ q.mm = m /\ q.pool = r.pool /\ q.handle = r.handle /\ q.container = r.container /\ q.task = r.task
         /\ q.fc = r.fc /\ q.snap = r.snap /\ q.io = r.io /\ q.expired = r.expired /\ q.refused = r.refused
BY DEF VMRecord

LEMMA SetSnap ==
  ASSUME NEW r \in VMRecord, NEW b \in BOOLEAN, NEW q, q = [r EXCEPT !.snap = b]
  PROVE  /\ q \in VMRecord
         /\ q.snap = b /\ q.pool = r.pool /\ q.handle = r.handle /\ q.container = r.container /\ q.task = r.task
         /\ q.fc = r.fc /\ q.mm = r.mm /\ q.io = r.io /\ q.expired = r.expired /\ q.refused = r.refused
BY DEF VMRecord

LEMMA TaskExitsStep ==
  ASSUME IInv, NEW v \in VMs, TaskExits(v)
  PROVE  IInv'
<1> DEFINE r == vm[v]  c == pc["caller"][v]  t == pc["other"][v]
           s == step[v]  o == owner[v]  l == loader[v]
<1>1. /\ TypeInv /\ Fits(v, r, c, t, s, o, l) /\ r \in VMRecord /\ c \in CallerLabels
      /\ t \in OtherLabels /\ s \in 1..11 /\ o \in Owners /\ l \in Loaders
      /\ raced \in BOOLEAN /\ crashed \in BOOLEAN /\ options.isUPFEnabled \in BOOLEAN
      /\ cachedImages \subseteq {ImageOf[w] : w \in VMs} /\ (crashed => raced \/ Shared # {})
  BY Now
<1>2. /\ r.task = "dying" /\ vm' = [vm EXCEPT ![v].task = "exited"]
      /\ UNCHANGED <<options, pc, step, owner, loader, cachedImages, raced, td, listed, strays, crashed>>
  BY DEF TaskExits
<1>3. ASSUME NEW q, q = [r EXCEPT !.task = "exited"]
      PROVE  q \in VMRecord /\ Fits(v, q, c, t, s, o, l)
  <2>1. /\ q \in VMRecord
        /\ q.task = "exited" /\ q.pool = r.pool /\ q.handle = r.handle /\ q.container = r.container /\ q.fc = r.fc
        /\ q.snap = r.snap /\ q.mm = r.mm /\ q.io = r.io /\ q.expired = r.expired /\ q.refused = r.refused
    BY <1>1, <1>3 DEF VMRecord
  <2>2. r # NoVM
    BY <1>2 DEF NoVM
  <2> QED BY <1>1, <1>2, <2>1, <2>2 DEF Fits, CallInv, StartInv, UndoInv, StopInv, Released, LoadInv, AloneInv,
              StopLabels, OffloadLabels, LoadLabels, Alive
<1>4. Moves(v, [r EXCEPT !.task = "exited"], c, t, s, o, l)
  BY <1>1, <1>2, Same DEF Moves
<1> QED BY <1>1, <1>2, <1>3, <1>4, QuietMove

LEMMA StopSingleVMStep ==
  ASSUME IInv, NEW v \in VMs, StopSingleVM(v)
  PROVE  IInv'
<1> DEFINE r == vm[v]  c == pc["caller"][v]  t == pc["other"][v]
           s == step[v]  o == owner[v]  l == loader[v]
<1>1. /\ TypeInv /\ Fits(v, r, c, t, s, o, l) /\ r \in VMRecord /\ c \in CallerLabels
      /\ t \in OtherLabels /\ s \in 1..11 /\ o \in Owners /\ l \in Loaders
      /\ raced \in BOOLEAN /\ crashed \in BOOLEAN /\ options.isUPFEnabled \in BOOLEAN
      /\ cachedImages \subseteq {ImageOf[w] : w \in VMs} /\ (crashed => raced \/ Shared # {})
  BY Now
<1>2. c = "idle" /\ o = "up" /\ Goto("caller", v, "getVM")
  BY DEF StopSingleVM, At
<1>3. Moves(v, r, "getVM", t, s, o, l)
  BY <1>1, <1>2, CallerGoto, Same DEF StopSingleVM, Moves
<1>4. Fits(v, r, "getVM", t, s, o, l)
  BY <1>1, <1>2 DEF Fits, CallInv, StartInv, UndoInv, StopInv, Released, LoadInv, AloneInv,
          StopLabels, OffloadLabels, LoadLabels, Alive
<1>5. "getVM" \in CallerLabels
  BY DEF CallerLabels, StopLabels
<1> QED BY <1>1, <1>3, <1>4, <1>5, QuietMove DEF StopSingleVM

\* Pause, resume and snapshot, served.
LEMMA OneCallFits ==
  ASSUME NEW v \in VMs, NEW r \in VMRecord, NEW t \in OtherLabels, NEW s \in 1..11,
         NEW o \in Owners, NEW l \in Loaders, NEW q, NEW call, NEW to,
         options.isUPFEnabled \in BOOLEAN,
         \/ call = "pause" /\ o = "up" /\ to = "paused"
         \/ call = "resume" /\ o \in {"paused", "loaded"} /\ to = "up"
         \/ call = "createSnapshot" /\ o = "paused" /\ to = "paused",
         Can(call, r), q = After(call, r), Fits(v, r, "idle", t, s, o, l)
  PROVE  q \in VMRecord /\ Fits(v, q, "idle", t, s, to, l)
<1>1. CASE call = "pause" /\ o = "up" /\ to = "paused"
  <2>1. q = [r EXCEPT !.fc = "paused"] /\ r.fc # "none"
    BY <1>1, SnapshotOutcomes, Preconditions
  <2>2. /\ q \in VMRecord
        /\ q.fc = "paused" /\ q.pool = r.pool /\ q.handle = r.handle /\ q.container = r.container /\ q.task = r.task
        /\ q.snap = r.snap /\ q.mm = r.mm /\ q.io = r.io /\ q.expired = r.expired /\ q.refused = r.refused
    BY <2>1, SetFC
  <2> QED BY <1>1, <2>1, <2>2 DEF Fits, CallInv, StartInv, UndoInv, StopInv, Released, LoadInv, AloneInv,
              StopLabels, OffloadLabels, LoadLabels, Alive
<1>2. CASE call = "resume" /\ o \in {"paused", "loaded"} /\ to = "up"
  <2>1. PICK f : /\ q = [r EXCEPT !.fc = f]
                 /\ f = (IF r.fc = "loaded" /\ options.isUPFEnabled THEN "resumed" ELSE "running")
    BY <1>2, SnapshotOutcomes
  <2>2. /\ q \in VMRecord
        /\ q.fc = f /\ q.pool = r.pool /\ q.handle = r.handle /\ q.container = r.container /\ q.task = r.task
        /\ q.snap = r.snap /\ q.mm = r.mm /\ q.io = r.io /\ q.expired = r.expired /\ q.refused = r.refused
    <3>1. f \in {"none", "running", "paused", "offloaded", "loaded", "resumed"}
      BY <2>1
    <3> QED BY <2>1, <3>1, SetFC
  <2>3. r.fc \in {"paused", "loaded"}
    BY <1>2, Preconditions
  <2> QED BY <1>2, <2>1, <2>2, <2>3 DEF Fits, CallInv, StartInv, UndoInv, StopInv, Released, LoadInv, AloneInv,
              StopLabels, OffloadLabels, LoadLabels, Alive
<1>3. CASE call = "createSnapshot" /\ o = "paused" /\ to = "paused"
  <2>1. q = [r EXCEPT !.snap = TRUE]
    BY <1>3, SnapshotOutcomes
  <2>2. /\ q \in VMRecord
        /\ q.snap = TRUE /\ q.pool = r.pool /\ q.handle = r.handle /\ q.container = r.container /\ q.task = r.task
        /\ q.fc = r.fc /\ q.mm = r.mm /\ q.io = r.io /\ q.expired = r.expired /\ q.refused = r.refused
    BY <2>1, SetSnap
  <2> QED BY <1>3, <2>2 DEF Fits, CallInv, StartInv, UndoInv, StopInv, Released, LoadInv, AloneInv,
              StopLabels, OffloadLabels, LoadLabels, Alive
<1> QED BY <1>1, <1>2, <1>3

LEMMA OneCallStep ==
  ASSUME IInv, NEW v \in VMs, PauseVM(v) \/ ResumeVM(v) \/ CreateSnapshot(v)
  PROVE  IInv'
<1> DEFINE r == vm[v]  c == pc["caller"][v]  t == pc["other"][v]
           s == step[v]  o == owner[v]  l == loader[v]
<1>1. /\ TypeInv /\ Fits(v, r, c, t, s, o, l) /\ r \in VMRecord /\ c \in CallerLabels
      /\ t \in OtherLabels /\ s \in 1..11 /\ o \in Owners /\ l \in Loaders
      /\ raced \in BOOLEAN /\ crashed \in BOOLEAN /\ options.isUPFEnabled \in BOOLEAN
      /\ cachedImages \subseteq {ImageOf[w] : w \in VMs} /\ (crashed => raced \/ Shared # {})
  BY Now
<1>2. PICK call, to, from :
        /\ OneCall(v, call, from, to)
        /\ \/ call = "pause" /\ o = "up" /\ to = "paused"
           \/ call = "resume" /\ o \in {"paused", "loaded"} /\ to = "up"
           \/ call = "createSnapshot" /\ o = "paused" /\ to = "paused"
  BY DEF PauseVM, ResumeVM, CreateSnapshot, OneCall
<1>3. /\ c = "idle" /\ to \in Owners /\ "failed" \in Owners
      /\ UNCHANGED <<options, pc, step, loader, cachedImages, raced, td, listed, strays, crashed>>
  BY <1>2 DEF OneCall, At, Owners
<1>4. CASE CallOK(call, v) /\ Apply(call, v) /\ owner' = [owner EXCEPT ![v] = to]
  <2> DEFINE q == After(call, r)
  <2>1. Can(call, r) /\ vm' = [vm EXCEPT ![v] = q]
    BY <1>4 DEF CallOK, Apply, After
  <2>2. q \in VMRecord /\ Fits(v, q, c, t, s, to, l)
    <3>1. Fits(v, r, "idle", t, s, o, l)
      BY <1>1, <1>3
    <3>2. /\ r \in VMRecord /\ t \in OtherLabels /\ s \in 1..11 /\ o \in Owners /\ l \in Loaders
          /\ options.isUPFEnabled \in BOOLEAN
      BY <1>1
    <3> HIDE DEF r, t, s, o, l, c, q
    <3>3. q = After(call, r)
      BY DEF q
    <3>4. Can(call, r)
      BY <2>1
    <3>5. q \in VMRecord /\ Fits(v, q, "idle", t, s, to, l)
      BY <1>2, <3>1, <3>2, <3>3, <3>4, OneCallFits
    <3> QED BY <1>3, <3>5
  <2>3. Moves(v, q, c, t, s, to, l)
    BY <1>1, <1>3, <1>4, <2>1, Same DEF Moves
  <2> QED BY <1>1, <1>3, <2>2, <2>3, QuietMove
<1>5. CASE owner' = [owner EXCEPT ![v] = "failed"] /\ UNCHANGED vm
  <2>1. Moves(v, r, c, t, s, "failed", l)
    BY <1>1, <1>3, <1>5, Same DEF Moves
  <2>2. Fits(v, r, c, t, s, "failed", l)
    BY <1>1, <1>2, <1>3 DEF Fits, CallInv, StartInv, UndoInv, StopInv, Released, LoadInv, AloneInv,
              StopLabels, OffloadLabels, LoadLabels, Alive
  <2> QED BY <1>1, <1>3, <2>1, <2>2, QuietMove
<1> QED BY <1>2, <1>4, <1>5 DEF OneCall

\* Offload panics only for a VM that somebody else has stopped.
LEMMA OffloadStep ==
  ASSUME IInv, NEW v \in VMs, Offload(v)
  PROVE  IInv'
<1> DEFINE r == vm[v]  c == pc["caller"][v]  t == pc["other"][v]
           s == step[v]  o == owner[v]  l == loader[v]
<1>1. /\ TypeInv /\ Fits(v, r, c, t, s, o, l) /\ r \in VMRecord /\ c \in CallerLabels
      /\ t \in OtherLabels /\ s \in 1..11 /\ o \in Owners /\ l \in Loaders
      /\ raced \in BOOLEAN /\ crashed \in BOOLEAN /\ options.isUPFEnabled \in BOOLEAN
      /\ cachedImages \subseteq {ImageOf[w] : w \in VMs} /\ (crashed => raced \/ Shared # {})
  BY Now
<1>2. c = "idle" /\ o \in {"up", "paused"}
  BY DEF Offload, At
<1>3. CASE ~GetVM(v) /\ Panic
  <2>1. Shared # {}
    BY <1>1, <1>2, <1>3 DEF GetVM, Fits, AloneInv, Alive
  <2> QED BY <1>1, <1>3, <2>1, PanicOK DEF Panic
<1>4. ASSUME NEW label \in {"deactivate", "fcOffload"}, Goto("caller", v, label),
             UNCHANGED <<options, vm, step, owner, loader, cachedImages, raced, td, listed, strays, crashed>>
      PROVE  IInv'
  <2>1. label \in CallerLabels
    BY DEF CallerLabels, OffloadLabels
  <2>2. Moves(v, r, label, t, s, o, l)
    BY <1>1, <1>4, CallerGoto, Same DEF Moves
  <2>3. Fits(v, r, label, t, s, o, l)
    BY <1>1, <1>2 DEF Fits, CallInv, StartInv, UndoInv, StopInv, Released, LoadInv, AloneInv,
              StopLabels, OffloadLabels, LoadLabels, Alive
  <2> QED BY <1>1, <1>4, <2>1, <2>2, <2>3, QuietMove
<1> QED BY <1>3, <1>4 DEF Offload

LEMMA OffloadDeactivateStep ==
  ASSUME IInv, NEW v \in VMs, OffloadDeactivate(v)
  PROVE  IInv'
<1> DEFINE r == vm[v]  c == pc["caller"][v]  t == pc["other"][v]
           s == step[v]  o == owner[v]  l == loader[v]
<1>1. /\ TypeInv /\ Fits(v, r, c, t, s, o, l) /\ r \in VMRecord /\ c \in CallerLabels
      /\ t \in OtherLabels /\ s \in 1..11 /\ o \in Owners /\ l \in Loaders
      /\ raced \in BOOLEAN /\ crashed \in BOOLEAN /\ options.isUPFEnabled \in BOOLEAN
      /\ cachedImages \subseteq {ImageOf[w] : w \in VMs} /\ (crashed => raced \/ Shared # {})
  BY Now
<1>2. /\ c = "deactivate" /\ "idle" \in CallerLabels /\ "fcOffload" \in CallerLabels /\ "unloaded" \in Owners
      /\ UNCHANGED <<options, step, loader, cachedImages, raced, td, listed, strays, crashed>>
  BY DEF OffloadDeactivate, At, CallerLabels, OffloadLabels, Owners
<1>3. CASE Returns(v, "unloaded") /\ UNCHANGED vm
  <2>1. Moves(v, r, "idle", t, s, "unloaded", l)
    BY <1>1, <1>2, <1>3, CallerGoto, Same DEF Moves, Returns
  <2>2. Fits(v, r, "idle", t, s, "unloaded", l)
    BY <1>1, <1>2 DEF Fits, CallInv, StartInv, UndoInv, StopInv, Released, LoadInv, AloneInv,
              StopLabels, OffloadLabels, LoadLabels, Alive
  <2> QED BY <1>1, <1>2, <2>1, <2>2, QuietMove
<1>4. CASE /\ vm[v].mm \in {"none", "registered"} /\ Goto("caller", v, "fcOffload")
           /\ UNCHANGED <<owner, vm>>
  <2>1. Moves(v, r, "fcOffload", t, s, o, l)
    BY <1>1, <1>2, <1>4, CallerGoto, Same DEF Moves
  <2>2. Fits(v, r, "fcOffload", t, s, o, l)
    BY <1>1, <1>2, <1>4 DEF Fits, CallInv, StartInv, UndoInv, StopInv, Released, LoadInv, AloneInv,
              StopLabels, OffloadLabels, LoadLabels, Alive
  <2> QED BY <1>1, <1>2, <2>1, <2>2, QuietMove
<1> QED BY <1>3, <1>4 DEF OffloadDeactivate

LEMMA OffloadQuitStep ==
  ASSUME IInv, NEW v \in VMs, OffloadQuit(v)
  PROVE  IInv'
<1> DEFINE r == vm[v]  c == pc["caller"][v]  t == pc["other"][v]
           s == step[v]  o == owner[v]  l == loader[v]
<1>1. /\ TypeInv /\ Fits(v, r, c, t, s, o, l) /\ r \in VMRecord /\ c \in CallerLabels
      /\ t \in OtherLabels /\ s \in 1..11 /\ o \in Owners /\ l \in Loaders
      /\ raced \in BOOLEAN /\ crashed \in BOOLEAN /\ options.isUPFEnabled \in BOOLEAN
      /\ cachedImages \subseteq {ImageOf[w] : w \in VMs} /\ (crashed => raced \/ Shared # {})
  BY Now
<1>2. /\ c = "deactivate" /\ "idle" \in CallerLabels /\ "fcOffload" \in CallerLabels /\ "unloaded" \in Owners
      /\ UNCHANGED <<options, step, loader, cachedImages, raced, td, listed, strays, crashed>>
  BY DEF OffloadQuit, At, CallerLabels, OffloadLabels, Owners
<1>3. ASSUME NEW m \in {"inactive", "unpolled"}, NEW q, q = [r EXCEPT !.mm = m]
      PROVE  /\ q \in VMRecord /\ Fits(v, q, "fcOffload", t, s, o, l)
             /\ Fits(v, q, "idle", t, s, "unloaded", l)
  <2>1. /\ q \in VMRecord
        /\ q.mm = m /\ q.pool = r.pool /\ q.handle = r.handle /\ q.container = r.container /\ q.task = r.task
        /\ q.fc = r.fc /\ q.snap = r.snap /\ q.io = r.io /\ q.expired = r.expired /\ q.refused = r.refused
    BY <1>1, <1>3, SetMM
  <2> QED BY <1>1, <1>2, <2>1 DEF Fits, CallInv, StartInv, UndoInv, StopInv, Released, LoadInv, AloneInv,
            StopLabels, OffloadLabels, LoadLabels, Alive
<1>4. CASE /\ vm' = [vm EXCEPT ![v].mm = "inactive"]
           /\ Goto("caller", v, "fcOffload") /\ UNCHANGED owner
  <2>1. Moves(v, [r EXCEPT !.mm = "inactive"], "fcOffload", t, s, o, l)
    BY <1>1, <1>2, <1>4, CallerGoto, Same DEF Moves
  <2> QED BY <1>1, <1>2, <1>3, <2>1, QuietMove
<1>5. CASE vm' = [vm EXCEPT ![v].mm = "unpolled"] /\ Returns(v, "unloaded")
  <2>1. Moves(v, [r EXCEPT !.mm = "unpolled"], "idle", t, s, "unloaded", l)
    BY <1>1, <1>2, <1>5, CallerGoto, Same DEF Moves, Returns
  <2> QED BY <1>1, <1>2, <1>3, <2>1, QuietMove
<1> QED BY <1>4, <1>5 DEF OffloadQuit

LEMMA OffloadFCStep ==
  ASSUME IInv, NEW v \in VMs, OffloadFC(v)
  PROVE  IInv'
<1> DEFINE r == vm[v]  c == pc["caller"][v]  t == pc["other"][v]
           s == step[v]  o == owner[v]  l == loader[v]
<1>1. /\ TypeInv /\ Fits(v, r, c, t, s, o, l) /\ r \in VMRecord /\ c \in CallerLabels
      /\ t \in OtherLabels /\ s \in 1..11 /\ o \in Owners /\ l \in Loaders
      /\ raced \in BOOLEAN /\ crashed \in BOOLEAN /\ options.isUPFEnabled \in BOOLEAN
      /\ cachedImages \subseteq {ImageOf[w] : w \in VMs} /\ (crashed => raced \/ Shared # {})
  BY Now
<1>2. /\ c = "fcOffload" /\ "idle" \in CallerLabels /\ "tap" \in CallerLabels /\ "unloaded" \in Owners
      /\ UNCHANGED <<options, step, loader, cachedImages, raced, td, listed, strays, crashed>>
  BY DEF OffloadFC, At, CallerLabels, OffloadLabels, Owners
<1>3. CASE Returns(v, "unloaded") /\ UNCHANGED vm
  <2>1. Moves(v, r, "idle", t, s, "unloaded", l)
    BY <1>1, <1>2, <1>3, CallerGoto, Same DEF Moves, Returns
  <2>2. Fits(v, r, "idle", t, s, "unloaded", l)
    BY <1>1, <1>2 DEF Fits, CallInv, StartInv, UndoInv, StopInv, Released, LoadInv, AloneInv,
              StopLabels, OffloadLabels, LoadLabels, Alive
  <2> QED BY <1>1, <1>2, <2>1, <2>2, QuietMove
<1>4. CASE CallOK("fcOffload", v) /\ Apply("fcOffload", v) /\ Goto("caller", v, "tap") /\ UNCHANGED owner
  <2>1. r.fc # "none" /\ vm' = [vm EXCEPT ![v] = [r EXCEPT !.fc = "offloaded"]]
    <3>1. Can("fcOffload", r) /\ vm' = [vm EXCEPT ![v] = After("fcOffload", r)]
      BY <1>4 DEF CallOK, Apply, After
    <3> QED BY <1>1, <3>1, SnapshotOutcomes, Preconditions
  <2>2. ASSUME NEW q, q = [r EXCEPT !.fc = "offloaded"]
        PROVE  q \in VMRecord /\ Fits(v, q, "tap", t, s, o, l)
    <3>1. /\ q \in VMRecord
          /\ q.fc = "offloaded" /\ q.pool = r.pool /\ q.handle = r.handle /\ q.container = r.container /\ q.task = r.task
          /\ q.snap = r.snap /\ q.mm = r.mm /\ q.io = r.io /\ q.expired = r.expired /\ q.refused = r.refused
      BY <1>1, <2>2, SetFC
    <3> QED BY <1>1, <1>2, <2>1, <3>1 DEF Fits, CallInv, StartInv, UndoInv, StopInv, Released, LoadInv, AloneInv,
              StopLabels, OffloadLabels, LoadLabels, Alive
  <2>3. Moves(v, [r EXCEPT !.fc = "offloaded"], "tap", t, s, o, l)
    BY <1>1, <1>2, <1>4, <2>1, CallerGoto, Same DEF Moves
  <2> QED BY <1>1, <1>2, <2>2, <2>3, QuietMove
<1> QED BY <1>3, <1>4 DEF OffloadFC

LEMMA OffloadTapStep ==
  ASSUME IInv, NEW v \in VMs, OffloadTap(v)
  PROVE  IInv'
<1> DEFINE r == vm[v]  c == pc["caller"][v]  t == pc["other"][v]
           s == step[v]  o == owner[v]  l == loader[v]
<1>1. /\ TypeInv /\ Fits(v, r, c, t, s, o, l) /\ r \in VMRecord /\ c \in CallerLabels
      /\ t \in OtherLabels /\ s \in 1..11 /\ o \in Owners /\ l \in Loaders
      /\ raced \in BOOLEAN /\ crashed \in BOOLEAN /\ options.isUPFEnabled \in BOOLEAN
      /\ cachedImages \subseteq {ImageOf[w] : w \in VMs} /\ (crashed => raced \/ Shared # {})
  BY Now
<1>2. c = "tap" /\ "idle" \in CallerLabels /\ "unloaded" \in Owners /\ "off" \in Owners
  BY DEF OffloadTap, At, CallerLabels, Owners
<1>3. CASE ~vm[v].pool /\ Panic
  <2>1. Shared # {}
    BY <1>1, <1>2, <1>3 DEF Fits, CallInv, OffloadLabels, AloneInv, Alive
  <2> QED BY <1>1, <1>3, <2>1, PanicOK DEF Panic
<1>4. ASSUME NEW k \in {"off", "unloaded"}, Returns(v, k),
             UNCHANGED <<options, vm, step, loader, cachedImages, raced, td, listed, strays, crashed>>
      PROVE  IInv'
  <2>1. Moves(v, r, "idle", t, s, k, l)
    BY <1>1, <1>4, CallerGoto, Same DEF Moves, Returns
  <2>2. Fits(v, r, "idle", t, s, k, l)
    BY <1>1, <1>2 DEF Fits, CallInv, StartInv, UndoInv, StopInv, Released, LoadInv, AloneInv,
              StopLabels, OffloadLabels, LoadLabels, Alive
  <2> QED BY <1>1, <1>2, <1>4, <2>1, <2>2, QuietMove
<1> QED BY <1>3, <1>4 DEF OffloadTap

LEMMA LoadSnapshotStep ==
  ASSUME IInv, NEW v \in VMs, LoadSnapshot(v)
  PROVE  IInv'
<1> DEFINE r == vm[v]  c == pc["caller"][v]  t == pc["other"][v]
           s == step[v]  o == owner[v]  l == loader[v]
<1>1. /\ TypeInv /\ Fits(v, r, c, t, s, o, l) /\ r \in VMRecord /\ c \in CallerLabels
      /\ t \in OtherLabels /\ s \in 1..11 /\ o \in Owners /\ l \in Loaders
      /\ raced \in BOOLEAN /\ crashed \in BOOLEAN /\ options.isUPFEnabled \in BOOLEAN
      /\ cachedImages \subseteq {ImageOf[w] : w \in VMs} /\ (crashed => raced \/ Shared # {})
  BY Now
<1>2. /\ c = "idle" /\ o \in {"off", "unloaded"} /\ "failed" \in Owners /\ "running" \in Loaders
      /\ UNCHANGED <<options, vm, step, cachedImages, raced, td, listed, strays, crashed>>
  BY DEF LoadSnapshot, At, Owners, Loaders
<1>3. CASE /\ Goto("caller", v, IF options.isUPFEnabled THEN "activate" ELSE "join")
           /\ loader' = [loader EXCEPT ![v] = "running"] /\ UNCHANGED owner
  <2>1. PICK label \in {"activate", "join"} :
          Goto("caller", v, label) /\ (label = "join" => ~options.isUPFEnabled)
    BY <1>3
  <2>2. label \in CallerLabels
    BY DEF CallerLabels, LoadLabels
  <2>3. Moves(v, r, label, t, s, o, "running")
    BY <1>1, <1>2, <1>3, <2>1, CallerGoto, Same DEF Moves
  <2>4. Fits(v, r, label, t, s, o, "running")
    BY <1>1, <1>2, <2>1 DEF Fits, CallInv, StartInv, UndoInv, StopInv, Released, LoadInv, AloneInv,
              StopLabels, OffloadLabels, LoadLabels, Alive
  <2> QED BY <1>1, <1>2, <2>2, <2>3, <2>4, QuietMove
<1>4. CASE owner' = [owner EXCEPT ![v] = "failed"] /\ UNCHANGED <<pc, loader>>
  <2>1. Moves(v, r, c, t, s, "failed", l)
    BY <1>1, <1>2, <1>4, Same DEF Moves
  <2>2. Fits(v, r, c, t, s, "failed", l)
    BY <1>1, <1>2 DEF Fits, CallInv, StartInv, UndoInv, StopInv, Released, LoadInv, AloneInv,
              StopLabels, OffloadLabels, LoadLabels, Alive
  <2> QED BY <1>1, <1>2, <2>1, <2>2, QuietMove
<1> QED BY <1>3, <1>4 DEF LoadSnapshot

LEMMA LoadStep ==
  ASSUME IInv, NEW v \in VMs, Load(v)
  PROVE  IInv'
<1> DEFINE r == vm[v]  c == pc["caller"][v]  t == pc["other"][v]
           s == step[v]  o == owner[v]  l == loader[v]
<1>1. /\ TypeInv /\ Fits(v, r, c, t, s, o, l) /\ r \in VMRecord /\ c \in CallerLabels
      /\ t \in OtherLabels /\ s \in 1..11 /\ o \in Owners /\ l \in Loaders
      /\ raced \in BOOLEAN /\ crashed \in BOOLEAN /\ options.isUPFEnabled \in BOOLEAN
      /\ cachedImages \subseteq {ImageOf[w] : w \in VMs} /\ (crashed => raced \/ Shared # {})
  BY Now
<1>2. /\ l = "running" /\ "ok" \in Loaders /\ "error" \in Loaders
      /\ UNCHANGED <<options, pc, step, owner, cachedImages, raced, td, listed, strays, crashed>>
  BY DEF Load, Loaders
<1>3. CASE CallOK("fcLoad", v) /\ Apply("fcLoad", v) /\ loader' = [loader EXCEPT ![v] = "ok"]
  <2>1. r.fc = "offloaded" /\ vm' = [vm EXCEPT ![v] = [r EXCEPT !.fc = "loaded"]]
    <3>1. Can("fcLoad", r) /\ vm' = [vm EXCEPT ![v] = After("fcLoad", r)]
      BY <1>3 DEF CallOK, Apply, After
    <3> QED BY <1>1, <3>1, SnapshotOutcomes, Preconditions
  <2>2. ASSUME NEW q, q = [r EXCEPT !.fc = "loaded"]
        PROVE  q \in VMRecord /\ Fits(v, q, c, t, s, o, "ok")
    <3>1. /\ q \in VMRecord
          /\ q.fc = "loaded" /\ q.pool = r.pool /\ q.handle = r.handle /\ q.container = r.container /\ q.task = r.task
          /\ q.snap = r.snap /\ q.mm = r.mm /\ q.io = r.io /\ q.expired = r.expired /\ q.refused = r.refused
      BY <1>1, <2>2, SetFC
    <3> QED BY <1>1, <1>2, <2>1, <3>1 DEF Fits, CallInv, StartInv, UndoInv, StopInv, Released, LoadInv, AloneInv,
              StopLabels, OffloadLabels, LoadLabels, Alive
  <2>3. Moves(v, [r EXCEPT !.fc = "loaded"], c, t, s, o, "ok")
    BY <1>1, <1>2, <1>3, <2>1, Same DEF Moves
  <2> QED BY <1>1, <1>2, <2>2, <2>3, QuietMove
<1>4. CASE loader' = [loader EXCEPT ![v] = "error"] /\ UNCHANGED vm
  <2>1. Moves(v, r, c, t, s, o, "error")
    BY <1>1, <1>2, <1>4, Same DEF Moves
  <2>2. Fits(v, r, c, t, s, o, "error")
    BY <1>1, <1>2 DEF Fits, CallInv, StartInv, UndoInv, StopInv, Released, LoadInv, AloneInv,
              StopLabels, OffloadLabels, LoadLabels, Alive
  <2> QED BY <1>1, <1>2, <2>1, <2>2, QuietMove
<1> QED BY <1>3, <1>4 DEF Load

LEMMA ActivateStep ==
  ASSUME IInv, NEW v \in VMs, Activate(v)
  PROVE  IInv'
<1> DEFINE r == vm[v]  c == pc["caller"][v]  t == pc["other"][v]
           s == step[v]  o == owner[v]  l == loader[v]
<1>1. /\ TypeInv /\ Fits(v, r, c, t, s, o, l) /\ r \in VMRecord /\ c \in CallerLabels
      /\ t \in OtherLabels /\ s \in 1..11 /\ o \in Owners /\ l \in Loaders
      /\ raced \in BOOLEAN /\ crashed \in BOOLEAN /\ options.isUPFEnabled \in BOOLEAN
      /\ cachedImages \subseteq {ImageOf[w] : w \in VMs} /\ (crashed => raced \/ Shared # {})
  BY Now
<1>2. /\ c = "activate" /\ "join" \in CallerLabels /\ "joinFailed" \in CallerLabels
      /\ UNCHANGED <<options, step, owner, loader, cachedImages, raced, td, listed, strays, crashed>>
  BY DEF Activate, At, CallerLabels, LoadLabels
<1>3. CASE vm' = [vm EXCEPT ![v].mm = "active"] /\ Goto("caller", v, "join")
  <2>1. vm' = [vm EXCEPT ![v] = [r EXCEPT !.mm = "active"]]
    BY <1>3
  <2>2. ASSUME NEW q, q = [r EXCEPT !.mm = "active"]
        PROVE  q \in VMRecord /\ Fits(v, q, "join", t, s, o, l)
    <3>1. /\ q \in VMRecord
          /\ q.mm = "active" /\ q.pool = r.pool /\ q.handle = r.handle /\ q.container = r.container /\ q.task = r.task
          /\ q.fc = r.fc /\ q.snap = r.snap /\ q.io = r.io /\ q.expired = r.expired /\ q.refused = r.refused
      BY <1>1, <2>2, SetMM
    <3> QED BY <1>1, <1>2, <3>1 DEF Fits, CallInv, StartInv, UndoInv, StopInv, Released, LoadInv, AloneInv,
              StopLabels, OffloadLabels, LoadLabels, Alive
  <2>3. Moves(v, [r EXCEPT !.mm = "active"], "join", t, s, o, l)
    BY <1>1, <1>2, <1>3, <2>1, CallerGoto, Same DEF Moves
  <2> QED BY <1>1, <1>2, <2>2, <2>3, QuietMove
<1>4. CASE Goto("caller", v, "joinFailed") /\ UNCHANGED vm
  <2>1. Moves(v, r, "joinFailed", t, s, o, l)
    BY <1>1, <1>2, <1>4, CallerGoto, Same DEF Moves
  <2>2. Fits(v, r, "joinFailed", t, s, o, l)
    BY <1>1, <1>2 DEF Fits, CallInv, StartInv, UndoInv, StopInv, Released, LoadInv, AloneInv,
              StopLabels, OffloadLabels, LoadLabels, Alive
  <2> QED BY <1>1, <1>2, <2>1, <2>2, QuietMove
<1> QED BY <1>3, <1>4 DEF Activate

LEMMA LoadJoinStep ==
  ASSUME IInv, NEW v \in VMs, LoadJoin(v)
  PROVE  IInv'
<1> DEFINE r == vm[v]  c == pc["caller"][v]  t == pc["other"][v]
           s == step[v]  o == owner[v]  l == loader[v]
<1>1. /\ TypeInv /\ Fits(v, r, c, t, s, o, l) /\ r \in VMRecord /\ c \in CallerLabels
      /\ t \in OtherLabels /\ s \in 1..11 /\ o \in Owners /\ l \in Loaders
      /\ raced \in BOOLEAN /\ crashed \in BOOLEAN /\ options.isUPFEnabled \in BOOLEAN
      /\ cachedImages \subseteq {ImageOf[w] : w \in VMs} /\ (crashed => raced \/ Shared # {})
  BY Now
<1>2. /\ c \in {"join", "joinFailed"} /\ loader' = [loader EXCEPT ![v] = "none"]
      /\ UNCHANGED <<options, vm, step, cachedImages, raced, td, listed, strays, crashed>>
      /\ "idle" \in CallerLabels /\ "none" \in Loaders
  BY DEF LoadJoin, CallerLabels, Loaders
<1>3. PICK k \in {"loaded", "failed"} : Returns(v, k) /\ (k = "loaded" => c = "join" /\ l = "ok")
  BY DEF LoadJoin, LoadedOK
<1>4. k \in Owners
  BY DEF Owners
<1>5. Moves(v, r, "idle", t, s, k, "none")
  BY <1>1, <1>2, <1>3, CallerGoto, Same DEF Moves, Returns
<1>6. Fits(v, r, "idle", t, s, k, "none")
  BY <1>1, <1>2, <1>3 DEF Fits, CallInv, StartInv, UndoInv, StopInv, Released, LoadInv, AloneInv,
          StopLabels, OffloadLabels, LoadLabels, Alive
<1> QED BY <1>1, <1>2, <1>4, <1>5, <1>6, QuietMove

-----------------------------------------------------------------------------
(* StopActiveVMs and the stray calls. *)

\* The invariant of a VM holds on when somebody else begins to stop it.
LEMMA SharedGrows ==
  ASSUME IInv, NEW v \in VMs, Shared \subseteq Shared', td' = "none" => v \notin listed',
         UNCHANGED <<options, vm, step, owner, loader>>, pc'["caller"] = pc["caller"],
         \/ pc'["other"][v] = pc["other"][v]
         \/ pc'["other"][v] = "getVM" /\ v \in Shared'
  PROVE  VMInv(v)'
<1> DEFINE r == vm[v]  c == pc["caller"][v]  t == pc["other"][v]  u == pc'["other"][v]
           s == step[v]  o == owner[v]  l == loader[v]
<1>1. Fits(v, r, c, t, s, o, l)
  BY Now
<1>2. CallInv(v, c, t, o, l)'
  BY <1>1 DEF Fits, CallInv
<1>3. StopInv(r, c, u, o)
  BY <1>1 DEF Fits, StopInv, Released, StopLabels
<1>4. StartInv(r, c, s, o)' /\ StopInv(r, c, t, o)'
  BY <1>1, <1>3 DEF Fits, StartInv, StopInv, Released
<1>5. UndoInv(v, r, c, s, o)' /\ LoadInv(r, c, o, l)' /\ AloneInv(v, r, c, s, o, l)'
  BY <1>1 DEF Fits, UndoInv, LoadInv, AloneInv
<1> QED BY <1>2, <1>4, <1>5 DEF VMInv, Fits

LEMMA StopActiveVMsStep ==
  ASSUME IInv, StopActiveVMs
  PROVE  IInv'
<1>1. /\ td = "none" /\ td' = "stopping" /\ listed' = {v \in VMs : vm[v].pool}
      /\ UNCHANGED <<options, vm, step, owner, loader, cachedImages, raced, strays, crashed>>
  BY DEF StopActiveVMs, GetVMMap
<1>2. /\ DOMAIN pc' = Actors /\ pc'["caller"] = pc["caller"]
      /\ pc'["other"] = [v \in VMs |-> IF v \in listed' THEN "getVM" ELSE pc["other"][v]]
  BY <1>1 DEF IInv, TypeInv, StopActiveVMs, Actors
<1>3. TypeInv'
  <2>1. pc'["other"] \in [VMs -> OtherLabels]
    BY <1>2 DEF IInv, TypeInv, OtherLabels, StopLabels
  <2>2. listed' \subseteq VMs
    BY <1>1
  <2>3. TypeOK'
    BY <1>1, <2>2 DEF IInv, TypeInv, TypeOK
  <2> QED BY <1>2, <2>1, <2>3 DEF IInv, TypeInv
<1>4. listed = {}
  <2>1. \A v \in VMs : v \notin listed
    BY <1>1, Now DEF Fits, CallInv
  <2> QED BY <2>1 DEF IInv, TypeInv, TypeOK
<1>5. Shared \subseteq Shared' /\ listed' \subseteq Shared'
  BY <1>1, <1>4 DEF Shared
<1>6. CrashesExplained'
  BY <1>1, <1>5 DEF IInv, CrashesExplained
<1>7. ASSUME NEW v \in VMs
      PROVE  VMInv(v)'
  BY <1>1, <1>2, <1>5, SharedGrows
<1> QED BY <1>3, <1>6, <1>7 DEF IInv

LEMMA StrayStep ==
  ASSUME IInv, NEW v \in VMs, StrayStop(v) \/ StrayOffload(v)
  PROVE  IInv'
<1>1. /\ strays' = strays \cup {v} /\ crashed' \in {crashed, TRUE}
      /\ UNCHANGED <<options, vm, step, owner, loader, cachedImages, raced, td, listed>>
  BY DEF StrayStop, StrayOffload
<1>2. Shared \subseteq Shared' /\ v \in Shared'
  BY <1>1 DEF Shared
<1>3. /\ DOMAIN pc' = Actors /\ pc'["caller"] = pc["caller"]
      /\ pc'["other"] \in {pc["other"], [pc["other"] EXCEPT ![v] = "getVM"]}
  BY DEF IInv, TypeInv, StrayStop, StrayOffload, Goto, Actors
<1>4. TypeInv'
  <2>1. pc'["other"] \in [VMs -> OtherLabels]
    BY <1>3 DEF IInv, TypeInv, OtherLabels, StopLabels
  <2>2. TypeOK'
    BY <1>1 DEF IInv, TypeInv, TypeOK
  <2> QED BY <1>3, <2>1, <2>2 DEF IInv, TypeInv
<1>5. CrashesExplained'
  BY <1>2 DEF CrashesExplained
<1>6. ASSUME NEW w \in VMs
      PROVE  VMInv(w)'
  <2>1. td' = "none" => w \notin listed'
    BY <1>1, Now DEF Fits, CallInv
  <2>2. \/ pc'["other"][w] = pc["other"][w]
        \/ pc'["other"][w] = "getVM" /\ w \in Shared'
    BY <1>2, <1>3 DEF IInv, TypeInv
  <2> QED BY <1>1, <1>2, <1>3, <2>1, <2>2, SharedGrows
<1> QED BY <1>4, <1>5, <1>6 DEF IInv

LEMMA SameSnap ==
  ASSUME NEW r \in VMRecord, r.snap = FALSE
  PROVE  [r EXCEPT !.snap = FALSE] = r
BY DEF VMRecord

LEMMA DropSnap ==
  ASSUME NEW v, NEW r \in VMRecord, NEW c, NEW t, NEW s, NEW o, NEW l, Fits(v, r, c, t, s, o, l),
         NEW q, q = [r EXCEPT !.snap = FALSE]
  PROVE  q \in VMRecord /\ Fits(v, q, c, t, s, o, l)
<1>1. /\ q \in VMRecord
      /\ q.snap = FALSE /\ q.pool = r.pool /\ q.handle = r.handle /\ q.container = r.container /\ q.task = r.task
      /\ q.fc = r.fc /\ q.mm = r.mm /\ q.io = r.io /\ q.expired = r.expired /\ q.refused = r.refused
  BY DEF VMRecord
<1>2. r = NoVM => q = r
  <2>1. NoVM.snap = FALSE
    BY DEF NoVM
  <2> QED BY <2>1, SameSnap
<1> QED BY <1>1, <1>2 DEF Fits, CallInv, StartInv, UndoInv, StopInv, Released, LoadInv, AloneInv,
            StopLabels, OffloadLabels, LoadLabels, Alive

LEMMA TeardownStep ==
  ASSUME IInv, Teardown
  PROVE  IInv'
<1>1. /\ td # "none" /\ td' \in {"closed", "exited"}
      /\ UNCHANGED <<options, pc, step, owner, loader, cachedImages, raced, listed, strays, crashed>>
  BY DEF Teardown, CloseClients, Exit
<1>2. \/ vm' = vm \/ vm' = [v \in VMs |-> [vm[v] EXCEPT !.snap = FALSE]]
  BY DEF Teardown, CloseClients, Exit
<1>3. ASSUME NEW v \in VMs
      PROVE  /\ vm'[v] \in VMRecord
             /\ Fits(v, vm'[v], pc["caller"][v], pc["other"][v], step[v], owner[v], loader[v])
  <2> DEFINE r == vm[v]  c == pc["caller"][v]  t == pc["other"][v]
             s == step[v]  o == owner[v]  l == loader[v]
  <2>1. r \in VMRecord /\ Fits(v, r, c, t, s, o, l)
    BY Now
  <2>2. CASE vm'[v] = vm[v]
    BY <2>1, <2>2
  <2>3. CASE vm'[v] = [vm[v] EXCEPT !.snap = FALSE]
    <3>1. ASSUME NEW q, q = [r EXCEPT !.snap = FALSE]
          PROVE  q \in VMRecord /\ Fits(v, q, c, t, s, o, l)
      <4> HIDE DEF r, c, t, s, o, l
      <4> QED BY <2>1, <3>1, DropSnap
    <3> QED BY <2>3, <3>1
  <2> QED BY <1>2, <2>2, <2>3
<1>4. vm' \in [VMs -> VMRecord]
  <2>1. CASE vm' = vm
    BY <2>1 DEF IInv, TypeInv, TypeOK, VMRecord
  <2>2. CASE vm' = [v \in VMs |-> [vm[v] EXCEPT !.snap = FALSE]]
    BY <1>3, <2>2
  <2> QED BY <1>2, <2>1, <2>2
<1>5. TypeInv'
  BY <1>1, <1>4 DEF IInv, TypeInv, TypeOK, VMRecord
<1>6. CrashesExplained' /\ Shared' = Shared
  BY <1>1 DEF IInv, CrashesExplained, Shared
<1>7. ASSUME NEW v \in VMs
      PROVE  VMInv(v)'
  <2>1. Fits(v, vm'[v], pc["caller"][v], pc["other"][v], step[v], owner[v], loader[v])
    BY <1>3
  <2> QED BY <1>1, <1>6, <2>1 DEF VMInv, Fits, CallInv, StartInv, UndoInv, StopInv, LoadInv, AloneInv
<1> QED BY <1>5, <1>6, <1>7 DEF IInv

-----------------------------------------------------------------------------
LEMMA InitOK == Init => IInv
<1> SUFFICES ASSUME Init PROVE IInv
  OBVIOUS
<1>1. TypeInv
  <2>1. vm \in [VMs -> VMRecord] /\ step \in [VMs -> 1..11]
    BY NoVMRecord DEF Init
  <2>2. TypeOK
    BY <2>1, StepNames DEF Init, TypeOK, VMRecord
  <2> QED BY <2>2 DEF Init, TypeInv, Actors, CallerLabels, OtherLabels
<1>2. CrashesExplained
  BY DEF Init, CrashesExplained
<1>3. ASSUME NEW v \in VMs
      PROVE  VMInv(v)
  <2>1. /\ vm[v] = NoVM /\ pc["caller"][v] = "idle" /\ pc["other"][v] = "idle" /\ step[v] = 1
        /\ owner[v] = "new" /\ loader[v] = "none" /\ td = "none" /\ listed = {}
        /\ strays = {}
    BY DEF Init, Actors
  <2>2. Fits(v, NoVM, "idle", "idle", 1, "new", "none")
    BY <2>1 DEF Fits, CallInv, StartInv, UndoInv, StopInv, Released, LoadInv, AloneInv,
          StopLabels, OffloadLabels, LoadLabels, Alive, NoVM
  <2> QED BY <2>1, <2>2 DEF VMInv
<1> QED BY <1>1, <1>2, <1>3 DEF IInv

LEMMA NextOK == IInv /\ [Next]_vars => IInv'
<1> SUFFICES ASSUME IInv, [Next]_vars PROVE IInv'
  OBVIOUS
<1>1. ASSUME NEW v \in VMs, Calls(v)
      PROVE  IInv'
  BY <1>1, StartVMStep, StopSingleVMStep, OneCallStep, OffloadStep, OffloadQuitStep, LoadSnapshotStep,
     StrayStep DEF Calls
<1>2. ASSUME NEW v \in VMs, CallerSteps(v)
      PROVE  IInv'
  BY <1>2, StartStepOK, ImageStep, StartFailsStep, UndoStepOK, OffloadDeactivateStep, OffloadFCStep,
     OffloadTapStep, ActivateStep, LoadJoinStep DEF CallerSteps
<1>3. ASSUME NEW v \in VMs, NEW a \in Actors, StopSteps(a, v)
      PROVE  IInv'
  BY <1>3, StopGetVMStep, StopStepOK, StopAwaitStep, StopFreeStep DEF StopSteps
<1>4. ASSUME NEW v \in VMs, Load(v) \/ TaskExits(v)
      PROVE  IInv'
  BY <1>4, LoadStep, TaskExitsStep
<1>5. CASE StopActiveVMs \/ Teardown
  BY <1>5, StopActiveVMsStep, TeardownStep
<1>6. CASE UNCHANGED vars
  <2>1. TypeInv' /\ CrashesExplained' /\ Shared' = Shared
    BY <1>6 DEF IInv, TypeInv, TypeOK, CrashesExplained, Shared, vars
  <2>2. \A v \in VMs : VMInv(v)'
    BY <1>6, <2>1 DEF IInv, VMInv, Fits, CallInv, StartInv, UndoInv, StopInv, LoadInv, AloneInv, vars
  <2> QED BY <2>1, <2>2 DEF IInv
<1> QED BY <1>1, <1>2, <1>3, <1>4, <1>5, <1>6 DEF Next

\* IInv is an invariant of the orchestrator, for any VMs, images and host faults.
THEOREM OrchestratorInvariant == Spec => []IInv
BY InitOK, NextOK, PTL DEF Spec

\* No call of the orchestrator panics unless a VM was stopped or offloaded by somebody who
\* does not hold it (StopActiveVMs, a StopSingleVM RPC, a late asynchronous removal) or two
\* starts raced for the image cache, however calls on several VMs interleave and whatever
\* the host refuses (iface.go 233-245, 316-347, 543-551).
THEOREM PanicsCorrect == Spec => []CrashesExplained
<1>1. IInv => CrashesExplained
  BY DEF IInv
<1> QED BY <1>1, OrchestratorInvariant, PTL

\* A StartVM that fails gives back what it took (iface.go 82-197, deferred functions).
THEOREM RollbackCorrect == Spec => []RollbackReleases
<1>1. IInv => RollbackReleases
  <2> SUFFICES ASSUME IInv, NEW v \in VMs, ~vm[v].expired, ~vm[v].refused
               PROVE  /\ vm[v].fc # "none" => vm[v].pool
                      /\ owner[v] = "unstarted" =>
                           /\ ~vm[v].pool /\ vm[v].fc = "none" /\ vm[v].mm = "none"
                           /\ vm[v].container => vm[v].task # "none" \/ v \in Shared
    BY DEF RollbackReleases
  <2>1. /\ UndoInv(v, vm[v], pc["caller"][v], step[v], owner[v])
        /\ StartInv(vm[v], pc["caller"][v], step[v], owner[v])
    BY DEF IInv, VMInv, Fits
  <2> QED BY <2>1 DEF UndoInv, StartInv
<1> QED BY <1>1, OrchestratorInvariant, PTL

\* A stop that reports success has released everything, also when a caller and somebody
\* else work on the VM at the same time (iface.go 229-281, 397-412).
THEOREM StopCorrect == Spec => []StopReleases
<1>1. IInv => StopReleases
  <2> SUFFICES ASSUME IInv, NEW v \in VMs, owner[v] = "stopped" \/ pc["other"][v] = "stopped"
               PROVE  /\ ~vm[v].pool /\ vm[v].fc = "none" /\ ~vm[v].container
                      /\ vm[v].task = "none" /\ ~vm[v].io
    BY DEF StopReleases
  <2>1. StopInv(vm[v], pc["caller"][v], pc["other"][v], owner[v])
    BY DEF IInv, VMInv, Fits
  <2> QED BY <2>1 DEF StopInv, Released
<1> QED BY <1>1, OrchestratorInvariant, PTL

\* LoadSnapshot reports success only for a loaded microVM, and a guest that runs on
\* user-level page faults is served (iface.go 504-560).
THEOREM LoadCorrect == Spec => []LoadedAndServed
<1>1. IInv => LoadedAndServed
  <2> SUFFICES ASSUME IInv, NEW v \in VMs
               PROVE  /\ owner[v] = "loaded" /\ v \notin Shared => vm[v].fc = "loaded"
                      /\ vm[v].fc = "resumed" => \/ vm[v].mm = "active"
                                                 \/ pc["caller"][v] = "fcOffload"
                                                 \/ owner[v] \in {"unloaded", "failed"}
    BY DEF LoadedAndServed
  <2>1. /\ LoadInv(vm[v], pc["caller"][v], owner[v], loader[v])
        /\ AloneInv(v, vm[v], pc["caller"][v], step[v], owner[v], loader[v])
    BY DEF IInv, VMInv, Fits
  <2> QED BY <2>1 DEF LoadInv, AloneInv
<1> QED BY <1>1, OrchestratorInvariant, PTL
=============================================================================
