---------------------------- MODULE TimeseriesDB ----------------------------
(***************************************************************************)
(* The TimeseriesDB of the eventing benchmarks                             *)
(* (utils/benchmarking/eventing/timeseriesdb/main.go) and the invoker that *)
(* starts and ends experiments on it (examples/invoker).  The gRPC calls   *)
(* of the invoker and the handlers of CloudEvents run concurrently and     *)
(* share the maps of the server, which no lock protects.  A handler is     *)
(* split where it reads shared state that it writes, or uses, later.       *)
(***************************************************************************)
EXTENDS Integers, SequencesExt

CONSTANTS
  Handlers,       \* goroutines of the CloudEvents receiver
  Invocations,    \* invocation IDs
  Attributes,     \* what events carry and descriptors ask for
  Definitions,    \* per experiment: workflow ID -> completion event descriptors
  Events,         \* [gen, wf, inv, attrs]: what the functions of an experiment emit
  MaxDeliveries,  \* bound, per experiment: deliveries up to its end, duplicates included
  GiveUps         \* bound: experiments in which a call may fail with the server alive

Gens == DOMAIN Definitions
Workflows == UNION {DOMAIN Definitions[g] : g \in Gens}
Keys == UNION {{g} \X (DOMAIN Definitions[g]) \X Invocations : g \in Gens}

ASSUME TimeseriesDBAssumption ==
  /\ Len(Definitions) \in Nat /\ Gens = 1..Len(Definitions)
  /\ MaxDeliveries \in [Gens -> Nat] /\ GiveUps \subseteq Gens
  \* Start defines an experiment only if there is an endpoint, and a descriptor per workflow.
  /\ \A g \in Gens : /\ DOMAIN Definitions[g] # {}
                      /\ \A w \in DOMAIN Definitions[g] :
                           Definitions[g][w] \in Seq(SUBSET Attributes) \ {<<>>}
  /\ Events \subseteq [gen: Gens, wf: Workflows, inv: Invocations, attrs: SUBSET Attributes]
  /\ \A e \in Events : e.wf \in DOMAIN Definitions[e.gen]

VARIABLES
  invoker,      \* where runExperiment is
  gen,          \* the experiment whose map s.workflows is; 0: the nil map
  workflows,    \* the keys of s.workflows
  invocations,  \* the maps Workflow.invocations: key -> object, 0 if absent
  heap,         \* the Invocation objects
  handler,      \* the state of each handler
  history,      \* the events taken from the broker, in the order of their times
  collected,    \* the descriptors of EndExperiment's reply that are still to be encoded
  encoded,      \* the descriptor whose duration was encoded and its status not yet
  reported,     \* what End passes to addDurations
  overlapped,   \* invocations handled by two parties at once
  panicked,     \* invocations whose handler panicked
  cause         \* why the server died, "" while it runs

db == <<gen, workflows, invocations, heap>>
ghosts == <<overlapped, panicked>>
vars == <<invoker, db, handler, history, collected, encoded, reported, ghosts, cause>>

Idle == [pc |-> "idle"]

Init ==
  /\ invoker = "idle" /\ gen = 0 /\ workflows = {}
  /\ invocations = [k \in Keys |-> 0] /\ heap = <<>>
  /\ handler = [h \in Handlers |-> Idle]
  /\ history = <<>> /\ collected = {} /\ encoded = {} /\ reported = {}
  /\ overlapped = {} /\ panicked = {} /\ cause = ""

Running == cause = ""
Busy(h) == handler[h].pc # "idle"
At(h, l) == Running /\ handler[h].pc = l

\* The event as morphCloudEventToProtoEvent leaves it.  The functions attach well-formed
\* metadata and extensions; anything else is fatal there and not among Events.
Event(h) == handler[h].event
Name(e) == <<e.wf, e.inv>>

Key(h) == <<gen, Event(h).wf, Event(h).inv>>

\* The entry of the handler's invocation in the map of the workflow that it found.
Entry(h) == <<handler[h].workflow[1], handler[h].workflow[2], Event(h).inv>>

Update(h, r) == handler' = [handler EXCEPT ![h] = r]

-----------------------------------------------------------------------------
(* The invoker. *)

\* A call of StartExperiment whose handler is still at work, its caller waiting or gone.
Defining == invoker \in {"starting", "abandoned"} /\ workflows # DOMAIN Definitions[gen]

\* Start, up to the RPC that replaces the map; the requests of an earlier experiment
\* are not waited for.
StartExperiment ==
  /\ Running /\ invoker \in {"idle", "done", "failed", "abandoned"} /\ ~Defining /\ gen + 1 \in Gens
  /\ invoker' = "starting" /\ gen' = gen + 1 /\ workflows' = {}
  /\ collected' = {} /\ encoded' = {} /\ reported' = {}
  /\ overlapped' = overlapped \cup {Name(Event(h)) : h \in {k \in Handlers : Busy(k)}}
  /\ UNCHANGED <<invocations, heap, handler, history, panicked, cause>>

DefineWorkflow(w) ==
  /\ Running /\ Defining /\ w \in DOMAIN Definitions[gen] \ workflows
  /\ workflows' = workflows \cup {w}
  /\ invoker' = IF invoker = "starting" /\ workflows' = DOMAIN Definitions[gen] THEN "loop" ELSE invoker
  /\ UNCHANGED <<gen, invocations, heap, handler, history, collected, encoded, reported, ghosts, cause>>

\* The loop that issues invocations ends at its timeout, whatever is still under way.
Timeout ==
  /\ Running /\ invoker = "loop" /\ invoker' = "ending"
  /\ UNCHANGED <<db, handler, history, collected, encoded, reported, ghosts, cause>>

Registered == {invocations[k] : k \in {j \in Keys : j[1] = gen}} \ {0}

\* Mutant: the experiment is forgotten when it ends.
EndExperimentClears ==
  /\ Running /\ invoker = "ending" /\ invoker' = "replying"
  /\ collected' = Registered /\ workflows' = {}
  /\ UNCHANGED <<gen, invocations, heap, handler, history, encoded, reported, ghosts, cause>>

EndExperiment ==
  /\ Running /\ invoker = "ending" /\ invoker' = "replying"
  /\ collected' = Registered
  /\ UNCHANGED <<db, handler, history, encoded, reported, ghosts, cause>>

\* The reply holds the live descriptors, and is encoded without a lock: of each the
\* duration (field 3) before the status (field 5).  was is a history value, the status
\* when the duration was read.
EncodeDuration(o) ==
  /\ Running /\ invoker = "replying" /\ encoded = {} /\ o \in collected
  /\ collected' = collected \ {o}
  /\ encoded' = {[of |-> o, duration |-> heap[o].duration, was |-> heap[o].status]}
  /\ UNCHANGED <<invoker, db, handler, history, reported, ghosts, cause>>

\* End keeps the completed ones.
EncodeStatus ==
  /\ Running /\ invoker = "replying" /\ encoded # {} /\ encoded' = {}
  /\ reported' = reported \cup {r \in encoded : heap[r.of].status = "COMPLETED"}
  /\ UNCHANGED <<invoker, db, handler, history, collected, ghosts, cause>>

End ==
  /\ Running /\ invoker = "replying" /\ collected = {} /\ encoded = {} /\ invoker' = "done"
  /\ UNCHANGED <<db, handler, history, collected, encoded, reported, ghosts, cause>>

\* Any error of an RPC ends the invoker: its timeout, a reply that could not be encoded, a
\* dead server.  The handler of a call that was given up goes on.
InvokerFatal ==
  /\ gen \in GiveUps \/ ~Running
  /\ invoker \in {"starting", "ending", "replying"} \/ (invoker = "loop" /\ ~Running)
  /\ invoker' = IF invoker = "starting" THEN "abandoned" ELSE "failed"
  /\ UNCHANGED <<db, handler, history, collected, encoded, reported, ghosts, cause>>

-----------------------------------------------------------------------------
(* registerEvent. *)

\* The broker delivers events of the experiments that are or were under way: in any
\* order, late, and more than once.
Delivered(e) == e.gen < gen \/ (e.gen = gen /\ invoker \notin {"idle", "starting", "abandoned"})

\* registerEvent and the functions it calls, with their variables still unset.
NewHandler(e) ==
  [pc |-> "lookup", event |-> e, now |-> Len(history) + 1, workflow |-> <<gen, e.wf>>, invocation |-> 0,
   isCompletion |-> FALSE, idx |-> 0, target |-> 0, rest |-> <<>>, seen |-> 0, records |-> <<>>]

\* The handler takes the time and looks up the workflow.
RegisterEvent(h, e) ==
  /\ At(h, "idle") /\ Delivered(e) /\ Len(history) < MaxDeliveries[gen]
  /\ history' = Append(history, [key |-> <<gen, e.wf, e.inv>>, attrs |-> e.attrs])
  /\ Update(h, NewHandler(e))
  /\ cause' = IF e.wf \in workflows THEN "" ELSE "unknown workflow"
  /\ overlapped' = overlapped \cup
       (IF \E k \in Handlers : Busy(k) /\ Name(Event(k)) = Name(e) THEN {Name(e)} ELSE {})
  /\ UNCHANGED <<invoker, db, collected, encoded, reported, panicked>>

Lookup(h) ==
  /\ At(h, "lookup")
  /\ LET o == invocations[Entry(h)]
     IN  Update(h, [handler[h] EXCEPT !.invocation = o, !.pc = IF o = 0 THEN "register" ELSE "check"])
  /\ UNCHANGED <<invoker, db, history, collected, encoded, reported, ghosts, cause>>

\* The receiver recovers a panic of a handler and answers with an error.
Panic(h) ==
  /\ panicked' = panicked \cup {Name(Event(h))}
  /\ Update(h, Idle)
  /\ UNCHANGED <<invoker, db, history, collected, encoded, reported, overlapped, cause>>

\* s.workflows is read again: it may be the map of another experiment by now.
WorkflowGone(h) == Event(h).wf \notin workflows

NewInvocation(h) ==
  [awaits |-> Definitions[gen][Event(h).wf], duration |-> 0, status |-> "CANCELLED", records |-> <<>>]

RegisterInvocation(h) ==
  /\ At(h, "register")
  /\ \/ WorkflowGone(h) /\ Panic(h)
     \/ /\ ~WorkflowGone(h)
        /\ heap' = Append(heap, NewInvocation(h))
        /\ Update(h, [handler[h] EXCEPT !.pc = "store", !.workflow = <<gen, Event(h).wf>>,
                                        !.invocation = Len(heap) + 1])
        /\ UNCHANGED <<invoker, gen, workflows, invocations, history, collected, encoded, reported, ghosts, cause>>

\* Mutant: the new invocation is bound to a variable of the inner scope.
StoreShadowed(h) ==
  /\ At(h, "store")
  /\ invocations' = [invocations EXCEPT ![Entry(h)] = handler[h].invocation]
  /\ Update(h, [handler[h] EXCEPT !.pc = "check", !.invocation = 0])
  /\ UNCHANGED <<invoker, gen, workflows, heap, history, collected, encoded, reported, ghosts, cause>>

Store(h) ==
  /\ At(h, "store")
  /\ invocations' = [invocations EXCEPT ![Entry(h)] = handler[h].invocation]
  /\ Update(h, [handler[h] EXCEPT !.pc = "check"])
  /\ UNCHANGED <<invoker, gen, workflows, heap, history, collected, encoded, reported, ghosts, cause>>

\* The invocation that the maps name now, which need not be the handler's own.
Gone(h) == WorkflowGone(h) \/ invocations[Key(h)] = 0
Current(h) == invocations[Key(h)]

\* A descriptor is the set of the attributes that it asks for.
Matches(e, awaits) == {i \in DOMAIN awaits : awaits[i] \subseteq e.attrs}

CheckCompletion(h) ==
  /\ At(h, "check")
  /\ \/ Gone(h) /\ Panic(h)
     \/ /\ ~Gone(h)
        /\ LET m == Matches(Event(h), heap[Current(h)].awaits)
           IN  \/ m = {} /\ Update(h, [handler[h] EXCEPT !.pc = "record"])
               \/ \E i \in m :
                    /\ \A j \in m : i <= j
                    /\ Update(h, [handler[h] EXCEPT !.pc = "complete", !.isCompletion = TRUE, !.idx = i])
        /\ UNCHANGED <<invoker, db, history, collected, encoded, reported, ghosts, cause>>

\* Mutant: the descriptor after the matched one goes.
DropNext(awaits, i) == RemoveAt(awaits, IF i < Len(awaits) THEN i + 1 ELSE i)

Drop(awaits, i) == RemoveAt(awaits, i)

\* onCompletionEvent, from reading the descriptors to writing them back.  The index may
\* be stale.
OnCompletionEvent(h) ==
  /\ At(h, "complete")
  /\ \/ Gone(h) /\ Panic(h)
     \/ ~Gone(h) /\ handler[h].idx > Len(heap[Current(h)].awaits) /\ Panic(h)
     \/ /\ ~Gone(h) /\ handler[h].idx <= Len(heap[Current(h)].awaits)
        /\ Update(h, [handler[h] EXCEPT !.pc = "remove", !.target = Current(h),
                                        !.rest = Drop(heap[Current(h)].awaits, handler[h].idx)])
        /\ UNCHANGED <<invoker, db, history, collected, encoded, reported, ghosts, cause>>

\* Mutant: the status is set before the duration.
RemoveAndComplete(h) ==
  /\ At(h, "remove")
  /\ LET o == handler[h].target
         i == handler[h].invocation
         removed == [heap EXCEPT ![o].awaits = handler[h].rest]
     IN  heap' = IF handler[h].rest = <<>> THEN [removed EXCEPT ![i].status = "COMPLETED"] ELSE removed
  /\ Update(h, [handler[h] EXCEPT !.pc = "duration", !.seen = heap[handler[h].invocation].duration])
  /\ UNCHANGED <<invoker, gen, workflows, invocations, history, collected, encoded, reported, ghosts, cause>>

RemoveDescriptor(h) ==
  /\ At(h, "remove")
  /\ heap' = [heap EXCEPT ![handler[h].target].awaits = handler[h].rest]
  /\ Update(h, [handler[h] EXCEPT !.pc = "duration", !.seen = heap[handler[h].invocation].duration])
  /\ UNCHANGED <<invoker, gen, workflows, invocations, history, collected, encoded, reported, ghosts, cause>>

\* Mutant: the first completion event decides.
FirstOf(seen, now) == IF seen = 0 THEN now ELSE seen

\* Events are invoked at time 0; no duration is 0.
Longer(seen, now) == IF seen = 0 \/ now > seen THEN now ELSE seen

UpdateDuration(h) ==
  /\ At(h, "duration")
  /\ heap' = [heap EXCEPT ![handler[h].invocation].duration = Longer(handler[h].seen, handler[h].now)]
  /\ Update(h, [handler[h] EXCEPT !.pc = "status"])
  /\ UNCHANGED <<invoker, gen, workflows, invocations, history, collected, encoded, reported, ghosts, cause>>

\* The descriptors that count are those of the map's invocation, the status is set on
\* the descriptor the handler holds.
UpdateStatus(h) ==
  /\ At(h, "status")
  /\ heap' = IF heap[handler[h].target].awaits = <<>>
             THEN [heap EXCEPT ![handler[h].invocation].status = "COMPLETED"] ELSE heap
  /\ Update(h, [handler[h] EXCEPT !.pc = "record"])
  /\ UNCHANGED <<invoker, gen, workflows, invocations, history, collected, encoded, reported, ghosts, cause>>

\* The append reads the records before it writes them.
ReadRecords(h) ==
  /\ At(h, "record")
  /\ Update(h, [handler[h] EXCEPT !.pc = "append", !.records = heap[handler[h].invocation].records])
  /\ UNCHANGED <<invoker, db, history, collected, encoded, reported, ghosts, cause>>

AppendRecord(h) ==
  /\ At(h, "append")
  /\ heap' = [heap EXCEPT ![handler[h].invocation].records =
       Append(handler[h].records, [now |-> handler[h].now, isCompletion |-> handler[h].isCompletion])]
  /\ Update(h, Idle)
  /\ UNCHANGED <<invoker, gen, workflows, invocations, history, collected, encoded, reported, ghosts, cause>>

\* The Go runtime may kill the server when a map is read or iterated over during a write.
SharesMap(h, k) == handler[h].workflow = handler[k].workflow

Accesses(k) == Busy(k) /\ handler[k].pc \in {"lookup", "store", "check", "complete"}

\* h is about to write the map of a workflow that others read, or to read s.workflows
\* while StartExperiment fills it.
MapRace(h) ==
  /\ Running /\ Busy(h)
  /\ \/ /\ handler[h].pc = "store"
        /\ \/ invoker \in {"ending", "failed"} /\ handler[h].workflow[1] = gen
           \/ \E k \in Handlers \ {h} : Accesses(k) /\ SharesMap(h, k)
     \/ /\ Defining
        /\ \/ handler[h].pc = "lookup" /\ handler[h].workflow[1] = gen
           \/ handler[h].pc \in {"register", "check", "complete"}
  /\ cause' = "concurrent map access"
  /\ UNCHANGED <<invoker, db, handler, history, collected, encoded, reported, ghosts>>

HandleEvent(h) ==
  \/ Lookup(h) \/ RegisterInvocation(h) \/ Store(h) \/ CheckCompletion(h)
  \/ OnCompletionEvent(h) \/ RemoveDescriptor(h) \/ UpdateDuration(h) \/ UpdateStatus(h)
  \/ ReadRecords(h) \/ AppendRecord(h)

Next ==
  \/ StartExperiment \/ \E w \in Workflows : DefineWorkflow(w)
  \/ Timeout \/ EndExperiment \/ (\E o \in collected : EncodeDuration(o)) \/ EncodeStatus \/ End \/ InvokerFatal
  \/ \E h \in Handlers : (\E e \in Events : RegisterEvent(h, e)) \/ HandleEvent(h) \/ MapRace(h)

Spec == Init /\ [][Next]_vars

-----------------------------------------------------------------------------
(* Properties. *)

\* Type invariant.  No handler uses a nil pointer: where the code dereferences the
\* invocation it looked up or registered, and the one that the maps name, they are there.
TypeOK ==
  /\ invoker \in {"idle", "starting", "loop", "ending", "replying", "done", "failed", "abandoned"}
  /\ gen \in 0..Len(Definitions) /\ (gen > 0 => workflows \subseteq DOMAIN Definitions[gen])
  /\ \A k \in Keys : invocations[k] \in 0..Len(heap)
  /\ \A o \in DOMAIN heap : /\ heap[o].duration \in 0..Len(history)
                            /\ heap[o].status \in {"NULL", "COMPLETED", "CANCELLED"}
                            /\ Len(heap[o].records) <= Len(history)
  /\ \A h \in Handlers : handler[h].pc \in {"idle", "lookup", "register", "store", "check", "complete",
                                            "remove", "duration", "status", "record", "append"}
  /\ \A h \in Handlers :
       /\ handler[h].pc \notin {"idle", "lookup", "register"} => handler[h].invocation \in DOMAIN heap
       /\ handler[h].pc \in {"remove", "duration", "status"} => handler[h].target \in DOMAIN heap
  /\ collected \subseteq DOMAIN heap /\ \A r \in encoded \cup reported : r.of \in DOMAIN heap
  /\ cause \in {"", "unknown workflow", "concurrent map access"}

\* An event of the experiment under way is never fatal by itself: the server dies only of
\* an event that outlived its experiment, of two handlers in one workflow, or of a handler
\* during EndExperiment, perhaps given up by its caller; and a handler panics only where
\* two parties met on its invocation or a new experiment replaced the maps under it.
CrashesExplained ==
  /\ ~Running =>
       \/ \E h \in Handlers : Busy(h) /\ Event(h).gen < gen
       \/ \E h, k \in Handlers : h # k /\ Busy(h) /\ Busy(k) /\ SharesMap(h, k)
       \/ invoker \in {"ending", "failed"} /\ \E h \in Handlers : Busy(h)
  /\ panicked \subseteq overlapped

\* An invocation at rest that no two parties handled at once.
Settled(k) ==
  /\ invocations[k] # 0 /\ <<k[2], k[3]>> \notin overlapped
  /\ \A h \in Handlers : Busy(h) => Name(Event(h)) # <<k[2], k[3]>>

Completions(i) == {n \in DOMAIN i.records : i.records[n].isCompletion}
Times(i, ns) == {i.records[n].now : n \in ns}

\* met gives each wanted descriptor the delivery of got that met it, 0 if none did: one
\* that has the attributes it asks for, and no other descriptor's.  A delivery meets a
\* descriptor unless all those that it matches were met before.
Meets(met, wanted, got) ==
  /\ \A v, w \in DOMAIN wanted : met[v] = met[w] => v = w \/ met[v] = 0
  /\ \A w \in DOMAIN wanted : met[w] # 0 => wanted[w] \subseteq history[met[w]].attrs
  /\ \A n \in got, w \in DOMAIN wanted :
       wanted[w] \subseteq history[n].attrs => met[w] \in 1..n \/ \E v \in DOMAIN wanted : met[v] = n

\* What is recorded of a settled invocation follows from what was delivered, whatever the
\* order, the duplicates and the other invocations: every delivery once, flagged as a
\* completion exactly if it met a descriptor, COMPLETED exactly when all are met, and the
\* time of the last delivery that met one as duration.  A repeated event that matches, but
\* finds no descriptor left, neither counts nor extends the duration.
ResultExact ==
  \A k \in Keys : Settled(k) =>
    LET i == heap[invocations[k]]
        wanted == Definitions[k[1]][k[2]]
        got == {n \in DOMAIN history : history[n].key = k}
    IN  /\ Times(i, DOMAIN i.records) = got /\ Len(i.records) = Cardinality(got)
        /\ \E met \in [DOMAIN wanted -> got \cup {0}] :
             LET done == {met[w] : w \in DOMAIN wanted} \ {0}
             IN  /\ Meets(met, wanted, got)
                 /\ Times(i, Completions(i)) = done
                 /\ i.status = "COMPLETED" <=> \A w \in DOMAIN wanted : met[w] # 0
                 /\ i.duration \in done \cup {0} /\ \A n \in done : n <= i.duration

\* A settled invocation is COMPLETED only if every descriptor of its workflow can be
\* given a completion event of its own that has the attributes it asks for.
CompletedJustified ==
  \A k \in Keys : Settled(k) /\ heap[invocations[k]].status = "COMPLETED" =>
    LET i == heap[invocations[k]]
        wanted == Definitions[k[1]][k[2]]
    IN  \E f \in [DOMAIN wanted -> Times(i, Completions(i))] :
          /\ \A a, b \in DOMAIN wanted : a # b => f[a] # f[b]
          /\ \A a \in DOMAIN wanted : wanted[a] \subseteq history[f[a]].attrs

\* The duration that End reports of an invocation is a measured one, and no later event
\* changes it, unless handlers of the invocation overlap or a handler completed it between
\* the encodings of its duration and of its status.
ReportedFinal ==
  \A r \in reported : r.was = "COMPLETED" =>
    /\ r.duration # 0
    /\ \A k \in Keys : invocations[k] = r.of /\ <<k[2], k[3]>> \notin overlapped => heap[r.of].duration = r.duration
=============================================================================
