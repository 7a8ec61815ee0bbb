------------------------ MODULE TimeseriesDB_proofs -------------------------
(***************************************************************************)
(* Proofs about TimeseriesDB: what the server records of an invocation is  *)
(* exact, what it reports is final and what it dies of is explained, for   *)
(* any experiments, events, handlers and deliveries.                       *)
(***************************************************************************)
EXTENDS TimeseriesDB, SequenceTheorems, FiniteSetTheorems, TLAPS

-----------------------------------------------------------------------------
(* Shapes. *)

BusyLabels == {"lookup", "register", "store", "check", "complete", "remove", "duration", "status",
               "record", "append"}

Descriptors == Seq(SUBSET Attributes)
Record == [now: Nat, isCompletion: BOOLEAN]
Invocation == [awaits: Descriptors, duration: Nat, status: {"CANCELLED", "COMPLETED"}, records: Seq(Record)]
Delivery == [key: Gens \X Workflows \X Invocations, attrs: SUBSET Attributes]
BusyHandler ==
  [pc: BusyLabels, event: Events, now: Nat, workflow: Gens \X Workflows, invocation: Nat,
   isCompletion: BOOLEAN, idx: Nat, target: Nat, rest: Descriptors, seen: Nat, records: Seq(Record)]

Shape ==
  /\ invoker \in {"idle", "starting", "loop", "ending", "replying", "done", "failed", "abandoned"}
  /\ gen \in 0..Len(Definitions) /\ workflows \subseteq Workflows
  /\ gen = 0 => workflows = {} /\ invoker = "idle"
  /\ gen # 0 => workflows \subseteq DOMAIN Definitions[gen] /\ invoker # "idle"
  /\ invocations \in [Keys -> Nat] /\ heap \in Seq(Invocation)
  /\ handler \in [Handlers -> BusyHandler \cup {Idle}]
  /\ history \in Seq(Delivery)
  /\ cause \in {"", "unknown workflow", "concurrent map access"}

\* All workflows of the experiment are defined once Start has returned, and no event of the
\* experiment is handled before.
InvokerInv ==
  /\ invoker \in {"loop", "ending", "replying", "done", "failed"} => workflows = DOMAIN Definitions[gen]
  /\ \A h \in Handlers :
       Busy(h) => Event(h).gen <= gen /\ (invoker \in {"starting", "abandoned"} => Event(h).gen < gen)

-----------------------------------------------------------------------------
(* References to the objects of the heap. *)

NameOf(k) == <<k[2], k[3]>>
Refs(h) == {handler[h].invocation, handler[h].target} \ {0}

\* What a busy handler holds: an entry of a map, objects, times that were taken.
Holds(h) ==
  /\ handler[h].workflow[2] = Event(h).wf
  /\ Running => Entry(h) \in Keys
  /\ Refs(h) \subseteq 1..Len(heap)
  /\ handler[h].pc \notin {"lookup", "register"} => handler[h].invocation # 0
  /\ handler[h].pc \in {"remove", "duration", "status"} => handler[h].target # 0
  /\ handler[h].now \in 1..Len(history) /\ handler[h].seen \in 0..Len(history)
  /\ history[handler[h].now].attrs = Event(h).attrs
  /\ handler[h].pc = "complete" => handler[h].idx # 0
  /\ handler[h].pc = "status" => heap[handler[h].invocation].duration # 0

\* An object that was created and not yet put into the map is its creator's alone.
Unshared(h) ==
  handler[h].pc = "store" =>
    /\ \A k \in Keys : invocations[k] # handler[h].invocation
    /\ \A j \in Handlers : Busy(j) /\ j # h => handler[h].invocation \notin Refs(j)

\* An object belongs to one entry, and to handlers of that entry's name only.
OwnInv ==
  /\ \A k \in Keys : invocations[k] \in 0..Len(heap)
  /\ \A k, l \in Keys : invocations[k] = invocations[l] => k = l \/ invocations[k] = 0
  /\ \A h \in Handlers : Busy(h) => Holds(h) /\ Unshared(h)
  /\ \A h \in Handlers, k \in Keys : Busy(h) /\ invocations[k] \in Refs(h) => NameOf(k) = Name(Event(h))
  /\ \A h, j \in Handlers : Busy(h) /\ Busy(j) /\ Refs(h) \cap Refs(j) # {} => Name(Event(h)) = Name(Event(j))

-----------------------------------------------------------------------------
(* Times. *)

TimesOf(rs) == {rs[n].now : n \in DOMAIN rs}
DoneOf(rs) == {rs[n].now : n \in {m \in DOMAIN rs : rs[m].isCompletion}}

\* The times of the handlers at work.
Nows(hd) == {hd[h].now : h \in {j \in Handlers : hd[j].pc # "idle"}}

\* Every record has a time of its own, and none that of a handler still at work.
Timed(rs, n, nows) ==
  /\ TimesOf(rs) \subseteq 1..n
  /\ Len(rs) = Cardinality(TimesOf(rs))
  /\ TimesOf(rs) \cap nows = {}

TimedObject(i, n, nows) ==
  /\ Timed(i.records, n, nows)
  /\ i.duration \in 0..n
  /\ i.status = "COMPLETED" => i.duration # 0

TimeInv ==
  /\ \A o \in DOMAIN heap : TimedObject(heap[o], Len(history), Nows(handler))
  /\ \A h \in Handlers : Busy(h) => Timed(handler[h].records, Len(history), Nows(handler))
  /\ \A h, j \in Handlers : Busy(h) /\ Busy(j) /\ h # j => handler[h].now # handler[j].now

-----------------------------------------------------------------------------
(* Invocations that no two parties handled at once. *)

Quiet(n) == n \notin overlapped

\* What such a handler, in state me, has read is still so: the object i it holds, the one
\* that its entry k names (o), and what it has created (new).
Calm(me, i, k, o, new) ==
  /\ me.workflow = <<k[1], k[2]>>
  /\ me.pc \in {"register", "store"} => o = 0
  /\ me.pc \notin {"lookup", "register", "store"} => o = me.invocation
  /\ me.pc \in {"lookup", "register", "store", "check"} => ~me.isCompletion
  /\ me.pc \in {"complete", "remove", "duration", "status"} => me.isCompletion
  /\ me.pc = "store" => i = new
  /\ me.pc \in {"complete", "remove"} => me.idx \in DOMAIN i.awaits /\ i.awaits[me.idx] \subseteq me.event.attrs
  /\ me.pc = "remove" => me.rest = Drop(i.awaits, me.idx)
  /\ me.pc \in {"remove", "duration", "status"} => me.target = me.invocation
  /\ me.pc = "duration" => me.seen = i.duration
  /\ me.pc \in {"record", "append"} /\ ~me.isCompletion =>
       \A a \in DOMAIN i.awaits : ~(i.awaits[a] \subseteq me.event.attrs)
  /\ me.pc = "append" => me.records = i.records

DeliveredTo(hist, k) == {n \in DOMAIN hist : hist[n].key = k}

\* The handler of such an invocation is the only one, in the experiment under way, and
\* has its latest delivery.
Alone(h) ==
  /\ Running => ~WorkflowGone(h)
  /\ history[handler[h].now].key = Key(h)
  /\ \A n \in DeliveredTo(history, Key(h)) : n <= handler[h].now
  /\ \A j \in Handlers : Busy(j) /\ Name(Event(j)) = Name(Event(h)) => j = h
  /\ Calm(handler[h], heap[handler[h].invocation], Key(h), invocations[Key(h)], NewInvocation(h))

\* What a handler has done of a completion: the descriptor removed, the duration updated
\* as well, and the record or the status still to come.
Removed(m) == m.pc \in {"duration", "status"} \/ (m.pc \in {"record", "append"} /\ m.isCompletion)
Measured(m) == Removed(m) /\ m.pc # "duration"
Pending(m) == m.pc \in {"duration", "status"}

\* The handlers hd at work on entry k in experiment g, and their times.
Workers(hd, g, k) == {h \in Handlers : hd[h].pc # "idle" /\ <<g, hd[h].event.wf, hd[h].event.inv>> = k}
NowOf(hd, hs) == {hd[h].now : h \in hs}

\* The descriptors still awaited are some of the wanted ones, and the others have been
\* met, each by a time of its own in done; the times in missed matched only those that
\* had been met before.
Matching(hist, awaits, wanted, done, missed, at, by) ==
  /\ \A a, b \in DOMAIN awaits : at[a] = at[b] => a = b
  /\ \A a \in DOMAIN awaits : awaits[a] = wanted[at[a]]
  /\ \A w \in DOMAIN wanted : \/ \E a \in DOMAIN awaits : at[a] = w
                              \/ by[w] \in done /\ wanted[w] \subseteq hist[by[w]].attrs
  /\ \A v, w \in DOMAIN wanted : by[v] = by[w] => v = w \/ \E a \in DOMAIN awaits : at[a] \in {v, w}
  /\ \A n \in done : \E w \in DOMAIN wanted : by[w] = n /\ \A a \in DOMAIN awaits : at[a] # w
  /\ \A n \in missed, w \in DOMAIN wanted :
       wanted[w] \subseteq hist[n].attrs => by[w] < n /\ \A a \in DOMAIN awaits : at[a] # w

Met(hist, awaits, wanted, done, missed) ==
  \E at \in [DOMAIN awaits -> DOMAIN wanted], by \in [DOMAIN wanted -> Nat] :
    Matching(hist, awaits, wanted, done, missed, at, by)

\* The object i says of entry k what was delivered by history hist, but for the times in
\* nows; those in removed and measured count as completions already.
Accounts(hist, k, i, nows, removed, measured, pending) ==
  /\ TimesOf(i.records) = DeliveredTo(hist, k) \ nows
  /\ Met(hist, i.awaits, Definitions[k[1]][k[2]], DoneOf(i.records) \cup removed, TimesOf(i.records) \ DoneOf(i.records))
  /\ IF pending THEN i.status = "CANCELLED" ELSE i.status = "COMPLETED" <=> i.awaits = <<>>
  /\ i.duration \in DoneOf(i.records) \cup measured \cup {0}
  /\ \A n \in DoneOf(i.records) \cup measured : n <= i.duration

\* The entry k is object o, whose value is i, while the handlers hs of hd are at work on it.
Entered(hist, hd, hs, k, o, i) ==
  IF o = 0 THEN DeliveredTo(hist, k) = NowOf(hd, hs)
  ELSE Accounts(hist, k, i, NowOf(hd, hs), NowOf(hd, {h \in hs : Removed(hd[h])}),
                NowOf(hd, {h \in hs : Measured(hd[h])}), \E h \in hs : Pending(hd[h]))

KeyInv(k) ==
  Quiet(NameOf(k)) =>
    Entered(history, handler, Workers(handler, gen, k), k, invocations[k], heap[invocations[k]])

QuietInv == \A h \in Handlers : Busy(h) /\ Quiet(Name(Event(h))) => Alone(h)

\* What is encoded and reported.
ReportInv ==
  /\ collected \subseteq DOMAIN heap
  /\ \A r \in encoded \cup reported :
       /\ r.of \in DOMAIN heap
       /\ r.was = "COMPLETED" =>
            /\ heap[r.of].status = "COMPLETED" /\ r.duration # 0
            /\ \A k \in Keys : invocations[k] = r.of /\ Quiet(NameOf(k)) => heap[r.of].duration = r.duration

IInv ==
  /\ Shape /\ InvokerInv /\ OwnInv /\ TimeInv /\ QuietInv
  /\ \A k \in Keys : KeyInv(k)
  /\ ReportInv /\ CrashesExplained

-----------------------------------------------------------------------------
(* What each step of a handler does, field by field. *)

\* A step of handler h leaves all else but the heap and the maps of invocations alone.
Frame(h) ==
  /\ Running /\ Busy(h) /\ handler[h] \in BusyHandler
  /\ UNCHANGED <<invoker, gen, workflows, history, collected, encoded, reported, overlapped, cause>>
  /\ handler' \in [Handlers -> BusyHandler \cup {Idle}]
  /\ \A j \in Handlers : j # h => handler'[j] = handler[j]
  /\ Busy(h)' => handler'[h] \in BusyHandler /\ Event(h)' = Event(h) /\ handler'[h].now = handler[h].now

LEMMA BusyIs ==
  ASSUME Shape, NEW h \in Handlers
  PROVE  /\ Busy(h) <=> handler[h] \in BusyHandler
         /\ ~Busy(h) <=> handler[h] = Idle
<1>1. handler[h] \in BusyHandler \/ handler[h] = Idle
  BY DEF Shape
<1>2. handler[h] \in BusyHandler => handler[h].pc # "idle"
  BY DEF BusyHandler, BusyLabels
<1>3. handler[h] = Idle => handler[h].pc = "idle"
  BY DEF Idle
<1> QED BY <1>1, <1>2, <1>3 DEF Busy

LEMMA UpdateFacts ==
  ASSUME Shape, NEW h \in Handlers, NEW r \in BusyHandler \cup {Idle}, Update(h, r)
  PROVE  /\ handler' \in [Handlers -> BusyHandler \cup {Idle}]
         /\ handler'[h] = r
         /\ \A j \in Handlers : j # h => handler'[j] = handler[j]
BY DEF Shape, Update

\* A handler that stays busy and keeps its event and its time.
LEMMA MoveFrame ==
  ASSUME Shape, NEW h \in Handlers, Running, handler[h] \in BusyHandler,
         NEW r \in BusyHandler, Update(h, r), r.event = handler[h].event, r.now = handler[h].now,
         UNCHANGED <<invoker, gen, workflows, history, collected, encoded, reported, overlapped, cause>>
  PROVE  Frame(h) /\ handler'[h] = r /\ Busy(h)'
<1>1. /\ handler' \in [Handlers -> BusyHandler \cup {Idle}] /\ handler'[h] = r
      /\ \A j \in Handlers : j # h => handler'[j] = handler[j]
  BY UpdateFacts
<1>2. Busy(h) /\ Busy(h)'
  BY <1>1 DEF Busy, BusyHandler, BusyLabels
<1> QED BY <1>1, <1>2 DEF Frame, Event


LEMMA HeapShape ==
  ASSUME Shape
  PROVE  /\ heap \in Seq(Invocation) /\ Len(heap) \in Nat /\ DOMAIN heap = 1..Len(heap)
         /\ history \in Seq(Delivery) /\ Len(history) \in Nat /\ DOMAIN history = 1..Len(history)
<1>1. heap \in Seq(Invocation) /\ history \in Seq(Delivery)
  BY DEF Shape
<1> QED BY <1>1

LEMMA Places ==
  ASSUME Shape, OwnInv, NEW h \in Handlers, Busy(h)
  PROVE  /\ handler[h] \in BusyHandler /\ Event(h) \in Events
         /\ Running => Entry(h) \in Keys /\ invocations[Entry(h)] \in 0..Len(heap)
         /\ ~WorkflowGone(h) => gen \in Gens /\ Event(h).wf \in DOMAIN Definitions[gen]
                                /\ Key(h) \in Keys /\ invocations[Key(h)] \in 0..Len(heap)
         /\ handler[h].invocation # 0 => handler[h].invocation \in DOMAIN heap
         /\ handler[h].target # 0 => handler[h].target \in DOMAIN heap
         /\ Len(heap) \in Nat /\ DOMAIN heap = 1..Len(heap)
<1>1. handler[h] \in BusyHandler /\ Event(h) \in Events
  BY BusyIs DEF BusyHandler, Event
<1>2. Len(heap) \in Nat /\ DOMAIN heap = 1..Len(heap)
  BY HeapShape
<1>3. Holds(h) /\ \A k \in Keys : invocations[k] \in 0..Len(heap)
  BY DEF OwnInv
<1>4. ASSUME ~WorkflowGone(h)
      PROVE  gen \in Gens /\ Event(h).wf \in DOMAIN Definitions[gen] /\ Key(h) \in Keys
  <2>1. gen \in Gens /\ Event(h).wf \in DOMAIN Definitions[gen]
    <3>1. gen # 0 /\ gen \in 0..Len(Definitions) /\ workflows \subseteq DOMAIN Definitions[gen]
      BY <1>4 DEF WorkflowGone, Shape
    <3>2. Gens = 1..Len(Definitions) /\ Len(Definitions) \in Nat
      BY TimeseriesDBAssumption
    <3> QED BY <1>4, <3>1, <3>2 DEF WorkflowGone
  <2>2. Event(h).inv \in Invocations
    BY <1>1, TimeseriesDBAssumption
  <2> QED BY <2>1, <2>2 DEF Key, Keys
<1> QED BY <1>1, <1>2, <1>3, <1>4 DEF Holds, Refs

LEMMA Objects ==
  ASSUME Shape, NEW o \in DOMAIN heap
  PROVE  /\ heap[o] \in Invocation /\ heap[o].awaits \in Descriptors /\ heap[o].duration \in Nat
         /\ heap[o].status \in {"CANCELLED", "COMPLETED"} /\ heap[o].records \in Seq(Record)
         /\ Len(heap[o].awaits) \in Nat /\ DOMAIN heap[o].awaits = 1..Len(heap[o].awaits)
<1>1. heap[o] \in Invocation
  BY HeapShape
<1> QED BY <1>1 DEF Invocation, Descriptors

\* Drop removes the element at i and moves up those behind it.
LEMMA DropFacts ==
  ASSUME NEW S, NEW s \in Seq(S), NEW i \in 1..Len(s)
  PROVE  /\ Drop(s, i) \in Seq(S) /\ Len(Drop(s, i)) = Len(s) - 1
         /\ \A j \in 1..(Len(s) - 1) : Drop(s, i)[j] = IF j < i THEN s[j] ELSE s[j + 1]
<1> DEFINE p == SubSeq(s, 1, i - 1)
           q == SubSeq(s, i + 1, Len(s))
<1>1. Len(s) \in Nat /\ i \in Nat /\ i - 1 \in Int /\ i + 1 \in Int /\ \A j \in 1..Len(s) : s[j] \in S
  OBVIOUS
<1>2. p \in Seq(S) /\ Len(p) = i - 1 /\ \A j \in 1..(i - 1) : p[j] = s[j]
  <2>1. \A j \in 1..(i - 1) : s[j] \in S
    BY <1>1
  <2> QED BY <1>1, <2>1, SubSeqProperties
<1>3. q \in Seq(S) /\ Len(q) = Len(s) - i /\ \A j \in 1..(Len(s) - i) : q[j] = s[i + j]
  <2>1. \A j \in (i + 1)..Len(s) : s[j] \in S
    BY <1>1
  <2>2. /\ q \in Seq(S) /\ Len(q) = IF i + 1 <= Len(s) THEN Len(s) - (i + 1) + 1 ELSE 0
        /\ \A j \in 1..(Len(s) - (i + 1) + 1) : q[j] = s[(i + 1) + j - 1]
    BY <1>1, <2>1, SubSeqProperties
  <2> QED BY <1>1, <2>2
<1>4. Drop(s, i) = p \o q
  BY DEF Drop, RemoveAt
<1> HIDE DEF p, q
<1>5. /\ p \o q \in Seq(S) /\ Len(p \o q) = Len(p) + Len(q)
      /\ \A j \in 1..(Len(p) + Len(q)) : (p \o q)[j] = IF j <= Len(p) THEN p[j] ELSE q[j - Len(p)]
  BY <1>2, <1>3, ConcatProperties
<1>6. ASSUME NEW j \in 1..(Len(s) - 1) PROVE Drop(s, i)[j] = IF j < i THEN s[j] ELSE s[j + 1]
  <2>1. j \in 1..(Len(p) + Len(q)) /\ (j <= Len(p) <=> j < i)
    BY <1>1, <1>2, <1>3, <1>6
  <2>2. CASE j < i
    <3>1. j \in 1..(i - 1)
      BY <1>1, <1>6, <2>2
    <3> QED BY <1>2, <1>4, <1>5, <2>1, <2>2, <3>1
  <2>3. CASE ~(j < i)
    <3>1. j - (i - 1) \in 1..(Len(s) - i) /\ i + (j - (i - 1)) = j + 1
      BY <1>1, <1>6, <2>3
    <3>2. q[j - (i - 1)] = s[j + 1]
      BY <1>3, <3>1
    <3> QED BY <1>2, <1>4, <1>5, <2>1, <2>3, <3>2
  <2> QED BY <2>2, <2>3
<1> QED BY <1>1, <1>2, <1>3, <1>4, <1>5, <1>6

\* The receiver recovers: the handler is idle again, and nothing else changes.
LEMMA PanicEffect ==
  ASSUME Shape, NEW h \in Handlers, Running, Busy(h), Panic(h)
  PROVE  /\ Frame(h) /\ UNCHANGED <<heap, invocations>> /\ ~Busy(h)' /\ handler'[h] = Idle
         /\ panicked' = panicked \cup {Name(Event(h))}
<1>1. Idle \in BusyHandler \cup {Idle} /\ handler[h] \in BusyHandler
  BY BusyIs
<1>2. Update(h, Idle)
  BY DEF Panic
<1>3. /\ handler' \in [Handlers -> BusyHandler \cup {Idle}] /\ handler'[h] = Idle
      /\ \A j \in Handlers : j # h => handler'[j] = handler[j]
  BY <1>1, <1>2, UpdateFacts
<1>4. ~Busy(h)'
  BY <1>3 DEF Busy, Idle
<1> QED BY <1>1, <1>3, <1>4 DEF Frame, Panic, db

LEMMA LookupEffect ==
  ASSUME Shape, OwnInv, NEW h \in Handlers, Lookup(h)
  PROVE  /\ Frame(h) /\ UNCHANGED <<heap, invocations, panicked>> /\ Busy(h)' /\ handler[h].pc = "lookup"
         /\ handler'[h].pc = IF invocations[Entry(h)] = 0 THEN "register" ELSE "check"
         /\ handler'[h].invocation = invocations[Entry(h)]
         /\ handler'[h].workflow = handler[h].workflow /\ handler'[h].isCompletion = handler[h].isCompletion
         /\ handler'[h].idx = handler[h].idx /\ handler'[h].target = handler[h].target
         /\ handler'[h].rest = handler[h].rest /\ handler'[h].seen = handler[h].seen
         /\ handler'[h].records = handler[h].records
<1> DEFINE r == [handler[h] EXCEPT !.pc = IF invocations[Entry(h)] = 0 THEN "register" ELSE "check",
                                 !.invocation = invocations[Entry(h)]]
<1>1. Running /\ handler[h].pc = "lookup" /\ handler[h] \in BusyHandler /\ Busy(h)
  BY BusyIs DEF Lookup, At, Busy
<1>2. invocations[Entry(h)] \in Nat
  BY <1>1, Places
<1>3. r \in BusyHandler
  BY <1>1, <1>2 DEF BusyHandler, BusyLabels
<1>4. /\ Update(h, r)
      /\ UNCHANGED <<heap, invocations, panicked, invoker, gen, workflows, history, collected, encoded, reported, overlapped, cause>>
  BY DEF Lookup, db, ghosts
<1>5. r.event = handler[h].event /\ r.now = handler[h].now
  BY <1>1 DEF BusyHandler
<1> HIDE DEF r
<1>6. Frame(h) /\ handler'[h] = r /\ Busy(h)'
  BY <1>1, <1>3, <1>4, <1>5, MoveFrame
<1> QED BY <1>1, <1>4, <1>6 DEF BusyHandler, r

LEMMA RegisterEffect ==
  ASSUME Shape, OwnInv, NEW h \in Handlers, RegisterInvocation(h), ~WorkflowGone(h)
  PROVE  /\ Frame(h) /\ UNCHANGED <<invocations, panicked>> /\ Busy(h)' /\ handler[h].pc = "register"
         /\ handler'[h].pc = "store"
         /\ handler'[h].workflow = <<gen, Event(h).wf>>
         /\ handler'[h].invocation = Len(heap) + 1
         /\ handler'[h].isCompletion = handler[h].isCompletion /\ handler'[h].idx = handler[h].idx
         /\ handler'[h].target = handler[h].target /\ handler'[h].rest = handler[h].rest
         /\ handler'[h].seen = handler[h].seen /\ handler'[h].records = handler[h].records
         /\ heap' = Append(heap, NewInvocation(h))
<1> DEFINE r == [handler[h] EXCEPT !.pc = "store", !.workflow = <<gen, Event(h).wf>>, !.invocation = Len(heap) + 1]
<1>1. Running /\ handler[h].pc = "register" /\ handler[h] \in BusyHandler /\ Busy(h)
  BY BusyIs DEF RegisterInvocation, At, Busy
<1>2. <<gen, Event(h).wf>> \in Gens \X Workflows /\ Len(heap) + 1 \in Nat
  BY <1>1, Places DEF Workflows
<1>3. r \in BusyHandler
  BY <1>1, <1>2 DEF BusyHandler, BusyLabels
<1>4. /\ Update(h, r)
      /\ UNCHANGED <<invocations, panicked, invoker, gen, workflows, history, collected, encoded, reported, overlapped, cause>>
  BY DEF RegisterInvocation, ghosts
<1>5. r.event = handler[h].event /\ r.now = handler[h].now
  BY <1>1 DEF BusyHandler
<1> HIDE DEF r
<1>6. Frame(h) /\ handler'[h] = r /\ Busy(h)'
  BY <1>1, <1>3, <1>4, <1>5, MoveFrame
<1> QED BY <1>1, <1>4, <1>6 DEF BusyHandler, r, RegisterInvocation

LEMMA StoreEffect ==
  ASSUME Shape, OwnInv, NEW h \in Handlers, Store(h)
  PROVE  /\ Frame(h) /\ UNCHANGED <<heap, panicked>> /\ Busy(h)' /\ handler[h].pc = "store"
         /\ handler'[h].pc = "check"
         /\ handler'[h].workflow = handler[h].workflow /\ handler'[h].invocation = handler[h].invocation
         /\ handler'[h].isCompletion = handler[h].isCompletion /\ handler'[h].idx = handler[h].idx
         /\ handler'[h].target = handler[h].target /\ handler'[h].rest = handler[h].rest
         /\ handler'[h].seen = handler[h].seen /\ handler'[h].records = handler[h].records
         /\ invocations' = [invocations EXCEPT ![Entry(h)] = handler[h].invocation]
<1> DEFINE r == [handler[h] EXCEPT !.pc = "check"]
<1>1. Running /\ handler[h].pc = "store" /\ handler[h] \in BusyHandler /\ Busy(h)
  BY BusyIs DEF Store, At, Busy
<1>3. r \in BusyHandler
  BY <1>1 DEF BusyHandler, BusyLabels
<1>4. Update(h, r) /\ UNCHANGED <<heap, panicked, invoker, gen, workflows, history, collected, encoded, reported, overlapped, cause>>
  BY DEF Store, ghosts
<1>5. r.event = handler[h].event /\ r.now = handler[h].now
  BY <1>1 DEF BusyHandler
<1> HIDE DEF r
<1>6. Frame(h) /\ handler'[h] = r /\ Busy(h)'
  BY <1>1, <1>3, <1>4, <1>5, MoveFrame
<1> QED BY <1>1, <1>4, <1>6 DEF BusyHandler, r, Store

\* One object of the heap changes.
Changes(o) ==
  /\ o \in DOMAIN heap
  /\ heap' \in Seq(Invocation) /\ Len(heap') = Len(heap) /\ DOMAIN heap' = DOMAIN heap
  /\ \A p \in DOMAIN heap : p # o => heap'[p] = heap[p]

LEMMA HeapPut ==
  ASSUME Shape, NEW o \in DOMAIN heap, NEW i \in Invocation, heap' = [heap EXCEPT ![o] = i]
  PROVE  Changes(o) /\ heap'[o] = i
<1>1. heap \in [1..Len(heap) -> Invocation] /\ Len(heap) \in Nat /\ DOMAIN heap = 1..Len(heap)
  BY HeapShape
<1>2. heap' \in [1..Len(heap) -> Invocation] /\ heap'[o] = i /\ \A p \in DOMAIN heap : p # o => heap'[p] = heap[p]
  BY <1>1
<1>3. heap' \in Seq(Invocation) /\ Len(heap') = Len(heap) /\ DOMAIN heap' = DOMAIN heap
  BY <1>1, <1>2
<1> QED BY <1>2, <1>3 DEF Changes

LEMMA CheckEffect ==
  ASSUME Shape, OwnInv, NEW h \in Handlers, CheckCompletion(h), ~Gone(h)
  PROVE  /\ Frame(h) /\ UNCHANGED <<heap, invocations, panicked>> /\ Busy(h)' /\ handler[h].pc = "check"
         /\ handler'[h].workflow = handler[h].workflow /\ handler'[h].invocation = handler[h].invocation
         /\ handler'[h].target = handler[h].target
         /\ handler'[h].seen = handler[h].seen /\ handler'[h].records = handler[h].records
         /\ \/ /\ handler'[h].pc = "record" /\ handler'[h].isCompletion = handler[h].isCompletion
               /\ \A a \in DOMAIN heap[Current(h)].awaits : ~(heap[Current(h)].awaits[a] \subseteq Event(h).attrs)
            \/ /\ handler'[h].pc = "complete" /\ handler'[h].isCompletion = TRUE
               /\ handler'[h].idx \in DOMAIN heap[Current(h)].awaits
               /\ heap[Current(h)].awaits[handler'[h].idx] \subseteq Event(h).attrs
<1>1. Running /\ handler[h].pc = "check" /\ handler[h] \in BusyHandler /\ Busy(h)
  BY BusyIs DEF CheckCompletion, At, Busy
<1>2. UNCHANGED <<heap, invocations, panicked, invoker, gen, workflows, history, collected, encoded, reported, overlapped, cause>>
  BY DEF CheckCompletion, db, ghosts
<1>3. CASE Update(h, [handler[h] EXCEPT !.pc = "record"]) /\ Matches(Event(h), heap[Current(h)].awaits) = {}
  <2> DEFINE r == [handler[h] EXCEPT !.pc = "record"]
  <2>1. r \in BusyHandler /\ r.event = handler[h].event /\ r.now = handler[h].now
    BY <1>1 DEF BusyHandler, BusyLabels
  <2>2. Frame(h) /\ handler'[h] = r /\ Busy(h)'
    BY <1>1, <1>2, <1>3, <2>1, MoveFrame
  <2>3. \A a \in DOMAIN heap[Current(h)].awaits : ~(heap[Current(h)].awaits[a] \subseteq Event(h).attrs)
    BY <1>3 DEF Matches
  <2> QED BY <1>1, <1>2, <2>2, <2>3 DEF BusyHandler
<1>4. CASE \E i \in Matches(Event(h), heap[Current(h)].awaits) :
             Update(h, [handler[h] EXCEPT !.pc = "complete", !.isCompletion = TRUE, !.idx = i])
  <2>1. PICK i \in Matches(Event(h), heap[Current(h)].awaits) :
             Update(h, [handler[h] EXCEPT !.pc = "complete", !.isCompletion = TRUE, !.idx = i])
    BY <1>4
  <2>2. i \in DOMAIN heap[Current(h)].awaits /\ heap[Current(h)].awaits[i] \subseteq Event(h).attrs
    BY DEF Matches
  <2>3. Current(h) \in DOMAIN heap
    BY <1>1, Places DEF Gone, Current
  <2>4. i \in Nat
    BY <2>2, <2>3, Objects
  <2> DEFINE r == [handler[h] EXCEPT !.pc = "complete", !.isCompletion = TRUE, !.idx = i]
  <2>5. r \in BusyHandler /\ r.event = handler[h].event /\ r.now = handler[h].now
    BY <1>1, <2>4 DEF BusyHandler, BusyLabels
  <2>6. Frame(h) /\ handler'[h] = r /\ Busy(h)'
    BY <1>1, <1>2, <2>1, <2>5, MoveFrame
  <2> QED BY <1>1, <1>2, <2>2, <2>6 DEF BusyHandler
<1> QED BY <1>3, <1>4 DEF CheckCompletion

LEMMA CompleteEffect ==
  ASSUME Shape, OwnInv, NEW h \in Handlers, OnCompletionEvent(h), ~Gone(h), handler[h].idx <= Len(heap[Current(h)].awaits)
  PROVE  /\ Frame(h) /\ UNCHANGED <<heap, invocations, panicked>> /\ Busy(h)' /\ handler[h].pc = "complete"
         /\ handler'[h].pc = "remove"
         /\ handler'[h].target = Current(h)
         /\ handler'[h].rest = Drop(heap[Current(h)].awaits, handler[h].idx)
         /\ handler'[h].workflow = handler[h].workflow /\ handler'[h].invocation = handler[h].invocation
         /\ handler'[h].isCompletion = handler[h].isCompletion /\ handler'[h].idx = handler[h].idx
         /\ handler'[h].seen = handler[h].seen /\ handler'[h].records = handler[h].records
<1> DEFINE r == [handler[h] EXCEPT !.pc = "remove", !.target = Current(h),
                                 !.rest = Drop(heap[Current(h)].awaits, handler[h].idx)]
<1>1. Running /\ handler[h].pc = "complete" /\ handler[h] \in BusyHandler /\ Busy(h)
  BY BusyIs DEF OnCompletionEvent, At, Busy
<1>2. Current(h) \in DOMAIN heap /\ Current(h) \in Nat /\ Drop(heap[Current(h)].awaits, handler[h].idx) \in Descriptors
  <2>1. Current(h) \in DOMAIN heap /\ Current(h) \in Nat
    BY <1>1, Places DEF Gone, Current
  <2>2. handler[h].idx # 0 /\ handler[h].idx \in Nat
    BY <1>1 DEF OwnInv, Holds, BusyHandler
  <2>3. heap[Current(h)].awaits \in Descriptors /\ Len(heap[Current(h)].awaits) \in Nat
    BY <2>1, Objects
  <2>4. handler[h].idx \in 1..Len(heap[Current(h)].awaits)
    BY <2>2, <2>3
  <2> QED BY <2>1, <2>3, <2>4, DropFacts DEF Descriptors
<1>3. r \in BusyHandler
  BY <1>1, <1>2 DEF BusyHandler, BusyLabels
<1>4. /\ Update(h, r)
      /\ UNCHANGED <<heap, invocations, panicked, invoker, gen, workflows, history, collected, encoded, reported, overlapped, cause>>
  <2>1. handler[h].idx \in Nat /\ Len(heap[Current(h)].awaits) \in Nat
    BY <1>1, <1>2, Objects DEF BusyHandler
  <2>2. ~(handler[h].idx > Len(heap[Current(h)].awaits))
    BY <2>1
  <2> HIDE DEF r
  <2>3. /\ Update(h, [handler[h] EXCEPT !.pc = "remove", !.target = Current(h),
                                          !.rest = Drop(heap[Current(h)].awaits, handler[h].idx)])
        /\ UNCHANGED <<invoker, db, history, collected, encoded, reported, ghosts, cause>>
    BY ONLY <2>2, ~Gone(h), OnCompletionEvent(h) DEF OnCompletionEvent
  <2> QED BY <2>3 DEF r, db, ghosts
<1>5. r.event = handler[h].event /\ r.now = handler[h].now
  BY <1>1 DEF BusyHandler
<1> HIDE DEF r
<1>6. Frame(h) /\ handler'[h] = r /\ Busy(h)'
  BY <1>1, <1>3, <1>4, <1>5, MoveFrame
<1> QED BY <1>1, <1>4, <1>6 DEF BusyHandler, r

LEMMA RemoveEffect ==
  ASSUME Shape, OwnInv, NEW h \in Handlers, RemoveDescriptor(h)
  PROVE  /\ Frame(h) /\ UNCHANGED <<invocations, panicked>> /\ Busy(h)' /\ handler[h].pc = "remove"
         /\ handler'[h].pc = "duration"
         /\ handler'[h].seen = heap[handler[h].invocation].duration
         /\ handler'[h].workflow = handler[h].workflow /\ handler'[h].invocation = handler[h].invocation
         /\ handler'[h].isCompletion = handler[h].isCompletion /\ handler'[h].idx = handler[h].idx
         /\ handler'[h].target = handler[h].target /\ handler'[h].rest = handler[h].rest
         /\ handler'[h].records = handler[h].records
         /\ Changes(handler[h].target)
         /\ heap'[handler[h].target].awaits = handler[h].rest
         /\ heap'[handler[h].target].duration = heap[handler[h].target].duration
         /\ heap'[handler[h].target].status = heap[handler[h].target].status
         /\ heap'[handler[h].target].records = heap[handler[h].target].records
<1> DEFINE r == [handler[h] EXCEPT !.pc = "duration", !.seen = heap[handler[h].invocation].duration]
<1>1. Running /\ handler[h].pc = "remove" /\ handler[h] \in BusyHandler /\ Busy(h)
  BY BusyIs DEF RemoveDescriptor, At, Busy
<1>2. heap[handler[h].invocation].duration \in Nat
  BY <1>1, Places, Objects DEF OwnInv, Holds
<1>3. r \in BusyHandler
  BY <1>1, <1>2 DEF BusyHandler, BusyLabels
<1>4. /\ Update(h, r)
      /\ UNCHANGED <<invocations, panicked, invoker, gen, workflows, history, collected, encoded, reported, overlapped, cause>>
  BY DEF RemoveDescriptor, ghosts
<1>5. r.event = handler[h].event /\ r.now = handler[h].now
  BY <1>1 DEF BusyHandler
<1> HIDE DEF r
<1>6. Frame(h) /\ handler'[h] = r /\ Busy(h)'
  BY <1>1, <1>3, <1>4, <1>5, MoveFrame
<1>7. handler[h].target \in DOMAIN heap
  BY <1>1, Places DEF OwnInv, Holds
<1> DEFINE i == [heap[handler[h].target] EXCEPT !.awaits = handler[h].rest]
<1>8. heap' = [heap EXCEPT ![handler[h].target] = i]
  BY DEF RemoveDescriptor
<1>9. i \in Invocation
  <2>1. heap[handler[h].target] \in Invocation /\ handler[h].rest \in Descriptors
    BY <1>1, <1>7, Objects DEF BusyHandler
  <2> QED BY <2>1 DEF Invocation
<1>10. Changes(handler[h].target) /\ heap'[handler[h].target] = i
  BY <1>7, <1>8, <1>9, HeapPut
<1>11. /\ heap'[handler[h].target].awaits = handler[h].rest
       /\ heap'[handler[h].target].duration = heap[handler[h].target].duration
       /\ heap'[handler[h].target].status = heap[handler[h].target].status
       /\ heap'[handler[h].target].records = heap[handler[h].target].records
  BY <1>7, <1>10, Objects DEF Invocation
<1> QED BY <1>1, <1>4, <1>6, <1>10, <1>11 DEF BusyHandler, r

LEMMA DurationEffect ==
  ASSUME Shape, OwnInv, NEW h \in Handlers, UpdateDuration(h)
  PROVE  /\ Frame(h) /\ UNCHANGED <<invocations, panicked>> /\ Busy(h)' /\ handler[h].pc = "duration"
         /\ handler'[h].pc = "status"
         /\ handler'[h].workflow = handler[h].workflow /\ handler'[h].invocation = handler[h].invocation
         /\ handler'[h].isCompletion = handler[h].isCompletion /\ handler'[h].idx = handler[h].idx
         /\ handler'[h].target = handler[h].target /\ handler'[h].rest = handler[h].rest
         /\ handler'[h].seen = handler[h].seen /\ handler'[h].records = handler[h].records
         /\ Changes(handler[h].invocation)
         /\ heap'[handler[h].invocation].duration = Longer(handler[h].seen, handler[h].now)
         /\ heap'[handler[h].invocation].awaits = heap[handler[h].invocation].awaits
         /\ heap'[handler[h].invocation].status = heap[handler[h].invocation].status
         /\ heap'[handler[h].invocation].records = heap[handler[h].invocation].records
<1> DEFINE r == [handler[h] EXCEPT !.pc = "status"]
<1>1. Running /\ handler[h].pc = "duration" /\ handler[h] \in BusyHandler /\ Busy(h)
  BY BusyIs DEF UpdateDuration, At, Busy
<1>2. Longer(handler[h].seen, handler[h].now) \in Nat
  BY <1>1 DEF BusyHandler, Longer
<1>3. r \in BusyHandler
  BY <1>1, <1>2 DEF BusyHandler, BusyLabels
<1>4. /\ Update(h, r)
      /\ UNCHANGED <<invocations, panicked, invoker, gen, workflows, history, collected, encoded, reported, overlapped, cause>>
  BY DEF UpdateDuration, ghosts
<1>5. r.event = handler[h].event /\ r.now = handler[h].now
  BY <1>1 DEF BusyHandler
<1> HIDE DEF r
<1>6. Frame(h) /\ handler'[h] = r /\ Busy(h)'
  BY <1>1, <1>3, <1>4, <1>5, MoveFrame
<1>7. handler[h].invocation \in DOMAIN heap
  BY <1>1, Places DEF OwnInv, Holds
<1> DEFINE i == [heap[handler[h].invocation] EXCEPT !.duration = Longer(handler[h].seen, handler[h].now)]
<1>8. heap' = [heap EXCEPT ![handler[h].invocation] = i]
  BY DEF UpdateDuration
<1>9. i \in Invocation
  <2>1. heap[handler[h].invocation] \in Invocation
    BY <1>7, Objects
  <2> QED BY <1>2, <2>1 DEF Invocation
<1>10. Changes(handler[h].invocation) /\ heap'[handler[h].invocation] = i
  BY <1>7, <1>8, <1>9, HeapPut
<1>11. /\ heap'[handler[h].invocation].duration = Longer(handler[h].seen, handler[h].now)
       /\ heap'[handler[h].invocation].awaits = heap[handler[h].invocation].awaits
       /\ heap'[handler[h].invocation].status = heap[handler[h].invocation].status
       /\ heap'[handler[h].invocation].records = heap[handler[h].invocation].records
  BY <1>7, <1>10, Objects DEF Invocation
<1> QED BY <1>1, <1>4, <1>6, <1>10, <1>11 DEF BusyHandler, r

LEMMA StatusEffect ==
  ASSUME Shape, OwnInv, NEW h \in Handlers, UpdateStatus(h)
  PROVE  /\ Frame(h) /\ UNCHANGED <<invocations, panicked>> /\ Busy(h)' /\ handler[h].pc = "status"
         /\ handler'[h].pc = "record"
         /\ handler'[h].workflow = handler[h].workflow /\ handler'[h].invocation = handler[h].invocation
         /\ handler'[h].isCompletion = handler[h].isCompletion /\ handler'[h].idx = handler[h].idx
         /\ handler'[h].target = handler[h].target /\ handler'[h].rest = handler[h].rest
         /\ handler'[h].seen = handler[h].seen /\ handler'[h].records = handler[h].records
         /\ Changes(handler[h].invocation)
         /\ heap'[handler[h].invocation].status =
              (IF heap[handler[h].target].awaits = <<>> THEN "COMPLETED" ELSE heap[handler[h].invocation].status)
         /\ heap'[handler[h].invocation].awaits = heap[handler[h].invocation].awaits
         /\ heap'[handler[h].invocation].duration = heap[handler[h].invocation].duration
         /\ heap'[handler[h].invocation].records = heap[handler[h].invocation].records
<1> DEFINE r == [handler[h] EXCEPT !.pc = "record"]
<1>1. Running /\ handler[h].pc = "status" /\ handler[h] \in BusyHandler /\ Busy(h)
  BY BusyIs DEF UpdateStatus, At, Busy
<1>3. r \in BusyHandler
  BY <1>1 DEF BusyHandler, BusyLabels
<1>4. /\ Update(h, r)
      /\ UNCHANGED <<invocations, panicked, invoker, gen, workflows, history, collected, encoded, reported, overlapped, cause>>
  BY DEF UpdateStatus, ghosts
<1>5. r.event = handler[h].event /\ r.now = handler[h].now
  BY <1>1 DEF BusyHandler
<1> HIDE DEF r
<1>6. Frame(h) /\ handler'[h] = r /\ Busy(h)'
  BY <1>1, <1>3, <1>4, <1>5, MoveFrame
<1>7. handler[h].invocation \in DOMAIN heap
  BY <1>1, Places DEF OwnInv, Holds
<1> DEFINE i == [heap[handler[h].invocation] EXCEPT !.status =
             (IF heap[handler[h].target].awaits = <<>> THEN "COMPLETED" ELSE heap[handler[h].invocation].status)]
<1>8. heap' = [heap EXCEPT ![handler[h].invocation] = i]
  <2>1. CASE heap[handler[h].target].awaits = <<>>
    BY <2>1 DEF UpdateStatus
  <2>2. CASE heap[handler[h].target].awaits # <<>>
    <3>1. i = heap[handler[h].invocation]
      BY <1>7, <2>2, Objects DEF Invocation
    <3>2. heap' = heap
      BY <2>2 DEF UpdateStatus
    <3> QED BY <1>7, <3>1, <3>2, HeapShape
  <2> QED BY <2>1, <2>2
<1>9. i \in Invocation
  <2>1. heap[handler[h].invocation] \in Invocation
    BY <1>7, Objects
  <2> QED BY <2>1 DEF Invocation
<1>10. Changes(handler[h].invocation) /\ heap'[handler[h].invocation] = i
  BY <1>7, <1>8, <1>9, HeapPut
<1>11. /\ heap'[handler[h].invocation].status =
            (IF heap[handler[h].target].awaits = <<>> THEN "COMPLETED" ELSE heap[handler[h].invocation].status)
       /\ heap'[handler[h].invocation].awaits = heap[handler[h].invocation].awaits
       /\ heap'[handler[h].invocation].duration = heap[handler[h].invocation].duration
       /\ heap'[handler[h].invocation].records = heap[handler[h].invocation].records
  BY <1>7, <1>10, Objects DEF Invocation
<1> QED BY <1>1, <1>4, <1>6, <1>10, <1>11 DEF BusyHandler, r

LEMMA ReadEffect ==
  ASSUME Shape, OwnInv, NEW h \in Handlers, ReadRecords(h)
  PROVE  /\ Frame(h) /\ UNCHANGED <<heap, invocations, panicked>> /\ Busy(h)' /\ handler[h].pc = "record"
         /\ handler'[h].pc = "append"
         /\ handler'[h].records = heap[handler[h].invocation].records
         /\ handler'[h].workflow = handler[h].workflow /\ handler'[h].invocation = handler[h].invocation
         /\ handler'[h].isCompletion = handler[h].isCompletion /\ handler'[h].idx = handler[h].idx
         /\ handler'[h].target = handler[h].target /\ handler'[h].rest = handler[h].rest
         /\ handler'[h].seen = handler[h].seen
<1> DEFINE r == [handler[h] EXCEPT !.pc = "append", !.records = heap[handler[h].invocation].records]
<1>1. Running /\ handler[h].pc = "record" /\ handler[h] \in BusyHandler /\ Busy(h)
  BY BusyIs DEF ReadRecords, At, Busy
<1>2. heap[handler[h].invocation].records \in Seq(Record)
  BY <1>1, Places, Objects DEF OwnInv, Holds
<1>3. r \in BusyHandler
  BY <1>1, <1>2 DEF BusyHandler, BusyLabels
<1>4. /\ Update(h, r)
      /\ UNCHANGED <<heap, invocations, panicked, invoker, gen, workflows, history, collected, encoded, reported, overlapped, cause>>
  BY DEF ReadRecords, db, ghosts
<1>5. r.event = handler[h].event /\ r.now = handler[h].now
  BY <1>1 DEF BusyHandler
<1> HIDE DEF r
<1>6. Frame(h) /\ handler'[h] = r /\ Busy(h)'
  BY <1>1, <1>3, <1>4, <1>5, MoveFrame
<1> QED BY <1>1, <1>4, <1>6 DEF BusyHandler, r

LEMMA AppendEffect ==
  ASSUME Shape, OwnInv, NEW h \in Handlers, AppendRecord(h)
  PROVE  /\ Frame(h) /\ UNCHANGED <<invocations, panicked>> /\ ~Busy(h)' /\ handler'[h] = Idle /\ handler[h].pc = "append"
         /\ Changes(handler[h].invocation)
         /\ heap'[handler[h].invocation].records =
              Append(handler[h].records, [now |-> handler[h].now, isCompletion |-> handler[h].isCompletion])
         /\ heap'[handler[h].invocation].awaits = heap[handler[h].invocation].awaits
         /\ heap'[handler[h].invocation].duration = heap[handler[h].invocation].duration
         /\ heap'[handler[h].invocation].status = heap[handler[h].invocation].status
<1> DEFINE o == handler[h].invocation
           rs == Append(handler[h].records, [now |-> handler[h].now, isCompletion |-> handler[h].isCompletion])
           i == [heap[o] EXCEPT !.records = rs]
<1>1. Running /\ handler[h].pc = "append" /\ handler[h] \in BusyHandler /\ Busy(h)
  BY BusyIs DEF AppendRecord, At, Busy
<1>2. /\ Update(h, Idle) /\ heap' = [heap EXCEPT ![o] = i]
      /\ UNCHANGED <<invocations, panicked, invoker, gen, workflows, history, collected, encoded, reported, overlapped, cause>>
  BY DEF AppendRecord, ghosts
<1>3. /\ handler' \in [Handlers -> BusyHandler \cup {Idle}] /\ handler'[h] = Idle
      /\ \A j \in Handlers : j # h => handler'[j] = handler[j]
  BY <1>2, UpdateFacts
<1>4. ~Busy(h)'
  BY <1>3 DEF Busy, Idle
<1>5. o \in DOMAIN heap
  BY <1>1, Places DEF OwnInv, Holds
<1>6. rs \in Seq(Record)
  BY <1>1 DEF BusyHandler, Record
<1> HIDE DEF rs
<1>7. i \in Invocation
  BY <1>5, <1>6, Objects DEF Invocation
<1>8. Changes(o) /\ heap'[o] = i
  BY <1>2, <1>5, <1>7, HeapPut
<1>9. i.records = rs /\ i.awaits = heap[o].awaits /\ i.duration = heap[o].duration /\ i.status = heap[o].status
  BY <1>5, Objects DEF Invocation
<1>10. Frame(h)
  BY <1>1, <1>2, <1>3, <1>4 DEF Frame
<1> HIDE DEF i
<1> QED BY <1>1, <1>2, <1>3, <1>4, <1>8, <1>9, <1>10 DEF rs

-----------------------------------------------------------------------------
(* Ownership of the objects. *)

\* What a step of h leaves of the other handlers, and what it keeps of its own.
LEMMA OthersKept ==
  ASSUME NEW h \in Handlers, Frame(h)
  PROVE  /\ gen' = gen /\ history' = history /\ overlapped' = overlapped /\ Running' /\ workflows' = workflows
         /\ \A j \in Handlers : /\ Busy(j)' => Busy(j) /\ Event(j)' = Event(j) /\ handler'[j].now = handler[j].now
                                /\ Busy(j)' => Name(Event(j))' = Name(Event(j)) /\ Key(j)' = Key(j)
         /\ \A j \in Handlers : j # h => /\ Busy(j)' <=> Busy(j)
                                         /\ Refs(j)' = Refs(j) /\ Entry(j)' = Entry(j)
<1>1. gen' = gen /\ history' = history /\ overlapped' = overlapped /\ Running' /\ workflows' = workflows
  BY DEF Frame, Running
<1>2. \A j \in Handlers : j # h => handler'[j] = handler[j]
  BY DEF Frame
<1>3. \A j \in Handlers : Busy(j)' => Busy(j) /\ Event(j)' = Event(j) /\ handler'[j].now = handler[j].now
  BY <1>2 DEF Frame, Busy, Event
<1> QED BY <1>1, <1>2, <1>3 DEF Busy, Refs, Entry, Event, Name, Key

\* The heap keeps its objects, and a duration that was measured stays one.
Grows ==
  /\ heap' \in Seq(Invocation) /\ Len(heap) <= Len(heap')
  /\ \A o \in DOMAIN heap : heap[o].duration # 0 => heap'[o].duration # 0

LEMMA SameGrows ==
  ASSUME Shape, heap' = heap
  PROVE  Grows
BY HeapShape DEF Grows

LEMMA ChangesGrows ==
  ASSUME Shape, NEW o, Changes(o), heap[o].duration # 0 => heap'[o].duration # 0
  PROVE  Grows
<1>1. Len(heap) \in Nat
  BY HeapShape
<1> QED BY <1>1 DEF Grows, Changes

\* What the other handlers hold they still hold.
LEMMA HoldsKept ==
  ASSUME Shape, OwnInv, NEW h \in Handlers, Frame(h), Grows, NEW j \in Handlers, j # h, Busy(j)
  PROVE  Holds(j)'
<1>1. Holds(j)
  BY DEF OwnInv
<1>2. handler'[j] = handler[j] /\ history' = history /\ (Running' <=> Running)
  BY DEF Frame, Running
<1>3. Entry(j)' = Entry(j) /\ Refs(j)' = Refs(j) /\ Event(j)' = Event(j)
  BY <1>2 DEF Entry, Refs, Event
<1>4. Refs(j)' \subseteq 1..Len(heap')
  <2>1. Refs(j) \subseteq 1..Len(heap) /\ Len(heap) \in Nat /\ Len(heap') \in Nat /\ Len(heap) <= Len(heap')
    BY <1>1, HeapShape DEF Holds, Grows
  <2>2. 1..Len(heap) \subseteq 1..Len(heap')
    BY <2>1
  <2> QED BY <1>3, <2>1, <2>2
<1>5. handler[j].pc = "status" => heap'[handler[j].invocation].duration # 0
  <2>1. handler[j].pc = "status" => handler[j].invocation \in DOMAIN heap
    BY <1>1, Places DEF Holds
  <2> QED BY <1>1, <2>1 DEF Holds, Grows
<1> QED BY <1>1, <1>2, <1>3, <1>4, <1>5 DEF Holds

\* A step that takes up no object but those the maps have under the handler's name.
LEMMA OwnKept ==
  ASSUME Shape, OwnInv, NEW h \in Handlers, Frame(h), Grows, UNCHANGED invocations,
         Busy(h)' => Holds(h)' /\ handler'[h].pc # "store",
         NEW G, Busy(h)' => Refs(h)' \subseteq Refs(h) \cup G,
         \A x \in G : x # 0 => \E k \in Keys : invocations[k] = x /\ NameOf(k) = Name(Event(h))
  PROVE  OwnInv'
<1>0. /\ \A k \in Keys : invocations[k] \in 0..Len(heap)
      /\ \A k, l \in Keys : invocations[k] = invocations[l] => k = l \/ invocations[k] = 0
      /\ \A j \in Handlers : Busy(j) => Holds(j) /\ Unshared(j)
      /\ \A j \in Handlers, k \in Keys : Busy(j) /\ invocations[k] \in Refs(j) => NameOf(k) = Name(Event(j))
      /\ \A i, j \in Handlers : Busy(i) /\ Busy(j) /\ Refs(i) \cap Refs(j) # {} => Name(Event(i)) = Name(Event(j))
  BY DEF OwnInv
<1>1. \A k \in Keys : invocations'[k] \in 0..Len(heap')
  <2>1. Len(heap) \in Nat /\ Len(heap') \in Nat /\ Len(heap) <= Len(heap')
    BY HeapShape DEF Grows
  <2>2. 0..Len(heap) \subseteq 0..Len(heap')
    BY <2>1
  <2> QED BY <1>0, <2>2
<1>2. \A k, l \in Keys : invocations'[k] = invocations'[l] => k = l \/ invocations'[k] = 0
  BY <1>0
<1>3. \A x \in Refs(h)' : Busy(h)' => /\ x # 0 /\ Busy(h)
                                    /\ (x \in Refs(h) \/ \E k \in Keys : invocations[k] = x /\ NameOf(k) = Name(Event(h)))
  BY OthersKept DEF Refs
<1>4. \A j \in Handlers, k \in Keys : Busy(j)' /\ invocations'[k] \in Refs(j)' => NameOf(k) = Name(Event(j))'
  <2>1. ASSUME NEW j \in Handlers, NEW k \in Keys, Busy(j)', invocations'[k] \in Refs(j)'
        PROVE  NameOf(k) = Name(Event(j))
    <3>1. CASE j # h
      BY <1>0, <2>1, <3>1, OthersKept
    <3>2. CASE j = h
      BY <1>0, <1>3, <2>1, <3>2
    <3> QED BY <3>1, <3>2
  <2> QED BY <2>1, OthersKept
<1>5. ASSUME NEW j \in Handlers, Busy(j)', j # h, Busy(h)', NEW x \in Refs(j)' \cap Refs(h)'
      PROVE  Name(Event(j)) = Name(Event(h))
  <2>1. Busy(j) /\ x \in Refs(j) /\ Busy(h)
    BY <1>5, OthersKept
  <2>2. CASE x \in Refs(h)
    BY <1>0, <2>1, <2>2
  <2>3. CASE \E k \in Keys : invocations[k] = x /\ NameOf(k) = Name(Event(h))
    BY <1>0, <2>1, <2>3
  <2> QED BY <1>3, <1>5, <2>2, <2>3
<1>6. \A i, j \in Handlers : Busy(i)' /\ Busy(j)' /\ Refs(i)' \cap Refs(j)' # {} => Name(Event(i))' = Name(Event(j))'
  <2>1. ASSUME NEW i \in Handlers, NEW j \in Handlers, Busy(i)', Busy(j)', Refs(i)' \cap Refs(j)' # {}
        PROVE  Name(Event(i)) = Name(Event(j))
    <3>1. CASE i # h /\ j # h
      BY <1>0, <2>1, <3>1, OthersKept
    <3>2. CASE i = h /\ j # h
      BY <1>5, <2>1, <3>2
    <3>3. CASE i # h /\ j = h
      BY <1>5, <2>1, <3>3
    <3> QED BY <3>1, <3>2, <3>3
  <2> QED BY <2>1, OthersKept
<1>7. ASSUME NEW j \in Handlers, Busy(j)'
      PROVE  Holds(j)' /\ Unshared(j)'
  <2>1. CASE j = h
    BY <1>7, <2>1 DEF Unshared
  <2>2. CASE j # h
    <3>1. Holds(j)' /\ Busy(j) /\ handler'[j] = handler[j]
      BY <1>7, <2>2, OthersKept, HoldsKept DEF Frame
    <3>2. ASSUME handler[j].pc = "store"
          PROVE  /\ \A k \in Keys : invocations'[k] # handler[j].invocation
                 /\ \A i \in Handlers : Busy(i)' /\ i # j => handler[j].invocation \notin Refs(i)'
      <4>1. /\ \A k \in Keys : invocations[k] # handler[j].invocation
            /\ \A i \in Handlers : Busy(i) /\ i # j => handler[j].invocation \notin Refs(i)
        BY <1>0, <3>1, <3>2 DEF Unshared
      <4> QED BY <1>3, <2>2, <4>1, OthersKept
    <3> QED BY <3>1, <3>2 DEF Unshared
  <2> QED BY <2>1, <2>2
<1> QED BY <1>1, <1>2, <1>4, <1>6, <1>7 DEF OwnInv

\* What the handler itself holds after its step.
LEMMA HoldsMove ==
  ASSUME Shape, OwnInv, NEW h \in Handlers, Frame(h), Grows, Busy(h)',
         handler'[h].workflow = handler[h].workflow,
         Refs(h)' \subseteq Refs(h) \cup (1..Len(heap')),
         handler'[h].pc \notin {"lookup", "register"} => handler'[h].invocation # 0,
         handler'[h].pc \in {"remove", "duration", "status"} => handler'[h].target # 0,
         handler'[h].seen \in 0..Len(history),
         handler'[h].pc = "complete" => handler'[h].idx # 0,
         handler'[h].pc = "status" => heap'[handler'[h].invocation].duration # 0
  PROVE  Holds(h)'
<1>1. Holds(h)
  BY DEF OwnInv, Frame
<1>2. Event(h)' = Event(h) /\ handler'[h].now = handler[h].now /\ history' = history /\ Running
  BY DEF Frame
<1>3. Entry(h)' = Entry(h)
  BY <1>2 DEF Entry
<1>4. Refs(h)' \subseteq 1..Len(heap')
  <2>1. Refs(h) \subseteq 1..Len(heap) /\ Len(heap) \in Nat /\ Len(heap') \in Nat /\ Len(heap) <= Len(heap')
    BY <1>1, HeapShape DEF Holds, Grows
  <2>2. 1..Len(heap) \subseteq 1..Len(heap')
    BY <2>1
  <2> QED BY <2>1, <2>2
<1> QED BY <1>1, <1>2, <1>3, <1>4 DEF Holds

\* The common case: the handler goes on with the objects it has.
LEMMA OwnSame ==
  ASSUME Shape, OwnInv, NEW h \in Handlers, Frame(h), Grows, UNCHANGED invocations, Busy(h)',
         handler'[h].workflow = handler[h].workflow, handler'[h].invocation = handler[h].invocation,
         handler'[h].target = handler[h].target, handler'[h].seen \in 0..Len(history),
         handler'[h].pc \notin {"lookup", "register", "store"}, handler[h].pc \notin {"lookup", "register"},
         handler'[h].pc \in {"remove", "duration", "status"} => handler[h].target # 0,
         handler'[h].pc = "complete" => handler'[h].idx # 0,
         handler'[h].pc = "status" => heap'[handler'[h].invocation].duration # 0
  PROVE  OwnInv'
<1> DEFINE G == {}
<1>1. Refs(h)' = Refs(h)
  BY DEF Refs
<1>2. handler[h].invocation # 0
  BY DEF OwnInv, Holds, Frame
<1>3. Holds(h)'
  BY <1>1, <1>2, HoldsMove
<1>4. Busy(h)' => Refs(h)' \subseteq Refs(h) \cup G
  BY <1>1
<1>5. \A x \in G : x # 0 => \E k \in Keys : invocations[k] = x /\ NameOf(k) = Name(Event(h))
  OBVIOUS
<1> HIDE DEF G
<1>6. handler'[h].pc # "store"
  OBVIOUS
<1> QED BY <1>3, <1>4, <1>5, <1>6, OwnKept

\* A handler that ends gives up what it holds.
LEMMA OwnEnd ==
  ASSUME Shape, OwnInv, NEW h \in Handlers, Frame(h), Grows, UNCHANGED invocations, ~Busy(h)'
  PROVE  OwnInv'
<1> DEFINE G == {}
<1>1. Busy(h)' => Refs(h)' \subseteq Refs(h) \cup G
  OBVIOUS
<1>2. \A x \in G : x # 0 => \E k \in Keys : invocations[k] = x /\ NameOf(k) = Name(Event(h))
  OBVIOUS
<1> HIDE DEF G
<1> QED BY <1>1, <1>2, OwnKept

LEMMA KeyNames ==
  ASSUME NEW h \in Handlers
  PROVE  /\ NameOf(Key(h)) = Name(Event(h))
         /\ handler[h].workflow[2] = Event(h).wf => NameOf(Entry(h)) = Name(Event(h))
BY DEF NameOf, Key, Entry, Name

LEMMA LookupOwn ==
  ASSUME Shape, OwnInv, NEW h \in Handlers, Lookup(h)
  PROVE  OwnInv'
<1>1. /\ Frame(h) /\ UNCHANGED <<heap, invocations, panicked>> /\ Busy(h)' /\ handler[h].pc = "lookup"
      /\ handler'[h].pc = IF invocations[Entry(h)] = 0 THEN "register" ELSE "check"
      /\ handler'[h].invocation = invocations[Entry(h)]
      /\ handler'[h].workflow = handler[h].workflow
      /\ handler'[h].target = handler[h].target /\ handler'[h].seen = handler[h].seen
  BY LookupEffect
<1>2. Holds(h) /\ Entry(h) \in Keys /\ invocations[Entry(h)] \in 0..Len(heap) /\ Len(heap) \in Nat
  BY <1>1, Places DEF Frame, OwnInv
<1>3. Grows
  BY <1>1, SameGrows
<1>4. Refs(h)' \subseteq Refs(h) \cup {invocations[Entry(h)]} /\ 0 \notin Refs(h)'
  BY <1>1 DEF Refs
<1>5. Refs(h)' \subseteq Refs(h) \cup (1..Len(heap'))
  <2>1. invocations[Entry(h)] # 0 => invocations[Entry(h)] \in 1..Len(heap')
    BY <1>1, <1>2
  <2> QED BY <1>4, <2>1
<1>6. Holds(h)'
  <2>1. handler'[h].seen \in 0..Len(history)
    BY <1>1, <1>2 DEF Holds
  <2> QED BY <1>1, <1>3, <1>5, <2>1, HoldsMove
<1>7. \A x \in {invocations[Entry(h)]} : x # 0 => \E k \in Keys : invocations[k] = x /\ NameOf(k) = Name(Event(h))
  BY <1>2, KeyNames DEF Holds
<1>8. handler'[h].pc # "store"
  BY <1>1
<1> QED BY <1>1, <1>3, <1>4, <1>6, <1>7, <1>8, OwnKept

LEMMA RegisterOwn ==
  ASSUME Shape, OwnInv, NEW h \in Handlers, RegisterInvocation(h), ~WorkflowGone(h)
  PROVE  OwnInv' /\ Grows
<1>0. /\ \A k \in Keys : invocations[k] \in 0..Len(heap)
      /\ \A k, l \in Keys : invocations[k] = invocations[l] => k = l \/ invocations[k] = 0
      /\ \A j \in Handlers : Busy(j) => Holds(j) /\ Unshared(j)
      /\ \A j \in Handlers, k \in Keys : Busy(j) /\ invocations[k] \in Refs(j) => NameOf(k) = Name(Event(j))
      /\ \A i, j \in Handlers : Busy(i) /\ Busy(j) /\ Refs(i) \cap Refs(j) # {} => Name(Event(i)) = Name(Event(j))
  BY DEF OwnInv
<1>1. /\ Frame(h) /\ UNCHANGED <<invocations, panicked>> /\ Busy(h)' /\ handler[h].pc = "register"
      /\ handler'[h].pc = "store" /\ handler'[h].workflow = <<gen, Event(h).wf>>
      /\ handler'[h].invocation = Len(heap) + 1
      /\ handler'[h].target = handler[h].target /\ handler'[h].seen = handler[h].seen
      /\ heap' = Append(heap, NewInvocation(h))
  BY RegisterEffect
<1>2. /\ Busy(h) /\ handler[h] \in BusyHandler /\ Holds(h) /\ Key(h) \in Keys
      /\ Event(h).wf \in DOMAIN Definitions[gen] /\ gen \in Gens
  BY <1>1, Places DEF Frame, OwnInv
<1>3. NewInvocation(h) \in Invocation
  BY <1>2, TimeseriesDBAssumption DEF NewInvocation, Invocation, Descriptors
<1>4. Len(heap) \in Nat /\ heap \in Seq(Invocation) /\ DOMAIN heap = 1..Len(heap)
  BY HeapShape
<1>5. heap' \in Seq(Invocation) /\ Len(heap') = Len(heap) + 1 /\ \A o \in 1..Len(heap) : heap'[o] = heap[o]
  BY <1>1, <1>3, <1>4, AppendProperties
<1>6. Grows
  BY <1>4, <1>5 DEF Grows
<1>7. /\ 0..Len(heap) \subseteq 0..Len(heap') /\ Len(heap) + 1 \in 1..Len(heap') /\ 1..Len(heap) \subseteq 1..Len(heap')
      /\ Len(heap) + 1 \notin 0..Len(heap) /\ Len(heap) + 1 # 0
  BY <1>4, <1>5
<1>8. \A j \in Handlers : Busy(j) => Refs(j) \subseteq 1..Len(heap) /\ Len(heap) + 1 \notin Refs(j)
  <2>1. 1..Len(heap) \subseteq 0..Len(heap)
    BY <1>4
  <2> QED BY <1>0, <1>7, <2>1 DEF Holds
<1>9. Refs(h)' \subseteq Refs(h) \cup {Len(heap) + 1}
  BY <1>1, <1>7 DEF Refs
<1>10. Holds(h)'
  <2>1. Entry(h)' = Key(h) /\ Event(h)' = Event(h) /\ history' = history /\ handler'[h].now = handler[h].now
    BY <1>1 DEF Entry, Key, Frame
  <2>2. Refs(h)' \subseteq 1..Len(heap')
    BY <1>2, <1>7, <1>8, <1>9
  <2> QED BY <1>1, <1>2, <1>7, <2>1, <2>2 DEF Holds
<1>11. \A j \in Handlers : j # h /\ Busy(j)' => /\ Busy(j) /\ Holds(j)' /\ Refs(j)' = Refs(j) /\ handler'[j] = handler[j]
                                               /\ Len(heap) + 1 \notin Refs(j)'
  BY <1>1, <1>6, <1>8, OthersKept, HoldsKept DEF Frame
<1>12. Unshared(h)'
  BY <1>0, <1>1, <1>7, <1>11 DEF Unshared
<1>13. ASSUME NEW j \in Handlers, j # h, Busy(j)', handler[j].pc = "store"
       PROVE  Unshared(j)'
  <2>1. /\ \A k \in Keys : invocations[k] # handler[j].invocation
        /\ \A i \in Handlers : Busy(i) /\ i # j => handler[j].invocation \notin Refs(i)
        /\ handler[j].invocation # Len(heap) + 1
    <3>1. handler[j].invocation \in Refs(j)
      BY <1>0, <1>11, <1>13 DEF Holds, Refs
    <3> QED BY <1>0, <1>8, <1>11, <1>13, <3>1 DEF Unshared
  <2>2. \A i \in Handlers : Busy(i)' /\ i # j => handler[j].invocation \notin Refs(i)'
    <3>1. ASSUME NEW i \in Handlers, Busy(i)', i # j
          PROVE  handler[j].invocation \notin Refs(i)'
      <4>1. CASE i = h
        BY <1>2, <1>9, <2>1, <3>1, <4>1
      <4>2. CASE i # h
        BY <1>11, <2>1, <3>1, <4>2
      <4> QED BY <4>1, <4>2
    <3> QED BY <3>1
  <2> QED BY <1>1, <1>11, <1>13, <2>1, <2>2 DEF Unshared
<1>14. \A j \in Handlers : Busy(j)' => Holds(j)' /\ Unshared(j)'
  BY <1>10, <1>11, <1>12, <1>13 DEF Unshared
<1>15. \A j \in Handlers, k \in Keys : Busy(j)' /\ invocations'[k] \in Refs(j)' => NameOf(k) = Name(Event(j))'
  <2>1. ASSUME NEW j \in Handlers, NEW k \in Keys, Busy(j)', invocations'[k] \in Refs(j)'
        PROVE  NameOf(k) = Name(Event(j))
    <3>1. invocations[k] \in Refs(j) /\ Busy(j)
      <4>1. CASE j = h
        BY <1>0, <1>1, <1>2, <1>7, <1>9, <2>1, <4>1
      <4>2. CASE j # h
        BY <1>1, <1>11, <2>1, <4>2
      <4> QED BY <4>1, <4>2
    <3> QED BY <1>0, <3>1
  <2> QED BY <1>1, <2>1, OthersKept
<1>16. \A i, j \in Handlers : Busy(i)' /\ Busy(j)' /\ Refs(i)' \cap Refs(j)' # {} => Name(Event(i))' = Name(Event(j))'
  <2>1. ASSUME NEW i \in Handlers, NEW j \in Handlers, Busy(i)', Busy(j)', NEW x \in Refs(i)' \cap Refs(j)', i # j
        PROVE  x \in Refs(i) \cap Refs(j) /\ Busy(i) /\ Busy(j)
    <3>1. x # Len(heap) + 1
      BY <1>11, <2>1
    <3> QED BY <1>2, <1>9, <1>11, <2>1, <3>1
  <2> QED BY <1>0, <1>1, <2>1, OthersKept
<1> QED BY <1>0, <1>1, <1>6, <1>7, <1>14, <1>15, <1>16 DEF OwnInv

LEMMA StoreOwn ==
  ASSUME Shape, OwnInv, NEW h \in Handlers, Store(h)
  PROVE  OwnInv'
<1>0. /\ \A k \in Keys : invocations[k] \in 0..Len(heap)
      /\ \A k, l \in Keys : invocations[k] = invocations[l] => k = l \/ invocations[k] = 0
      /\ \A j \in Handlers : Busy(j) => Holds(j) /\ Unshared(j)
      /\ \A j \in Handlers, k \in Keys : Busy(j) /\ invocations[k] \in Refs(j) => NameOf(k) = Name(Event(j))
      /\ \A i, j \in Handlers : Busy(i) /\ Busy(j) /\ Refs(i) \cap Refs(j) # {} => Name(Event(i)) = Name(Event(j))
  BY DEF OwnInv
<1>1. /\ Frame(h) /\ UNCHANGED <<heap, panicked>> /\ Busy(h)' /\ handler[h].pc = "store"
      /\ handler'[h].pc = "check"
      /\ handler'[h].workflow = handler[h].workflow /\ handler'[h].invocation = handler[h].invocation
      /\ handler'[h].target = handler[h].target /\ handler'[h].seen = handler[h].seen
      /\ invocations' = [invocations EXCEPT ![Entry(h)] = handler[h].invocation]
  BY StoreEffect
<1>2. /\ Busy(h) /\ Holds(h) /\ Entry(h) \in Keys /\ Len(heap) \in Nat /\ DOMAIN heap = 1..Len(heap)
      /\ handler[h].invocation \in DOMAIN heap /\ handler[h].invocation \in Refs(h)
  BY <1>1, Places DEF Frame, OwnInv, Holds, Refs
<1>3. /\ \A k \in Keys : invocations[k] # handler[h].invocation
      /\ \A j \in Handlers : Busy(j) /\ j # h => handler[h].invocation \notin Refs(j)
  BY <1>0, <1>1, <1>2 DEF Unshared
<1>4. \A k \in Keys : invocations'[k] = IF k = Entry(h) THEN handler[h].invocation ELSE invocations[k]
  BY <1>1 DEF Shape
<1>5. /\ Grows /\ Refs(h)' = Refs(h)
      /\ \A j \in Handlers : Busy(j)' => Busy(j) /\ Refs(j)' = Refs(j) /\ Name(Event(j))' = Name(Event(j))
  BY <1>1, SameGrows, OthersKept DEF Refs
<1>6. Holds(h)'
  <2>1. handler[h].seen \in 0..Len(history) /\ handler[h].invocation # 0
    BY <1>1, <1>2 DEF Holds
  <2> QED BY <1>1, <1>5, <2>1, HoldsMove
<1>7. \A k \in Keys : invocations'[k] \in 0..Len(heap')
  <2>1. handler[h].invocation \in 0..Len(heap)
    BY <1>2
  <2> QED BY <1>0, <1>1, <1>4, <2>1
<1>8. \A k, l \in Keys : invocations'[k] = invocations'[l] => k = l \/ invocations'[k] = 0
  BY <1>0, <1>3, <1>4
<1>9. \A j \in Handlers : Busy(j)' => Holds(j)' /\ Unshared(j)'
  <2>1. ASSUME NEW j \in Handlers, Busy(j)', j # h
        PROVE  Holds(j)' /\ Unshared(j)'
    <3>1. Holds(j)' /\ handler'[j] = handler[j] /\ Busy(j)
      BY <1>1, <1>5, <2>1, HoldsKept DEF Frame
    <3>2. ASSUME handler[j].pc = "store"
          PROVE  /\ \A k \in Keys : invocations'[k] # handler[j].invocation
                 /\ \A i \in Handlers : Busy(i)' /\ i # j => handler[j].invocation \notin Refs(i)'
      <4>1. /\ \A k \in Keys : invocations[k] # handler[j].invocation
            /\ \A i \in Handlers : Busy(i) /\ i # j => handler[j].invocation \notin Refs(i)
        BY <1>0, <3>1, <3>2 DEF Unshared
      <4>2. handler[j].invocation # handler[h].invocation
        BY <1>2, <2>1, <4>1
      <4> QED BY <1>4, <1>5, <4>1, <4>2
    <3> QED BY <3>1, <3>2 DEF Unshared
  <2>2. Unshared(h)'
    BY <1>1 DEF Unshared
  <2> QED BY <1>6, <2>1, <2>2
<1>10. \A j \in Handlers, k \in Keys : Busy(j)' /\ invocations'[k] \in Refs(j)' => NameOf(k) = Name(Event(j))'
  <2>1. ASSUME NEW j \in Handlers, NEW k \in Keys, Busy(j)', invocations'[k] \in Refs(j)'
        PROVE  NameOf(k) = Name(Event(j))
    <3>1. CASE k # Entry(h)
      BY <1>0, <1>4, <1>5, <2>1, <3>1
    <3>2. CASE k = Entry(h)
      <4>1. j = h
        BY <1>3, <1>4, <1>5, <2>1, <3>2
      <4> QED BY <1>2, <3>2, <4>1, KeyNames DEF Holds
    <3> QED BY <3>1, <3>2
  <2> QED BY <1>5, <2>1
<1>11. \A i, j \in Handlers : Busy(i)' /\ Busy(j)' /\ Refs(i)' \cap Refs(j)' # {} => Name(Event(i))' = Name(Event(j))'
  BY <1>0, <1>5
<1> QED BY <1>7, <1>8, <1>9, <1>10, <1>11 DEF OwnInv

LEMMA CheckOwn ==
  ASSUME Shape, OwnInv, NEW h \in Handlers, CheckCompletion(h), ~Gone(h)
  PROVE  OwnInv'
<1>1. /\ Frame(h) /\ UNCHANGED <<heap, invocations, panicked>> /\ Busy(h)' /\ handler[h].pc = "check"
      /\ handler'[h].workflow = handler[h].workflow /\ handler'[h].invocation = handler[h].invocation
      /\ handler'[h].target = handler[h].target /\ handler'[h].seen = handler[h].seen
      /\ \/ handler'[h].pc = "record"
         \/ handler'[h].pc = "complete" /\ handler'[h].idx \in DOMAIN heap[Current(h)].awaits
  BY CheckEffect
<1>2. Busy(h) /\ Holds(h)
  BY <1>1 DEF Frame, OwnInv
<1>3. handler'[h].pc = "complete" => handler'[h].idx # 0
  <2>1. Current(h) \in DOMAIN heap
    BY <1>2, Places DEF Gone, Current
  <2>2. 0 \notin DOMAIN heap[Current(h)].awaits
    BY <2>1, Objects
  <2> QED BY <1>1, <2>2
<1>4. handler'[h].seen \in 0..Len(history)
  BY <1>1, <1>2 DEF Holds
<1>5. handler'[h].pc \notin {"lookup", "register", "store", "remove", "duration", "status"}
  BY <1>1
<1> QED BY <1>1, <1>3, <1>4, <1>5, SameGrows, OwnSame

LEMMA CompleteOwn ==
  ASSUME Shape, OwnInv, NEW h \in Handlers, OnCompletionEvent(h), ~Gone(h),
         handler[h].idx <= Len(heap[Current(h)].awaits)
  PROVE  OwnInv'
<1>1. /\ Frame(h) /\ UNCHANGED <<heap, invocations, panicked>> /\ Busy(h)' /\ handler[h].pc = "complete"
      /\ handler'[h].pc = "remove" /\ handler'[h].target = Current(h)
      /\ handler'[h].workflow = handler[h].workflow /\ handler'[h].invocation = handler[h].invocation
      /\ handler'[h].seen = handler[h].seen
  BY CompleteEffect
<1>2. /\ Busy(h) /\ Holds(h) /\ Key(h) \in Keys /\ Current(h) \in DOMAIN heap /\ Current(h) # 0
      /\ DOMAIN heap = 1..Len(heap)
  BY <1>1, Places DEF Frame, OwnInv, Gone, Current
<1> DEFINE G == {Current(h)}
<1>3. Refs(h)' \subseteq Refs(h) \cup G
  BY <1>1 DEF Refs
<1>4. Grows
  BY <1>1, SameGrows
<1>5. Holds(h)'
  <2>1. handler[h].seen \in 0..Len(history) /\ handler[h].invocation # 0
    BY <1>1, <1>2 DEF Holds
  <2>2. Refs(h)' \subseteq Refs(h) \cup (1..Len(heap'))
    BY <1>1, <1>2, <1>3
  <2> QED BY <1>1, <1>2, <1>4, <2>1, <2>2, HoldsMove
<1>6. \A x \in G : x # 0 => \E k \in Keys : invocations[k] = x /\ NameOf(k) = Name(Event(h))
  BY <1>2, KeyNames DEF Current
<1>7. handler'[h].pc # "store"
  BY <1>1
<1> HIDE DEF G
<1> QED BY <1>1, <1>3, <1>4, <1>5, <1>6, <1>7, OwnKept

LEMMA RemoveOwn ==
  ASSUME Shape, OwnInv, TimeInv, NEW h \in Handlers, RemoveDescriptor(h)
  PROVE  OwnInv' /\ Grows
<1>1. /\ Frame(h) /\ UNCHANGED <<invocations, panicked>> /\ Busy(h)' /\ handler[h].pc = "remove"
      /\ handler'[h].pc = "duration" /\ handler'[h].seen = heap[handler[h].invocation].duration
      /\ handler'[h].workflow = handler[h].workflow /\ handler'[h].invocation = handler[h].invocation
      /\ handler'[h].target = handler[h].target /\ Changes(handler[h].target)
      /\ heap'[handler[h].target].duration = heap[handler[h].target].duration
  BY RemoveEffect
<1>2. Grows
  BY <1>1, ChangesGrows
<1>3. Busy(h) /\ Holds(h) /\ handler[h].invocation \in DOMAIN heap
  BY <1>1, Places DEF Frame, OwnInv, Holds
<1>4. handler'[h].seen \in 0..Len(history) /\ handler[h].target # 0
  BY <1>1, <1>3 DEF TimeInv, TimedObject, Holds
<1> QED BY <1>1, <1>2, <1>4, OwnSame

LEMMA LongerFacts ==
  ASSUME NEW seen \in Nat, NEW now \in Nat, now # 0
  PROVE  /\ Longer(seen, now) \in {seen, now} /\ Longer(seen, now) # 0
         /\ seen <= Longer(seen, now) /\ now <= Longer(seen, now)
BY DEF Longer

LEMMA DurationOwn ==
  ASSUME Shape, OwnInv, NEW h \in Handlers, UpdateDuration(h)
  PROVE  OwnInv' /\ Grows
<1>1. /\ Frame(h) /\ UNCHANGED <<invocations, panicked>> /\ Busy(h)' /\ handler[h].pc = "duration"
      /\ handler'[h].pc = "status" /\ handler'[h].seen = handler[h].seen
      /\ handler'[h].workflow = handler[h].workflow /\ handler'[h].invocation = handler[h].invocation
      /\ handler'[h].target = handler[h].target /\ Changes(handler[h].invocation)
      /\ heap'[handler[h].invocation].duration = Longer(handler[h].seen, handler[h].now)
  BY DurationEffect
<1>2. Holds(h)
  BY <1>1 DEF Frame, OwnInv
<1>3. handler[h].seen \in Nat /\ handler[h].now \in Nat /\ handler[h].now # 0 /\ handler[h].seen \in 0..Len(history)
  BY <1>2 DEF Holds
<1>4. heap'[handler[h].invocation].duration # 0
  BY <1>1, <1>3, LongerFacts
<1>5. Grows
  BY <1>1, <1>4, ChangesGrows
<1>6. handler[h].target # 0
  BY <1>1, <1>2 DEF Holds
<1> QED BY <1>1, <1>3, <1>4, <1>5, <1>6, OwnSame

LEMMA StatusOwn ==
  ASSUME Shape, OwnInv, NEW h \in Handlers, UpdateStatus(h)
  PROVE  OwnInv' /\ Grows
<1>1. /\ Frame(h) /\ UNCHANGED <<invocations, panicked>> /\ Busy(h)' /\ handler[h].pc = "status"
      /\ handler'[h].pc = "record" /\ handler'[h].seen = handler[h].seen
      /\ handler'[h].workflow = handler[h].workflow /\ handler'[h].invocation = handler[h].invocation
      /\ handler'[h].target = handler[h].target /\ Changes(handler[h].invocation)
      /\ heap'[handler[h].invocation].duration = heap[handler[h].invocation].duration
  BY StatusEffect
<1>2. Grows
  BY <1>1, ChangesGrows
<1>3. handler[h].seen \in 0..Len(history)
  BY <1>1 DEF Frame, OwnInv, Holds
<1> QED BY <1>1, <1>2, <1>3, OwnSame

LEMMA ReadOwn ==
  ASSUME Shape, OwnInv, NEW h \in Handlers, ReadRecords(h)
  PROVE  OwnInv'
<1>1. /\ Frame(h) /\ UNCHANGED <<heap, invocations, panicked>> /\ Busy(h)' /\ handler[h].pc = "record"
      /\ handler'[h].pc = "append" /\ handler'[h].seen = handler[h].seen
      /\ handler'[h].workflow = handler[h].workflow /\ handler'[h].invocation = handler[h].invocation
      /\ handler'[h].target = handler[h].target
  BY ReadEffect
<1>2. handler[h].seen \in 0..Len(history)
  BY <1>1 DEF Frame, OwnInv, Holds
<1> QED BY <1>1, <1>2, SameGrows, OwnSame

LEMMA AppendOwn ==
  ASSUME Shape, OwnInv, NEW h \in Handlers, AppendRecord(h)
  PROVE  OwnInv' /\ Grows
<1>1. /\ Frame(h) /\ UNCHANGED <<invocations, panicked>> /\ ~Busy(h)' /\ Changes(handler[h].invocation)
      /\ heap'[handler[h].invocation].duration = heap[handler[h].invocation].duration
  BY AppendEffect
<1>2. Grows
  BY <1>1, ChangesGrows
<1> QED BY <1>1, <1>2, OwnEnd

-----------------------------------------------------------------------------
(* Shapes and times. *)

LEMMA ShapeStep ==
  ASSUME Shape, InvokerInv, NEW h \in Handlers, Frame(h), heap' \in Seq(Invocation), invocations' \in [Keys -> Nat]
  PROVE  Shape' /\ InvokerInv'
<1>1. Shape'
  BY DEF Shape, Frame
<1>2. invoker' = invoker /\ gen' = gen /\ workflows' = workflows /\ \A j \in Handlers : Busy(j)' => Busy(j) /\ Event(j)' = Event(j)
  BY OthersKept DEF Frame
<1>3. InvokerInv'
  BY <1>2 DEF InvokerInv
<1> QED BY <1>1, <1>3

LEMMA TimedLess ==
  ASSUME NEW rs, NEW n \in Nat, NEW nows, Timed(rs, n, nows), NEW m \in Nat, n <= m,
         NEW later, \A x \in later : x \in nows \/ x > n
  PROVE  Timed(rs, m, later)
<1>1. TimesOf(rs) \subseteq 1..n /\ 1..n \subseteq 1..m
  BY DEF Timed
<1>2. TimesOf(rs) \cap later = {}
  BY <1>1 DEF Timed
<1> QED BY <1>1, <1>2 DEF Timed

\* The times of the handlers at work become fewer with a step of h.
LEMMA NowsKept ==
  ASSUME NEW h \in Handlers, Frame(h)
  PROVE  Nows(handler') \subseteq Nows(handler)
<1>1. \A j \in Handlers : handler'[j].pc # "idle" => handler[j].pc # "idle" /\ handler'[j].now = handler[j].now
  BY OthersKept DEF Busy
<1> QED BY <1>1 DEF Nows

LEMMA TimeKept ==
  ASSUME Shape, TimeInv, NEW h \in Handlers, Frame(h),
         \A o \in DOMAIN heap' : TimedObject(heap'[o], Len(history), Nows(handler')),
         Busy(h)' => Timed(handler'[h].records, Len(history), Nows(handler))
  PROVE  TimeInv'
<1>1. history' = history /\ \A j \in Handlers : Busy(j)' => Busy(j) /\ handler'[j].now = handler[j].now
  BY OthersKept
<1>2. ASSUME NEW j \in Handlers, Busy(j)' PROVE Timed(handler'[j].records, Len(history), Nows(handler'))
  <2>1. Timed(handler'[j].records, Len(history), Nows(handler))
    BY <1>1, <1>2 DEF Frame, TimeInv
  <2> QED BY <2>1, HeapShape, NowsKept, TimedLess
<1>3. \A i, j \in Handlers : Busy(i)' /\ Busy(j)' /\ i # j => handler'[i].now # handler'[j].now
  BY <1>1 DEF TimeInv
<1> QED BY <1>1, <1>2, <1>3 DEF TimeInv

LEMMA ObjectTimes ==
  ASSUME Shape, TimeInv, NEW h \in Handlers, Frame(h), NEW o \in DOMAIN heap
  PROVE  TimedObject(heap[o], Len(history), Nows(handler'))
<1>1. TimedObject(heap[o], Len(history), Nows(handler))
  BY DEF TimeInv
<1>2. Timed(heap[o].records, Len(history), Nows(handler'))
  BY <1>1, HeapShape, NowsKept, TimedLess DEF TimedObject
<1> QED BY <1>1, <1>2 DEF TimedObject

\* Steps that do not write records.
LEMMA TimeSame ==
  ASSUME Shape, TimeInv, NEW h \in Handlers, Frame(h), heap' = heap,
         Busy(h)' => handler'[h].records = handler[h].records
  PROVE  TimeInv'
<1>1. \A o \in DOMAIN heap' : TimedObject(heap'[o], Len(history), Nows(handler'))
  BY ObjectTimes
<1>2. Busy(h)' => Timed(handler'[h].records, Len(history), Nows(handler))
  BY OthersKept DEF TimeInv
<1> QED BY <1>1, <1>2, TimeKept

LEMMA TimeWrite ==
  ASSUME Shape, TimeInv, NEW h \in Handlers, Frame(h), NEW o, Changes(o),
         heap'[o].records = heap[o].records, heap'[o].duration \in 0..Len(history),
         heap'[o].status = "COMPLETED" => heap'[o].duration # 0,
         Busy(h)' => handler'[h].records = handler[h].records
  PROVE  TimeInv'
<1>1. ASSUME NEW p \in DOMAIN heap' PROVE TimedObject(heap'[p], Len(history), Nows(handler'))
  <2>1. p \in DOMAIN heap /\ TimedObject(heap[p], Len(history), Nows(handler'))
    BY ObjectTimes DEF Changes
  <2> QED BY <2>1 DEF Changes, TimedObject
<1>2. Busy(h)' => Timed(handler'[h].records, Len(history), Nows(handler))
  BY OthersKept DEF TimeInv
<1> QED BY <1>1, <1>2, TimeKept

LEMMA RegisterTime ==
  ASSUME Shape, OwnInv, TimeInv, NEW h \in Handlers, RegisterInvocation(h), ~WorkflowGone(h)
  PROVE  TimeInv'
<1>1. /\ Frame(h) /\ Busy(h)' /\ heap' = Append(heap, NewInvocation(h)) /\ handler'[h].records = handler[h].records
  BY RegisterEffect
<1>2. Len(heap) \in Nat /\ heap \in Seq(Invocation) /\ DOMAIN heap = 1..Len(heap) /\ Len(history) \in Nat
  BY HeapShape
<1>3. ASSUME NEW o \in DOMAIN heap' PROVE TimedObject(heap'[o], Len(history), Nows(handler'))
  <2>1. CASE o \in DOMAIN heap
    <3>1. heap'[o] = heap[o]
      BY <1>1, <1>2, <2>1
    <3> QED BY <1>1, <2>1, <3>1, ObjectTimes
  <2>2. CASE o \notin DOMAIN heap
    <3>1. heap'[o] = NewInvocation(h)
      BY <1>1, <1>2, <1>3, <2>2
    <3>2. TimesOf(<<>>) = {} /\ Cardinality({}) = 0
      BY FS_EmptySet DEF TimesOf
    <3>3. Timed(<<>>, Len(history), Nows(handler'))
      BY <3>2 DEF Timed
    <3> QED BY <1>2, <3>1, <3>3 DEF TimedObject, NewInvocation
  <2> QED BY <2>1, <2>2
<1>4. Busy(h)' => Timed(handler'[h].records, Len(history), Nows(handler))
  BY <1>1 DEF TimeInv, Frame
<1> QED BY <1>1, <1>3, <1>4, TimeKept

\* What an append adds.
LEMMA AppendTimes ==
  ASSUME NEW rs \in Seq(Record), NEW r \in Record
  PROVE  /\ TimesOf(Append(rs, r)) = TimesOf(rs) \cup {r.now}
         /\ DoneOf(Append(rs, r)) = DoneOf(rs) \cup (IF r.isCompletion THEN {r.now} ELSE {})
         /\ Len(Append(rs, r)) = Len(rs) + 1
<1> DEFINE q == Append(rs, r)
<1>1. /\ Len(q) = Len(rs) + 1 /\ Len(rs) \in Nat /\ DOMAIN rs = 1..Len(rs) /\ DOMAIN q = 1..(Len(rs) + 1)
      /\ q[Len(rs) + 1] = r /\ \A n \in 1..Len(rs) : q[n] = rs[n]
  OBVIOUS
<1> HIDE DEF q
<1>2. DOMAIN q = DOMAIN rs \cup {Len(rs) + 1} /\ Len(rs) + 1 \notin DOMAIN rs
  BY <1>1
<1>3. TimesOf(q) = TimesOf(rs) \cup {r.now}
  BY <1>1, <1>2 DEF TimesOf
<1>4. DoneOf(q) = DoneOf(rs) \cup (IF r.isCompletion THEN {r.now} ELSE {})
  <2>1. CASE r.isCompletion
    <3>1. {m \in DOMAIN q : q[m].isCompletion} = {m \in DOMAIN rs : rs[m].isCompletion} \cup {Len(rs) + 1}
      BY <1>1, <1>2, <2>1
    <3> QED BY <1>1, <2>1, <3>1 DEF DoneOf
  <2>2. CASE ~r.isCompletion
    <3>1. {m \in DOMAIN q : q[m].isCompletion} = {m \in DOMAIN rs : rs[m].isCompletion}
      BY <1>1, <1>2, <2>2
    <3> QED BY <1>1, <2>2, <3>1 DEF DoneOf
  <2> QED BY <2>1, <2>2
<1> QED BY <1>1, <1>3, <1>4 DEF q

LEMMA TimesFinite ==
  ASSUME NEW n \in Nat, NEW S, S \subseteq 1..n
  PROVE  IsFiniteSet(S) /\ Cardinality(S) \in Nat /\ Cardinality(S) <= n
<1>1. IsFiniteSet(1..n) /\ Cardinality(1..n) = n
  BY FS_Interval
<1> QED BY <1>1, FS_Subset, FS_CardinalityType

LEMMA AppendTime ==
  ASSUME Shape, OwnInv, TimeInv, NEW h \in Handlers, AppendRecord(h)
  PROVE  TimeInv'
<1> DEFINE o == handler[h].invocation
           rs == handler[h].records
           r == [now |-> handler[h].now, isCompletion |-> handler[h].isCompletion]
<1>1. /\ Frame(h) /\ ~Busy(h)' /\ Changes(o) /\ heap'[o].records = Append(rs, r)
      /\ heap'[o].duration = heap[o].duration /\ heap'[o].status = heap[o].status
  BY AppendEffect
<1>2. Busy(h) /\ Holds(h) /\ handler[h] \in BusyHandler /\ Len(history) \in Nat
  BY <1>1, HeapShape DEF Frame, OwnInv
<1>3. rs \in Seq(Record) /\ r \in Record /\ r.now = handler[h].now /\ handler[h].now \in 1..Len(history)
  BY <1>2 DEF BusyHandler, Record, Holds
<1>4. Timed(rs, Len(history), Nows(handler))
  BY <1>2 DEF TimeInv
<1>5. handler[h].now \in Nows(handler) /\ handler[h].now \notin Nows(handler')
  <2>1. handler[h].now \in Nows(handler)
    BY <1>2 DEF Nows, Busy
  <2>2. \A j \in Handlers : handler'[j].pc # "idle" => j # h /\ handler'[j] = handler[j] /\ handler[j].now # handler[h].now
    BY <1>1, <1>2 DEF Frame, Busy, TimeInv
  <2> QED BY <2>1, <2>2 DEF Nows
<1>6. Timed(Append(rs, r), Len(history), Nows(handler'))
  <2>1. TimesOf(Append(rs, r)) = TimesOf(rs) \cup {handler[h].now} /\ Len(Append(rs, r)) = Len(rs) + 1
    BY ONLY <1>3, AppendTimes
  <2>2. TimesOf(rs) \subseteq 1..Len(history) /\ Len(rs) = Cardinality(TimesOf(rs)) /\ TimesOf(rs) \cap Nows(handler) = {}
    BY <1>4 DEF Timed
  <2>3. handler[h].now \notin TimesOf(rs) /\ IsFiniteSet(TimesOf(rs))
    BY <1>2, <1>5, <2>2, TimesFinite
  <2>4. Cardinality(TimesOf(rs) \cup {handler[h].now}) = Cardinality(TimesOf(rs)) + 1
    BY <2>3, FS_AddElement
  <2>5. (TimesOf(rs) \cup {handler[h].now}) \cap Nows(handler') = {}
    BY <1>1, <1>5, <2>2, NowsKept
  <2> HIDE DEF rs, r
  <2> QED BY <1>3, <2>1, <2>2, <2>4, <2>5 DEF Timed
<1>7. ASSUME NEW p \in DOMAIN heap' PROVE TimedObject(heap'[p], Len(history), Nows(handler'))
  <2>1. p \in DOMAIN heap /\ TimedObject(heap[p], Len(history), Nows(handler'))
    BY <1>1, ObjectTimes DEF Changes
  <2> QED BY <1>1, <1>6, <2>1 DEF Changes, TimedObject
<1> QED BY <1>1, <1>7, TimeKept

-----------------------------------------------------------------------------
(* Accounts: what each step of an undisturbed handler does to them. *)

LEMMA WantedIs ==
  ASSUME NEW k \in Keys
  PROVE  /\ k[1] \in Gens /\ k[2] \in DOMAIN Definitions[k[1]] /\ k = <<k[1], k[2], k[3]>>
         /\ Definitions[k[1]][k[2]] \in Descriptors /\ Definitions[k[1]][k[2]] # <<>>
<1>1. k[1] \in Gens /\ k[2] \in DOMAIN Definitions[k[1]] /\ k = <<k[1], k[2], k[3]>>
  BY DEF Keys
<1> QED BY <1>1, TimeseriesDBAssumption DEF Descriptors

\* No descriptor has been met yet.
LEMMA MetAll ==
  ASSUME NEW hist, NEW wanted
  PROVE  Met(hist, wanted, wanted, {}, {})
<1> DEFINE at == [a \in DOMAIN wanted |-> a]
           by == [w \in DOMAIN wanted |-> 0]
<1>1. at \in [DOMAIN wanted -> DOMAIN wanted] /\ by \in [DOMAIN wanted -> Nat] /\ \A a \in DOMAIN wanted : at[a] = a
  OBVIOUS
<1> HIDE DEF at, by
<1>2. Matching(hist, wanted, wanted, {}, {}, at, by)
  BY <1>1 DEF Matching
<1> QED BY <1>1, <1>2 DEF Met

LEMMA DropDomain ==
  ASSUME NEW S, NEW s \in Seq(S), NEW i \in 1..Len(s)
  PROVE  /\ Len(s) \in Nat /\ DOMAIN s = 1..Len(s) /\ DOMAIN Drop(s, i) = 1..(Len(s) - 1)
         /\ \A j \in 1..(Len(s) - 1) : Drop(s, i)[j] = IF j < i THEN s[j] ELSE s[j + 1]
<1>1. /\ Drop(s, i) \in Seq(S) /\ Len(Drop(s, i)) = Len(s) - 1
      /\ \A j \in 1..(Len(s) - 1) : Drop(s, i)[j] = IF j < i THEN s[j] ELSE s[j + 1]
  BY DropFacts
<1> QED BY <1>1

\* The event of time n meets the descriptor at idx.
LEMMA MetDrop ==
  ASSUME NEW hist, NEW S, NEW awaits \in Seq(S), NEW wanted, NEW done, NEW missed, NEW n \in Nat, n \notin done,
         NEW idx \in 1..Len(awaits), awaits[idx] \subseteq hist[n].attrs, Met(hist, awaits, wanted, done, missed)
  PROVE  Met(hist, Drop(awaits, idx), wanted, done \cup {n}, missed)
<1>1. PICK at \in [DOMAIN awaits -> DOMAIN wanted], by \in [DOMAIN wanted -> Nat] :
             Matching(hist, awaits, wanted, done, missed, at, by)
  BY DEF Met
<1>2. /\ \A a, b \in DOMAIN awaits : at[a] = at[b] => a = b
      /\ \A a \in DOMAIN awaits : awaits[a] = wanted[at[a]]
      /\ \A w \in DOMAIN wanted : \/ \E a \in DOMAIN awaits : at[a] = w
                                  \/ by[w] \in done /\ wanted[w] \subseteq hist[by[w]].attrs
      /\ \A v, w \in DOMAIN wanted : by[v] = by[w] => v = w \/ \E a \in DOMAIN awaits : at[a] \in {v, w}
      /\ \A x \in done : \E w \in DOMAIN wanted : by[w] = x /\ \A a \in DOMAIN awaits : at[a] # w
      /\ \A x \in missed, w \in DOMAIN wanted :
           wanted[w] \subseteq hist[x].attrs => by[w] < x /\ \A a \in DOMAIN awaits : at[a] # w
  BY <1>1 DEF Matching
<1> DEFINE rest == Drop(awaits, idx)
           m == at[idx]
           at2 == [a \in 1..(Len(awaits) - 1) |-> IF a < idx THEN at[a] ELSE at[a + 1]]
           by2 == [w \in DOMAIN wanted |-> IF w = m THEN n ELSE by[w]]
<1>3. /\ Len(awaits) \in Nat /\ DOMAIN awaits = 1..Len(awaits) /\ DOMAIN rest = 1..(Len(awaits) - 1)
      /\ \A j \in 1..(Len(awaits) - 1) : rest[j] = IF j < idx THEN awaits[j] ELSE awaits[j + 1]
  BY DropDomain
<1>4. m \in DOMAIN wanted /\ idx \in DOMAIN awaits
  BY <1>3
<1>5. \A a \in DOMAIN rest : a \in DOMAIN awaits /\ a + 1 \in DOMAIN awaits
  BY <1>3
<1>6. at2 \in [DOMAIN rest -> DOMAIN wanted] /\ by2 \in [DOMAIN wanted -> Nat]
  BY <1>3, <1>5
<1>7. \A a \in DOMAIN rest : at2[a] = IF a < idx THEN at[a] ELSE at[a + 1]
  BY <1>3
<1>8. \A w \in DOMAIN wanted : by2[w] = IF w = m THEN n ELSE by[w]
  OBVIOUS
<1> HIDE DEF at2, by2, rest, m
<1>9. \A a, b \in DOMAIN rest : at2[a] = at2[b] => a = b
  <2>1. ASSUME NEW a \in DOMAIN rest, NEW b \in DOMAIN rest, at2[a] = at2[b] PROVE a = b
    <3>1. a \in Int /\ b \in Int /\ idx \in Int
      BY <1>3
    <3>2. (IF a < idx THEN a ELSE a + 1) = (IF b < idx THEN b ELSE b + 1)
      BY <1>2, <1>5, <1>7, <2>1
    <3> QED BY <3>1, <3>2
  <2> QED BY <2>1
<1>10. \A w \in DOMAIN wanted : (\E a \in DOMAIN awaits : at[a] = w) => w = m \/ \E a \in DOMAIN rest : at2[a] = w
  <2>1. ASSUME NEW w \in DOMAIN wanted, NEW a \in DOMAIN awaits, at[a] = w, w # m
        PROVE  \E b \in DOMAIN rest : at2[b] = w
    <3>1. a # idx /\ a \in Int /\ idx \in Int
      BY <1>3, <2>1 DEF m
    <3>2. CASE a < idx
      <4>1. a \in DOMAIN rest
        BY <1>3, <2>1, <3>1, <3>2
      <4> QED BY <1>7, <2>1, <3>2, <4>1
    <3>3. CASE a > idx
      <4>1. a - 1 \in DOMAIN rest /\ ~(a - 1 < idx) /\ (a - 1) + 1 = a
        BY <1>3, <2>1, <3>1, <3>3
      <4>2. at2[a - 1] = at[a]
        BY <1>7, <4>1
      <4> QED BY <2>1, <4>1, <4>2
    <3> QED BY <3>1, <3>2, <3>3
  <2> QED BY <2>1
<1>11. \A a \in DOMAIN rest : rest[a] = wanted[at2[a]]
  BY <1>2, <1>3, <1>5, <1>7
<1>12. ASSUME NEW w \in DOMAIN wanted
       PROVE  \/ \E a \in DOMAIN rest : at2[a] = w
              \/ by2[w] \in done \cup {n} /\ wanted[w] \subseteq hist[by2[w]].attrs
  <2>1. CASE w = m
    BY <1>2, <1>4, <1>8, <2>1 DEF m
  <2>2. CASE w # m
    BY <1>2, <1>8, <1>10, <2>2
  <2> QED BY <2>1, <2>2
<1>13. ASSUME NEW v \in DOMAIN wanted, NEW w \in DOMAIN wanted, by2[v] = by2[w], v # w,
              ~(\E a \in DOMAIN rest : at2[a] \in {v, w})
       PROVE  FALSE
  <2>1. CASE v = m
    <3>1. w # m /\ by[w] \in done /\ by2[w] = by[w] /\ by2[v] = n
      BY <1>2, <1>8, <1>10, <1>13, <2>1
    <3> QED BY <1>13, <3>1
  <2>2. CASE w = m
    <3>1. v # m /\ by[v] \in done /\ by2[v] = by[v] /\ by2[w] = n
      BY <1>2, <1>8, <1>10, <1>13, <2>2
    <3> QED BY <1>13, <3>1
  <2>3. CASE v # m /\ w # m
    BY <1>2, <1>8, <1>10, <1>13, <2>3
  <2> QED BY <2>1, <2>2, <2>3
<1>14. \A w \in DOMAIN wanted : (\A a \in DOMAIN awaits : at[a] # w) => w # m /\ by2[w] = by[w] /\ \A a \in DOMAIN rest : at2[a] # w
  <2>1. \A a \in DOMAIN rest : \E b \in DOMAIN awaits : at2[a] = at[b]
    BY <1>5, <1>7
  <2> QED BY <1>4, <1>8, <2>1 DEF m
<1>15. \A a \in DOMAIN rest : at2[a] # m
  <2>1. ASSUME NEW a \in DOMAIN rest, at2[a] = m PROVE FALSE
    <3>1. (IF a < idx THEN a ELSE a + 1) = idx
      BY <1>2, <1>4, <1>5, <1>7, <2>1 DEF m
    <3>2. a \in Int /\ idx \in Int
      BY <1>3
    <3> QED BY <3>1, <3>2
  <2> QED BY <2>1
<1>16. \A x \in done \cup {n} : \E w \in DOMAIN wanted : by2[w] = x /\ \A a \in DOMAIN rest : at2[a] # w
  <2>1. ASSUME NEW x \in done
        PROVE  \E w \in DOMAIN wanted : by2[w] = x /\ \A a \in DOMAIN rest : at2[a] # w
    <3>1. PICK w \in DOMAIN wanted : by[w] = x /\ \A a \in DOMAIN awaits : at[a] # w
      BY <1>2
    <3> QED BY <1>14, <3>1
  <2>2. by2[m] = n
    BY <1>4, <1>8
  <2> QED BY <1>4, <1>15, <2>1, <2>2
<1>17. \A x \in missed, w \in DOMAIN wanted :
         wanted[w] \subseteq hist[x].attrs => by2[w] < x /\ \A a \in DOMAIN rest : at2[a] # w
  BY <1>2, <1>14
<1>18. Matching(hist, rest, wanted, done \cup {n}, missed, at2, by2)
  BY <1>9, <1>11, <1>12, <1>13, <1>16, <1>17 DEF Matching
<1> QED BY <1>6, <1>18 DEF Met, rest

\* The event of time n, the latest, matches no descriptor that is still awaited.
LEMMA MetMiss ==
  ASSUME NEW hist, NEW awaits, NEW wanted, NEW done, NEW missed, NEW n \in Nat, n \notin done,
         Met(hist, awaits, wanted, done, missed), \A x \in done : x \in Nat /\ x <= n,
         \A a \in DOMAIN awaits : ~(awaits[a] \subseteq hist[n].attrs)
  PROVE  Met(hist, awaits, wanted, done, missed \cup {n})
<1>1. PICK at \in [DOMAIN awaits -> DOMAIN wanted], by \in [DOMAIN wanted -> Nat] :
             Matching(hist, awaits, wanted, done, missed, at, by)
  BY DEF Met
<1>2. ASSUME NEW w \in DOMAIN wanted, wanted[w] \subseteq hist[n].attrs
      PROVE  by[w] < n /\ \A a \in DOMAIN awaits : at[a] # w
  <2>1. \A a \in DOMAIN awaits : at[a] # w
    BY <1>1, <1>2 DEF Matching
  <2>2. by[w] \in done
    BY <1>1, <2>1 DEF Matching
  <2> QED BY <2>1, <2>2
<1>3. Matching(hist, awaits, wanted, done, missed \cup {n}, at, by)
  BY <1>1, <1>2 DEF Matching
<1> QED BY <1>3 DEF Met

\* A longer history says the same of the times it had.
LEMMA MetLonger ==
  ASSUME NEW hist, NEW later, NEW awaits, NEW wanted, NEW done, NEW missed, Met(hist, awaits, wanted, done, missed),
         \A n \in done \cup missed : later[n] = hist[n]
  PROVE  Met(later, awaits, wanted, done, missed)
<1>1. PICK at \in [DOMAIN awaits -> DOMAIN wanted], by \in [DOMAIN wanted -> Nat] :
             Matching(hist, awaits, wanted, done, missed, at, by)
  BY DEF Met
<1>2. Matching(later, awaits, wanted, done, missed, at, by)
  BY <1>1 DEF Matching
<1> QED BY <1>2 DEF Met

LEMMA DoneIsTimes ==
  ASSUME NEW rs
  PROVE  DoneOf(rs) \subseteq TimesOf(rs)
BY DEF DoneOf, TimesOf

LEMMA AccountsNew ==
  ASSUME NEW hist, NEW k \in Keys, NEW i, NEW n, DeliveredTo(hist, k) = {n},
         i.awaits = Definitions[k[1]][k[2]], i.records = <<>>, i.duration = 0, i.status = "CANCELLED"
  PROVE  Accounts(hist, k, i, {n}, {}, {}, FALSE)
<1>1. TimesOf(<<>>) = {} /\ DoneOf(<<>>) = {}
  BY DEF TimesOf, DoneOf
<1>2. Definitions[k[1]][k[2]] # <<>> /\ Len(Definitions[k[1]][k[2]]) \in Nat
  BY WantedIs DEF Descriptors
<1>3. Met(hist, i.awaits, Definitions[k[1]][k[2]], {}, {})
  BY MetAll
<1>4. /\ DoneOf(i.records) \cup {} = {} /\ TimesOf(i.records) = DeliveredTo(hist, k) \ {n}
      /\ TimesOf(i.records) \ DoneOf(i.records) = {}
  BY <1>1
<1>6. i.status = "COMPLETED" <=> i.awaits = <<>>
  BY <1>2
<1>7. i.duration \in DoneOf(i.records) \cup {} \cup {0} /\ \A x \in DoneOf(i.records) \cup {} : x <= i.duration
  BY <1>4
<1> QED BY <1>3, <1>4, <1>6, <1>7 DEF Accounts

\* RemoveDescriptor.
LEMMA AccountsRemove ==
  ASSUME NEW hist, NEW k \in Keys, NEW i \in Invocation, NEW j \in Invocation, NEW n \in Nat,
         Accounts(hist, k, i, {n}, {}, {}, FALSE), n \notin TimesOf(i.records),
         NEW idx \in DOMAIN i.awaits, i.awaits[idx] \subseteq hist[n].attrs,
         j.awaits = Drop(i.awaits, idx), j.duration = i.duration, j.status = i.status, j.records = i.records
  PROVE  Accounts(hist, k, j, {n}, {n}, {}, TRUE)
<1> DEFINE done == DoneOf(i.records)
           missed == TimesOf(i.records) \ DoneOf(i.records)
<1>1. /\ i.awaits \in Seq(SUBSET Attributes) /\ idx \in 1..Len(i.awaits)
      /\ i.awaits # <<>> /\ i.status \in {"CANCELLED", "COMPLETED"}
  BY DEF Invocation, Descriptors
<1>2. n \notin done
  BY DoneIsTimes
<1>3. Met(hist, j.awaits, Definitions[k[1]][k[2]], done \cup {n}, missed)
  <2>1. done \cup {} = done
    OBVIOUS
  <2>2. Met(hist, i.awaits, Definitions[k[1]][k[2]], done, missed)
    BY <2>1 DEF Accounts
  <2>3. PICK a : a = i.awaits
    OBVIOUS
  <2>4. PICK w : w = Definitions[k[1]][k[2]]
    OBVIOUS
  <2>5. a \in Seq(SUBSET Attributes) /\ idx \in 1..Len(a) /\ a[idx] \subseteq hist[n].attrs /\ Met(hist, a, w, done, missed)
    BY <1>1, <2>2, <2>3, <2>4
  <2> HIDE DEF done, missed
  <2>6. Met(hist, Drop(a, idx), w, done \cup {n}, missed)
    BY ONLY n \in Nat, <1>2, <2>5, MetDrop
  <2> QED BY <2>3, <2>4, <2>6
<1>4. j.status = "CANCELLED"
  BY <1>1 DEF Accounts
<1> QED BY <1>3, <1>4 DEF Accounts

\* UpdateDuration.
LEMMA AccountsDuration ==
  ASSUME NEW hist, NEW k \in Keys, NEW i \in Invocation, NEW j \in Invocation, NEW n \in Nat, n # 0,
         Accounts(hist, k, i, {n}, {n}, {}, TRUE), j.duration = Longer(i.duration, n),
         TimesOf(i.records) \subseteq Nat,
         j.awaits = i.awaits, j.status = i.status, j.records = i.records
  PROVE  Accounts(hist, k, j, {n}, {n}, {n}, TRUE)
<1> DEFINE done == DoneOf(i.records)
<1>1. i.duration \in Nat
  BY DEF Invocation
<1>2. /\ j.duration \in {i.duration, n} /\ j.duration # 0 /\ i.duration <= j.duration /\ n <= j.duration
      /\ j.duration \in Nat
  BY <1>1, LongerFacts
<1>3. i.duration \in done \cup {} \cup {0} /\ \A x \in done \cup {} : x <= i.duration
  BY DEF Accounts
<1>4. j.duration \in done \cup {n} \cup {0}
  BY <1>2, <1>3
<1>5. ASSUME NEW x \in done \cup {n} PROVE x <= j.duration
  <2>1. CASE x = n
    BY <1>2, <2>1
  <2>2. CASE x \in done
    <3>1. x \in Nat /\ x <= i.duration
      BY <1>3, <2>2, DoneIsTimes
    <3> QED BY <1>1, <1>2, <3>1
  <2> QED BY <2>1, <2>2
<1> QED BY <1>4, <1>5 DEF Accounts

\* UpdateStatus.
LEMMA AccountsStatus ==
  ASSUME NEW hist, NEW k, NEW i, NEW j, NEW n,
         Accounts(hist, k, i, {n}, {n}, {n}, TRUE),
         j.status = (IF i.awaits = <<>> THEN "COMPLETED" ELSE i.status),
         j.awaits = i.awaits, j.duration = i.duration, j.records = i.records
  PROVE  Accounts(hist, k, j, {n}, {n}, {n}, FALSE)
<1>1. i.status = "CANCELLED"
  BY DEF Accounts
<1>2. j.status = "COMPLETED" <=> j.awaits = <<>>
  BY <1>1
<1> QED BY <1>2 DEF Accounts

\* AppendRecord.
LEMMA AccountsAppend ==
  ASSUME NEW hist, NEW k, NEW i \in Invocation, NEW j, NEW n \in Nat, NEW c \in BOOLEAN,
         Accounts(hist, k, i, {n}, IF c THEN {n} ELSE {}, IF c THEN {n} ELSE {}, FALSE),
         n \in DeliveredTo(hist, k), n \notin TimesOf(i.records), \A x \in DeliveredTo(hist, k) : x \in Nat /\ x <= n,
         c \/ \A a \in DOMAIN i.awaits : ~(i.awaits[a] \subseteq hist[n].attrs),
         j.records = Append(i.records, [now |-> n, isCompletion |-> c]),
         j.awaits = i.awaits, j.duration = i.duration, j.status = i.status
  PROVE  Accounts(hist, k, j, {}, {}, {}, FALSE)
<1> DEFINE more == IF c THEN {n} ELSE {}
           done == DoneOf(i.records)
           missed == TimesOf(i.records) \ DoneOf(i.records)
           less == TimesOf(j.records) \ DoneOf(j.records)
           wanted == Definitions[k[1]][k[2]]
<1>1. i.records \in Seq(Record) /\ [now |-> n, isCompletion |-> c] \in Record
  BY DEF Invocation, Record
<1>2. TimesOf(j.records) = TimesOf(i.records) \cup {n} /\ DoneOf(j.records) = done \cup more
  BY <1>1, AppendTimes
<1>3. TimesOf(j.records) = DeliveredTo(hist, k) \ {}
  BY <1>2 DEF Accounts
<1>4. DoneOf(j.records) \cup {} = done \cup more
  BY <1>2
<1>5. /\ Met(hist, i.awaits, wanted, done \cup more, missed)
      /\ i.status = "COMPLETED" <=> i.awaits = <<>>
      /\ i.duration \in done \cup more \cup {0}
      /\ \A x \in done \cup more : x <= i.duration
  BY DEF Accounts
<1>6. done \subseteq TimesOf(i.records) /\ TimesOf(i.records) = DeliveredTo(hist, k) \ {n}
  BY DoneIsTimes DEF Accounts
<1>7. Met(hist, i.awaits, wanted, done \cup more, less)
  <2>1. CASE c
    <3>1. less = missed
      BY <1>2, <1>6, <2>1
    <3> QED BY <1>5, <3>1
  <2>2. CASE ~c
    <3>1. less = missed \cup {n} /\ n \notin done \cup more /\ \A x \in done \cup more : x \in Nat /\ x <= n
      BY <1>2, <1>6, <2>2
    <3>2. \A a \in DOMAIN i.awaits : ~(i.awaits[a] \subseteq hist[n].attrs)
      BY <2>2
    <3>3. PICK a : a = i.awaits
      OBVIOUS
    <3>4. PICK d : d = done \cup more
      OBVIOUS
    <3> HIDE DEF more, done, missed, less, wanted
    <3>5. /\ n \notin d /\ Met(hist, a, wanted, d, missed) /\ \A x \in d : x \in Nat /\ x <= n
          /\ \A b \in DOMAIN a : ~(a[b] \subseteq hist[n].attrs)
      BY <1>5, <3>1, <3>2, <3>3, <3>4
    <3>6. Met(hist, a, wanted, d, missed \cup {n})
      BY ONLY n \in Nat, <3>5, MetMiss
    <3> QED BY <3>1, <3>3, <3>4, <3>6
  <2> QED BY <2>1, <2>2
<1> HIDE DEF more, done, missed
<1> QED BY <1>3, <1>4, <1>5, <1>7 DEF Accounts

\* RegisterEvent: a delivery at the end of the history.
LEMMA AccountsArrive ==
  ASSUME NEW hist \in Seq(Delivery), NEW d \in Delivery, NEW k, NEW i,
         Accounts(hist, k, i, {}, {}, {}, FALSE), d.key = k, TimesOf(i.records) \subseteq 1..Len(hist)
  PROVE  Accounts(Append(hist, d), k, i, {Len(hist) + 1}, {}, {}, FALSE)
<1> DEFINE later == Append(hist, d)
           n == Len(hist) + 1
<1>1. /\ Len(hist) \in Nat /\ DOMAIN hist = 1..Len(hist) /\ DOMAIN later = 1..n /\ later[n] = d
      /\ \A x \in 1..Len(hist) : later[x] = hist[x]
  OBVIOUS
<1> HIDE DEF later
<1>2. DeliveredTo(later, k) = DeliveredTo(hist, k) \cup {n} /\ n \notin DeliveredTo(hist, k)
  BY <1>1 DEF DeliveredTo
<1>3. TimesOf(i.records) = DeliveredTo(later, k) \ {n}
  BY <1>2 DEF Accounts
<1>4. Met(later, i.awaits, Definitions[k[1]][k[2]], DoneOf(i.records) \cup {}, TimesOf(i.records) \ DoneOf(i.records))
  <2>1. \A x \in (DoneOf(i.records) \cup {}) \cup (TimesOf(i.records) \ DoneOf(i.records)) : later[x] = hist[x]
    BY <1>1, DoneIsTimes
  <2>2. Met(hist, i.awaits, Definitions[k[1]][k[2]], DoneOf(i.records) \cup {}, TimesOf(i.records) \ DoneOf(i.records))
    BY DEF Accounts
  <2> QED BY <2>1, <2>2, MetLonger
<1> QED BY <1>3, <1>4 DEF Accounts, later

\* ... to another entry.
LEMMA AccountsElsewhere ==
  ASSUME NEW hist \in Seq(Delivery), NEW d \in Delivery, NEW k, NEW i, NEW nows, NEW removed, NEW measured, NEW pending,
         Accounts(hist, k, i, nows, removed, measured, pending), d.key # k,
         TimesOf(i.records) \subseteq 1..Len(hist), removed \subseteq 1..Len(hist)
  PROVE  Accounts(Append(hist, d), k, i, nows, removed, measured, pending)
<1> DEFINE later == Append(hist, d)
<1>1. /\ Len(hist) \in Nat /\ DOMAIN hist = 1..Len(hist) /\ DOMAIN later = 1..(Len(hist) + 1)
      /\ later[Len(hist) + 1] = d /\ \A x \in 1..Len(hist) : later[x] = hist[x]
  OBVIOUS
<1> HIDE DEF later
<1>2. DeliveredTo(later, k) = DeliveredTo(hist, k)
  BY <1>1 DEF DeliveredTo
<1>3. Met(later, i.awaits, Definitions[k[1]][k[2]], DoneOf(i.records) \cup removed, TimesOf(i.records) \ DoneOf(i.records))
  <2>1. \A x \in (DoneOf(i.records) \cup removed) \cup (TimesOf(i.records) \ DoneOf(i.records)) : later[x] = hist[x]
    BY <1>1, DoneIsTimes
  <2>2. Met(hist, i.awaits, Definitions[k[1]][k[2]], DoneOf(i.records) \cup removed, TimesOf(i.records) \ DoneOf(i.records))
    BY DEF Accounts
  <2> QED BY <2>1, <2>2, MetLonger
<1> QED BY <1>2, <1>3 DEF Accounts, later

-----------------------------------------------------------------------------
(* Invocations that no two parties handled at once. *)

\* A step of h writes only objects that h holds, and only the map entries of its name.
Local(h) ==
  /\ \A o \in DOMAIN heap : o \notin Refs(h) => heap'[o] = heap[o]
  /\ \A k \in Keys : NameOf(k) # Name(Event(h)) => invocations'[k] = invocations[k]

\* ... and of those with its name only the entry in the experiment under way.
Elsewhere(h) ==
  \A k \in Keys : k # Key(h) => /\ invocations'[k] = invocations[k]
                                /\ invocations[k] # 0 => heap'[invocations[k]] = heap[invocations[k]]

\* The entry k as its only worker, with the state m, left it; and as the last one left it.
Solo(hist, m, k, o, i) ==
  IF o = 0 THEN DeliveredTo(hist, k) = {m.now}
  ELSE Accounts(hist, k, i, {m.now}, IF Removed(m) THEN {m.now} ELSE {}, IF Measured(m) THEN {m.now} ELSE {}, Pending(m))

Rested(hist, k, o, i) ==
  IF o = 0 THEN DeliveredTo(hist, k) = {} ELSE Accounts(hist, k, i, {}, {}, {}, FALSE)

LEMMA EnteredSolo ==
  ASSUME NEW hist, NEW hd, NEW h, NEW k, NEW o, NEW i
  PROVE  Entered(hist, hd, {h}, k, o, i) <=> Solo(hist, hd[h], k, o, i)
<1>1. NowOf(hd, {h}) = {hd[h].now}
  BY DEF NowOf
<1>2. NowOf(hd, {j \in {h} : Removed(hd[j])}) = IF Removed(hd[h]) THEN {hd[h].now} ELSE {}
  BY DEF NowOf
<1>3. NowOf(hd, {j \in {h} : Measured(hd[j])}) = IF Measured(hd[h]) THEN {hd[h].now} ELSE {}
  BY DEF NowOf
<1>4. (\E j \in {h} : Pending(hd[j])) <=> Pending(hd[h])
  OBVIOUS
<1> QED BY <1>1, <1>2, <1>3, <1>4 DEF Entered, Solo, Accounts

LEMMA EnteredRested ==
  ASSUME NEW hist, NEW hd, NEW k, NEW o, NEW i
  PROVE  Entered(hist, hd, {}, k, o, i) <=> Rested(hist, k, o, i)
<1>1. NowOf(hd, {}) = {} /\ NowOf(hd, {j \in {} : Removed(hd[j])}) = {} /\ NowOf(hd, {j \in {} : Measured(hd[j])}) = {}
  BY DEF NowOf
<1>2. (\E j \in {} : Pending(hd[j])) = FALSE
  OBVIOUS
<1> QED BY <1>1, <1>2 DEF Entered, Rested

LEMMA SoloWorkers ==
  ASSUME NEW h \in Handlers, Busy(h), Alone(h), Frame(h)
  PROVE  /\ Workers(handler, gen, Key(h)) = {h}
         /\ Workers(handler', gen', Key(h)) = IF Busy(h)' THEN {h} ELSE {}
<1>1. ASSUME NEW j \in Handlers, Busy(j), <<gen, Event(j).wf, Event(j).inv>> = Key(h)
      PROVE  j = h
  <2>1. Name(Event(j)) = Name(Event(h))
    BY <1>1 DEF Key, Name
  <2> QED BY <1>1, <2>1 DEF Alone
<1>2. Workers(handler, gen, Key(h)) = {h}
  BY <1>1 DEF Workers, Busy, Event, Key
<1>3. \A j \in Handlers : Busy(j)' => Busy(j) /\ Event(j)' = Event(j)
  BY OthersKept
<1>4. gen' = gen
  BY OthersKept
<1>5. Workers(handler', gen', Key(h)) = IF Busy(h)' THEN {h} ELSE {}
  BY <1>1, <1>3, <1>4 DEF Workers, Busy, Event, Key
<1> QED BY <1>2, <1>5

\* Steps elsewhere.
LEMMA KeyKept ==
  ASSUME NEW h \in Handlers, Frame(h), NEW k \in Keys, KeyInv(k), k # Key(h),
         Quiet(NameOf(k)) => /\ invocations'[k] = invocations[k]
                             /\ invocations[k] # 0 => heap'[invocations[k]] = heap[invocations[k]]
  PROVE  KeyInv(k)'
<1> SUFFICES ASSUME Quiet(NameOf(k))
             PROVE  Entered(history', handler', Workers(handler', gen', k), k, invocations'[k], heap'[invocations'[k]])
  BY OthersKept DEF KeyInv, Quiet
<1>1. /\ history' = history /\ gen' = gen
      /\ \A j \in Handlers : j # h => handler'[j] = handler[j]
      /\ Busy(h)' => Event(h)' = Event(h)
  BY DEF Frame
<1> DEFINE hs == Workers(handler, gen, k)
<1>2. h \notin hs /\ hs \subseteq Handlers
  BY DEF Workers, Key, Event
<1>3. Workers(handler', gen', k) = hs
  BY <1>1 DEF Workers, Key, Event, Busy
<1>4. \A j \in hs : handler'[j] = handler[j]
  BY <1>1, <1>2
<1> HIDE DEF hs
<1>5. /\ NowOf(handler', hs) = NowOf(handler, hs)
      /\ NowOf(handler', {j \in hs : Removed(handler'[j])}) = NowOf(handler, {j \in hs : Removed(handler[j])})
      /\ NowOf(handler', {j \in hs : Measured(handler'[j])}) = NowOf(handler, {j \in hs : Measured(handler[j])})
  BY <1>4 DEF NowOf
<1>6. (\E j \in hs : Pending(handler'[j])) = (\E j \in hs : Pending(handler[j]))
  BY <1>4
<1>7. Entered(history, handler, hs, k, invocations[k], heap[invocations[k]])
  BY DEF KeyInv, hs
<1> QED BY <1>1, <1>3, <1>5, <1>6, <1>7 DEF Entered

LEMMA AloneKept ==
  ASSUME Shape, OwnInv, QuietInv, NEW h \in Handlers, Frame(h), Local(h),
         NEW j \in Handlers, j # h, Busy(j), Quiet(Name(Event(j)))
  PROVE  Alone(j)'
<1>1. Alone(j) /\ Busy(h) /\ Name(Event(h)) # Name(Event(j)) /\ Holds(j)
  BY DEF QuietInv, Frame, Alone, OwnInv
<1>2. /\ handler'[j] = handler[j] /\ gen' = gen /\ history' = history /\ workflows' = workflows
      /\ Running /\ Running'
      /\ \A i \in Handlers : Busy(i)' => Busy(i) /\ Name(Event(i))' = Name(Event(i))
  BY OthersKept DEF Frame
<1>3. Event(j)' = Event(j) /\ Key(j)' = Key(j) /\ NewInvocation(j)' = NewInvocation(j) /\ Name(Event(j))' = Name(Event(j))
  BY <1>2 DEF Event, Key, NewInvocation, Name
<1>4. invocations'[Key(j)] = invocations[Key(j)]
  <2>1. Key(j) \in Keys
    BY <1>1, <1>2, Places DEF Alone
  <2> QED BY <1>1, <2>1, KeyNames DEF Local
<1>5. ASSUME handler[j].pc \notin {"lookup", "register"}
      PROVE  heap'[handler[j].invocation] = heap[handler[j].invocation]
  <2>1. handler[j].invocation \in Refs(j) /\ handler[j].invocation \in DOMAIN heap
    BY <1>1, <1>5, Places DEF Holds, Refs
  <2>2. handler[j].invocation \notin Refs(h)
    BY <1>1, <2>1 DEF OwnInv
  <2> QED BY <2>1, <2>2 DEF Local
<1>6. \A i \in Handlers : Busy(i)' /\ Name(Event(i))' = Name(Event(j))' => i = j
  BY <1>1, <1>2, <1>3 DEF Alone
<1>7. Calm(handler[j], heap[handler[j].invocation], Key(j), invocations[Key(j)], NewInvocation(j))
  BY <1>1 DEF Alone
<1>8. Calm(handler[j], heap'[handler[j].invocation], Key(j), invocations'[Key(j)], NewInvocation(j))
  <2>1. CASE handler[j].pc \in {"lookup", "register"}
    BY <1>4, <1>7, <2>1 DEF Calm
  <2>2. CASE handler[j].pc \notin {"lookup", "register"}
    BY <1>4, <1>5, <1>7, <2>2
  <2> QED BY <2>1, <2>2
<1>9. /\ (Running => ~WorkflowGone(j))' /\ history'[handler'[j].now].key = Key(j)'
      /\ \A n \in DeliveredTo(history', Key(j)') : n <= handler'[j].now
  BY <1>1, <1>2, <1>3 DEF Alone, WorkflowGone
<1> QED BY <1>2, <1>3, <1>6, <1>8, <1>9 DEF Alone

\* The invariants of the quiet invocations after a step of h, from what it does to its own.
LEMMA QuietStep ==
  ASSUME Shape, OwnInv, QuietInv, \A k \in Keys : KeyInv(k), NEW h \in Handlers, Frame(h), Local(h),
         Quiet(Name(Event(h))) => /\ Elsewhere(h)
                                  /\ Busy(h)' => /\ Alone(h)'
                                                 /\ Solo(history, handler'[h], Key(h), invocations'[Key(h)],
                                                         heap'[invocations'[Key(h)]])
                                  /\ ~Busy(h)' => Rested(history, Key(h), invocations'[Key(h)], heap'[invocations'[Key(h)]])
  PROVE  QuietInv' /\ \A k \in Keys : KeyInv(k)'
<1>1. /\ overlapped' = overlapped /\ history' = history /\ gen' = gen
      /\ \A j \in Handlers : Busy(j)' => Busy(j) /\ Name(Event(j))' = Name(Event(j))
  BY OthersKept
<1>2. ASSUME NEW j \in Handlers, Busy(j)', Quiet(Name(Event(j)))
      PROVE  Alone(j)'
  BY <1>1, <1>2, AloneKept
<1>3. QuietInv'
  BY <1>1, <1>2 DEF QuietInv, Quiet
<1>4. ASSUME NEW k \in Keys PROVE KeyInv(k)'
  <2>1. CASE k # Key(h)
    <3>1. ASSUME Quiet(NameOf(k))
          PROVE  /\ invocations'[k] = invocations[k]
                 /\ invocations[k] # 0 => heap'[invocations[k]] = heap[invocations[k]]
      <4>1. CASE NameOf(k) = Name(Event(h))
        BY <2>1, <3>1, <4>1 DEF Elsewhere
      <4>2. CASE NameOf(k) # Name(Event(h))
        <5>1. invocations[k] # 0 => invocations[k] \in DOMAIN heap /\ invocations[k] \notin Refs(h)
          BY <4>2, HeapShape DEF OwnInv, Frame
        <5> QED BY <4>2, <5>1 DEF Local
      <4> QED BY <4>1, <4>2
    <3> QED BY <2>1, <3>1, KeyKept
  <2>2. CASE k = Key(h)
    <3> SUFFICES ASSUME Quiet(NameOf(k))
                 PROVE  Entered(history', handler', Workers(handler', gen', k), k, invocations'[k], heap'[invocations'[k]])
      BY <1>1 DEF KeyInv, Quiet
    <3>1. Quiet(Name(Event(h))) /\ Busy(h)
      BY <2>2, KeyNames DEF Frame
    <3>2. Alone(h)
      BY <3>1 DEF QuietInv
    <3>3. Workers(handler', gen', k) = IF Busy(h)' THEN {h} ELSE {}
      BY <2>2, <3>1, <3>2, SoloWorkers
    <3>4. CASE Busy(h)'
      BY <1>1, <2>2, <3>1, <3>3, <3>4, EnteredSolo
    <3>5. CASE ~Busy(h)'
      BY <1>1, <2>2, <3>1, <3>3, <3>5, EnteredRested
    <3> QED BY <3>4, <3>5
  <2> QED BY <2>1, <2>2
<1> QED BY <1>3, <1>4

\* What a handler of a quiet invocation finds.
LEMMA SoloNow ==
  ASSUME Shape, OwnInv, QuietInv, \A k \in Keys : KeyInv(k), NEW h \in Handlers, Frame(h), Quiet(Name(Event(h)))
  PROVE  /\ Alone(h) /\ Key(h) \in Keys /\ ~WorkflowGone(h)
         /\ Solo(history, handler[h], Key(h), invocations[Key(h)], heap[invocations[Key(h)]])
<1>1. Alone(h) /\ Busy(h) /\ Running /\ gen' = gen
  BY DEF QuietInv, Frame
<1>2. ~WorkflowGone(h)
  BY <1>1 DEF Alone
<1>3. Key(h) \in Keys
  BY <1>1, <1>2, Places
<1>4. Entered(history, handler, {h}, Key(h), invocations[Key(h)], heap[invocations[Key(h)]])
  BY <1>1, <1>3, KeyNames, SoloWorkers DEF KeyInv
<1> QED BY <1>1, <1>2, <1>3, <1>4, EnteredSolo

Core == Shape /\ OwnInv /\ TimeInv /\ QuietInv /\ \A k \in Keys : KeyInv(k)

LEMMA AloneMove ==
  ASSUME NEW h \in Handlers, Frame(h), Busy(h)', Alone(h),
         Calm(handler'[h], heap'[handler'[h].invocation], Key(h), invocations'[Key(h)], NewInvocation(h))
  PROVE  Alone(h)'
<1>1. /\ Event(h)' = Event(h) /\ handler'[h].now = handler[h].now /\ gen' = gen /\ history' = history /\ Running
      /\ workflows' = workflows
  BY DEF Frame
<1>2. Key(h)' = Key(h) /\ NewInvocation(h)' = NewInvocation(h) /\ Name(Event(h))' = Name(Event(h)) /\ (~WorkflowGone(h))'
  BY <1>1 DEF Key, NewInvocation, Name, WorkflowGone, Alone
<1>3. \A j \in Handlers : Busy(j)' /\ Name(Event(j))' = Name(Event(h))' => j = h
  BY <1>2, OthersKept DEF Alone
<1>4. \A n \in DeliveredTo(history', Key(h)') : n <= handler'[h].now
  BY <1>1, <1>2 DEF Alone
<1> QED BY <1>1, <1>2, <1>3, <1>4 DEF Alone

\* QuietStep for a handler that goes on.
LEMMA QuietMove ==
  ASSUME Core, NEW h \in Handlers, Frame(h), Local(h), Busy(h)',
         Quiet(Name(Event(h))) =>
           /\ Elsewhere(h)
           /\ Calm(handler'[h], heap'[handler'[h].invocation], Key(h), invocations'[Key(h)], NewInvocation(h))
           /\ Solo(history, handler'[h], Key(h), invocations'[Key(h)], heap'[invocations'[Key(h)]])
  PROVE  QuietInv' /\ \A k \in Keys : KeyInv(k)'
<1>1. Shape /\ OwnInv /\ QuietInv /\ \A k \in Keys : KeyInv(k)
  BY DEF Core
<1>2. ASSUME Quiet(Name(Event(h)))
      PROVE  Alone(h)'
  BY <1>1, <1>2, SoloNow, AloneMove
<1> QED BY <1>1, <1>2, QuietStep

\* A handler that has not removed a descriptor.
Early == {"lookup", "register", "store", "check", "complete", "remove"}

LEMMA SoloEarly ==
  ASSUME NEW hist, NEW m, NEW k, NEW o, NEW i, m.pc \in Early \/ (m.pc \in {"record", "append"} /\ ~m.isCompletion)
  PROVE  /\ o # 0 => (Solo(hist, m, k, o, i) <=> Accounts(hist, k, i, {m.now}, {}, {}, FALSE))
         /\ o = 0 => (Solo(hist, m, k, o, i) <=> DeliveredTo(hist, k) = {m.now})
<1>1. ~Removed(m) /\ ~Measured(m) /\ ~Pending(m)
  BY DEF Removed, Measured, Pending, Early
<1> QED BY <1>1 DEF Solo, Accounts

LEMMA SoloGoesOn ==
  ASSUME NEW hist, NEW m, NEW q, NEW k, NEW o, NEW i, m.pc \in Early, q.now = m.now, Solo(hist, m, k, o, i),
         q.pc \in Early \/ (q.pc \in {"record", "append"} /\ ~q.isCompletion)
  PROVE  Solo(hist, q, k, o, i)
<1>1. CASE o = 0
  BY <1>1, SoloEarly
<1>2. CASE o # 0
  BY <1>2, SoloEarly
<1> QED BY <1>1, <1>2

\* One that has: before its record is written, and before its duration and its status are.
LEMMA SoloLate ==
  ASSUME NEW hist, NEW m, NEW k, NEW o, NEW i, o # 0
  PROVE  /\ m.pc = "duration" => (Solo(hist, m, k, o, i) <=> Accounts(hist, k, i, {m.now}, {m.now}, {}, TRUE))
         /\ m.pc = "status" => (Solo(hist, m, k, o, i) <=> Accounts(hist, k, i, {m.now}, {m.now}, {m.now}, TRUE))
         /\ m.pc \in {"record", "append"} /\ m.isCompletion =>
              (Solo(hist, m, k, o, i) <=> Accounts(hist, k, i, {m.now}, {m.now}, {m.now}, FALSE))
<1>1. m.pc = "duration" => Removed(m) /\ ~Measured(m) /\ Pending(m)
  BY DEF Removed, Measured, Pending
<1>2. m.pc = "status" => Removed(m) /\ Measured(m) /\ Pending(m)
  BY DEF Removed, Measured, Pending
<1>3. m.pc \in {"record", "append"} /\ m.isCompletion => Removed(m) /\ Measured(m) /\ ~Pending(m)
  BY DEF Removed, Measured, Pending
<1>4. m.pc = "duration" => (Solo(hist, m, k, o, i) <=> Accounts(hist, k, i, {m.now}, {m.now}, {}, TRUE))
  BY <1>1 DEF Solo, Accounts
<1>5. m.pc = "status" => (Solo(hist, m, k, o, i) <=> Accounts(hist, k, i, {m.now}, {m.now}, {m.now}, TRUE))
  BY <1>2 DEF Solo, Accounts
<1>6. m.pc \in {"record", "append"} /\ m.isCompletion =>
        (Solo(hist, m, k, o, i) <=> Accounts(hist, k, i, {m.now}, {m.now}, {m.now}, FALSE))
  BY <1>3 DEF Solo, Accounts
<1> QED BY <1>4, <1>5, <1>6

LEMMA NoWrites ==
  ASSUME NEW h \in Handlers, UNCHANGED <<heap, invocations>>
  PROVE  Local(h) /\ Elsewhere(h)
BY DEF Local, Elsewhere

\* The object that a quiet handler writes is its own entry's.
LEMMA OneWrite ==
  ASSUME Shape, OwnInv, NEW h \in Handlers, UNCHANGED invocations, NEW o, o \in Refs(h), Changes(o)
  PROVE  /\ Local(h)
         /\ Key(h) \in Keys /\ invocations[Key(h)] = o => Elsewhere(h)
<1>1. o # 0 /\ Local(h)
  BY DEF Local, Changes, Refs
<1>2. ASSUME Key(h) \in Keys, invocations[Key(h)] = o, NEW k \in Keys, k # Key(h), invocations[k] # 0
      PROVE  heap'[invocations[k]] = heap[invocations[k]]
  <2>1. invocations[k] # o /\ invocations[k] \in DOMAIN heap
    BY <1>2, HeapShape DEF OwnInv
  <2> QED BY <2>1 DEF Changes
<1> QED BY <1>1, <1>2 DEF Elsewhere

LEMMA LookupQuiet ==
  ASSUME Core, NEW h \in Handlers, Lookup(h)
  PROVE  QuietInv' /\ \A k \in Keys : KeyInv(k)'
<1>1. Shape /\ OwnInv /\ QuietInv /\ \A k \in Keys : KeyInv(k)
  BY DEF Core
<1>2. /\ Frame(h) /\ UNCHANGED <<heap, invocations, panicked>> /\ Busy(h)' /\ handler[h].pc = "lookup"
      /\ handler'[h].pc = IF invocations[Entry(h)] = 0 THEN "register" ELSE "check"
      /\ handler'[h].invocation = invocations[Entry(h)]
      /\ handler'[h].workflow = handler[h].workflow /\ handler'[h].isCompletion = handler[h].isCompletion
      /\ handler'[h].now = handler[h].now
  BY <1>1, LookupEffect DEF Frame
<1>3. ASSUME Quiet(Name(Event(h)))
      PROVE  /\ Calm(handler'[h], heap'[handler'[h].invocation], Key(h), invocations'[Key(h)], NewInvocation(h))
             /\ Solo(history, handler'[h], Key(h), invocations'[Key(h)], heap'[invocations'[Key(h)]])
  <2>1. /\ Calm(handler[h], heap[handler[h].invocation], Key(h), invocations[Key(h)], NewInvocation(h))
        /\ Solo(history, handler[h], Key(h), invocations[Key(h)], heap[invocations[Key(h)]])
    BY <1>1, <1>2, <1>3, SoloNow DEF Alone
  <2>2. handler[h].workflow = <<gen, Event(h).wf>> /\ ~handler[h].isCompletion
    BY <1>2, <2>1 DEF Calm, Key
  <2>3. Entry(h) = Key(h)
    BY <2>2 DEF Entry, Key
  <2>4. Calm(handler'[h], heap'[handler'[h].invocation], Key(h), invocations'[Key(h)], NewInvocation(h))
    BY <1>2, <2>2, <2>3 DEF Calm, Key
  <2>5. handler[h].pc \in Early /\ handler'[h].pc \in Early
    BY <1>2 DEF Early
  <2> QED BY <1>2, <2>1, <2>4, <2>5, SoloGoesOn
<1> QED BY <1>2, <1>3, NoWrites, QuietMove

LEMMA RegisterQuiet ==
  ASSUME Core, NEW h \in Handlers, RegisterInvocation(h), ~WorkflowGone(h)
  PROVE  QuietInv' /\ \A k \in Keys : KeyInv(k)'
<1>1. Shape /\ OwnInv /\ QuietInv /\ \A k \in Keys : KeyInv(k)
  BY DEF Core
<1>2. /\ Frame(h) /\ UNCHANGED <<invocations, panicked>> /\ Busy(h)' /\ handler[h].pc = "register"
      /\ handler'[h].pc = "store" /\ handler'[h].workflow = <<gen, Event(h).wf>>
      /\ handler'[h].invocation = Len(heap) + 1 /\ handler'[h].isCompletion = handler[h].isCompletion
      /\ heap' = Append(heap, NewInvocation(h)) /\ handler'[h].now = handler[h].now
  BY <1>1, RegisterEffect DEF Frame
<1>3. /\ Len(heap) \in Nat /\ heap \in Seq(Invocation) /\ DOMAIN heap = 1..Len(heap)
  BY <1>1, HeapShape
<1>4. heap'[Len(heap) + 1] = NewInvocation(h) /\ \A o \in DOMAIN heap : heap'[o] = heap[o]
  BY <1>2, <1>3
<1>5. Local(h) /\ Elsewhere(h)
  <2>1. \A k \in Keys : invocations[k] # 0 => invocations[k] \in DOMAIN heap
    BY <1>1, <1>3 DEF OwnInv
  <2> QED BY <1>2, <1>4, <2>1 DEF Local, Elsewhere
<1>6. ASSUME Quiet(Name(Event(h)))
      PROVE  /\ Calm(handler'[h], heap'[handler'[h].invocation], Key(h), invocations'[Key(h)], NewInvocation(h))
             /\ Solo(history, handler'[h], Key(h), invocations'[Key(h)], heap'[invocations'[Key(h)]])
  <2>1. /\ Calm(handler[h], heap[handler[h].invocation], Key(h), invocations[Key(h)], NewInvocation(h))
        /\ Solo(history, handler[h], Key(h), invocations[Key(h)], heap[invocations[Key(h)]])
    BY <1>1, <1>2, <1>6, SoloNow DEF Alone
  <2>2. invocations[Key(h)] = 0 /\ ~handler[h].isCompletion
    BY <1>2, <2>1 DEF Calm
  <2>3. Calm(handler'[h], heap'[handler'[h].invocation], Key(h), invocations'[Key(h)], NewInvocation(h))
    BY <1>2, <1>4, <2>2 DEF Calm, Key
  <2>4. handler[h].pc \in Early /\ handler'[h].pc \in Early
    BY <1>2 DEF Early
  <2> QED BY <1>2, <2>1, <2>2, <2>3, <2>4, SoloEarly
<1> QED BY <1>2, <1>5, <1>6, QuietMove

LEMMA StoreQuiet ==
  ASSUME Core, NEW h \in Handlers, Store(h)
  PROVE  QuietInv' /\ \A k \in Keys : KeyInv(k)'
<1>1. Shape /\ OwnInv /\ QuietInv /\ \A k \in Keys : KeyInv(k)
  BY DEF Core
<1>2. /\ Frame(h) /\ UNCHANGED <<heap, panicked>> /\ Busy(h)' /\ handler[h].pc = "store"
      /\ handler'[h].pc = "check"
      /\ handler'[h].workflow = handler[h].workflow /\ handler'[h].invocation = handler[h].invocation
      /\ handler'[h].isCompletion = handler[h].isCompletion /\ handler'[h].now = handler[h].now
      /\ invocations' = [invocations EXCEPT ![Entry(h)] = handler[h].invocation]
  BY <1>1, StoreEffect DEF Frame
<1>3. \A k \in Keys : invocations'[k] = IF k = Entry(h) THEN handler[h].invocation ELSE invocations[k]
  BY <1>1, <1>2 DEF Shape
<1>4. Holds(h) /\ handler[h].invocation # 0 /\ NameOf(Entry(h)) = Name(Event(h))
  BY <1>1, <1>2, KeyNames DEF Frame, OwnInv, Holds
<1>5. Local(h)
  BY <1>2, <1>3, <1>4 DEF Local
<1>6. ASSUME Quiet(Name(Event(h)))
      PROVE  /\ Elsewhere(h)
             /\ Calm(handler'[h], heap'[handler'[h].invocation], Key(h), invocations'[Key(h)], NewInvocation(h))
             /\ Solo(history, handler'[h], Key(h), invocations'[Key(h)], heap'[invocations'[Key(h)]])
  <2>1. /\ Calm(handler[h], heap[handler[h].invocation], Key(h), invocations[Key(h)], NewInvocation(h))
        /\ Solo(history, handler[h], Key(h), invocations[Key(h)], heap[invocations[Key(h)]]) /\ Key(h) \in Keys
    BY <1>1, <1>2, <1>6, SoloNow DEF Alone
  <2>2. /\ invocations[Key(h)] = 0 /\ ~handler[h].isCompletion /\ handler[h].workflow = <<gen, Event(h).wf>>
        /\ heap[handler[h].invocation] = NewInvocation(h)
    BY <1>2, <2>1 DEF Calm, Key
  <2>3. Entry(h) = Key(h)
    BY <2>2 DEF Entry, Key
  <2>4. invocations'[Key(h)] = handler[h].invocation
    BY <1>3, <2>1, <2>3
  <2>5. Elsewhere(h)
    BY <1>2, <1>3, <2>3 DEF Elsewhere
  <2>6. Calm(handler'[h], heap'[handler'[h].invocation], Key(h), invocations'[Key(h)], NewInvocation(h))
    BY <1>2, <2>2, <2>4 DEF Calm, Key
  <2>7. handler[h].pc \in Early /\ handler'[h].pc \in Early
    BY <1>2 DEF Early
  <2>8. DeliveredTo(history, Key(h)) = {handler[h].now}
    BY <2>1, <2>2, <2>7, SoloEarly
  <2>9. PICK i : i = NewInvocation(h)
    OBVIOUS
  <2>10. i.awaits = Definitions[Key(h)[1]][Key(h)[2]] /\ i.records = <<>> /\ i.duration = 0 /\ i.status = "CANCELLED"
    BY <2>9 DEF NewInvocation, Key
  <2>11. Accounts(history, Key(h), i, {handler[h].now}, {}, {}, FALSE)
    BY <2>1, <2>8, <2>10, AccountsNew
  <2> QED BY <1>2, <1>4, <2>2, <2>4, <2>5, <2>6, <2>7, <2>9, <2>11, SoloEarly
<1> QED BY <1>2, <1>5, <1>6, QuietMove

LEMMA CheckQuiet ==
  ASSUME Core, NEW h \in Handlers, CheckCompletion(h), ~Gone(h)
  PROVE  QuietInv' /\ \A k \in Keys : KeyInv(k)'
<1>1. Shape /\ OwnInv /\ QuietInv /\ \A k \in Keys : KeyInv(k)
  BY DEF Core
<1>2. /\ Frame(h) /\ UNCHANGED <<heap, invocations, panicked>> /\ Busy(h)' /\ handler[h].pc = "check"
      /\ handler'[h].workflow = handler[h].workflow /\ handler'[h].invocation = handler[h].invocation
      /\ handler'[h].now = handler[h].now /\ handler'[h].event = handler[h].event
      /\ \/ /\ handler'[h].pc = "record" /\ handler'[h].isCompletion = handler[h].isCompletion
            /\ \A a \in DOMAIN heap[Current(h)].awaits : ~(heap[Current(h)].awaits[a] \subseteq Event(h).attrs)
         \/ /\ handler'[h].pc = "complete" /\ handler'[h].isCompletion = TRUE
            /\ handler'[h].idx \in DOMAIN heap[Current(h)].awaits
            /\ heap[Current(h)].awaits[handler'[h].idx] \subseteq Event(h).attrs
  BY <1>1, CheckEffect DEF Frame, Event
<1>3. ASSUME Quiet(Name(Event(h)))
      PROVE  /\ Calm(handler'[h], heap'[handler'[h].invocation], Key(h), invocations'[Key(h)], NewInvocation(h))
             /\ Solo(history, handler'[h], Key(h), invocations'[Key(h)], heap'[invocations'[Key(h)]])
  <2>1. /\ Calm(handler[h], heap[handler[h].invocation], Key(h), invocations[Key(h)], NewInvocation(h))
        /\ Solo(history, handler[h], Key(h), invocations[Key(h)], heap[invocations[Key(h)]])
    BY <1>1, <1>2, <1>3, SoloNow DEF Alone
  <2>2. /\ invocations[Key(h)] = handler[h].invocation /\ ~handler[h].isCompletion
        /\ handler[h].workflow = <<Key(h)[1], Key(h)[2]>>
    BY <1>2, <2>1 DEF Calm
  <2>3. Calm(handler'[h], heap'[handler'[h].invocation], Key(h), invocations'[Key(h)], NewInvocation(h))
    <3>1. CASE handler'[h].pc = "record"
      BY <1>2, <2>2, <3>1 DEF Calm, Current, Event
    <3>2. CASE handler'[h].pc # "record"
      BY <1>2, <2>2, <3>2 DEF Calm, Current, Event
    <3> QED BY <3>1, <3>2
  <2>4. /\ handler[h].pc \in Early
        /\ (handler'[h].pc \in Early \/ (handler'[h].pc \in {"record", "append"} /\ ~handler'[h].isCompletion))
    BY <1>2, <2>2 DEF Early
  <2> QED BY <1>2, <2>1, <2>3, <2>4, SoloGoesOn
<1> QED BY <1>2, <1>3, NoWrites, QuietMove

LEMMA CompleteQuiet ==
  ASSUME Core, NEW h \in Handlers, OnCompletionEvent(h), ~Gone(h), handler[h].idx <= Len(heap[Current(h)].awaits)
  PROVE  QuietInv' /\ \A k \in Keys : KeyInv(k)'
<1>1. Shape /\ OwnInv /\ QuietInv /\ \A k \in Keys : KeyInv(k)
  BY DEF Core
<1>2. /\ Frame(h) /\ UNCHANGED <<heap, invocations, panicked>> /\ Busy(h)' /\ handler[h].pc = "complete"
      /\ handler'[h].pc = "remove" /\ handler'[h].target = Current(h)
      /\ handler'[h].rest = Drop(heap[Current(h)].awaits, handler[h].idx)
      /\ handler'[h].workflow = handler[h].workflow /\ handler'[h].invocation = handler[h].invocation
      /\ handler'[h].isCompletion = handler[h].isCompletion /\ handler'[h].idx = handler[h].idx
      /\ handler'[h].now = handler[h].now /\ handler'[h].event = handler[h].event
  BY <1>1, CompleteEffect DEF Frame, Event
<1>3. ASSUME Quiet(Name(Event(h)))
      PROVE  /\ Calm(handler'[h], heap'[handler'[h].invocation], Key(h), invocations'[Key(h)], NewInvocation(h))
             /\ Solo(history, handler'[h], Key(h), invocations'[Key(h)], heap'[invocations'[Key(h)]])
  <2>1. /\ Calm(handler[h], heap[handler[h].invocation], Key(h), invocations[Key(h)], NewInvocation(h))
        /\ Solo(history, handler[h], Key(h), invocations[Key(h)], heap[invocations[Key(h)]])
    BY <1>1, <1>2, <1>3, SoloNow DEF Alone
  <2>2. Calm(handler'[h], heap'[handler'[h].invocation], Key(h), invocations'[Key(h)], NewInvocation(h))
    BY <1>2, <2>1 DEF Calm, Current
  <2>3. handler[h].pc \in Early /\ handler'[h].pc \in Early
    BY <1>2 DEF Early
  <2> QED BY <1>2, <2>1, <2>2, <2>3, SoloGoesOn
<1> QED BY <1>2, <1>3, NoWrites, QuietMove

LEMMA RemoveQuiet ==
  ASSUME Core, NEW h \in Handlers, RemoveDescriptor(h)
  PROVE  QuietInv' /\ \A k \in Keys : KeyInv(k)'
<1>1. Shape /\ OwnInv /\ QuietInv /\ TimeInv /\ \A k \in Keys : KeyInv(k)
  BY DEF Core
<1> DEFINE o == handler[h].target
<1>2. /\ Frame(h) /\ UNCHANGED <<invocations, panicked>> /\ Busy(h)' /\ handler[h].pc = "remove"
      /\ handler'[h].pc = "duration" /\ handler'[h].seen = heap[handler[h].invocation].duration
      /\ handler'[h].workflow = handler[h].workflow /\ handler'[h].invocation = handler[h].invocation
      /\ handler'[h].isCompletion = handler[h].isCompletion /\ handler'[h].target = handler[h].target
      /\ handler'[h].now = handler[h].now
      /\ Changes(o) /\ heap'[o].awaits = handler[h].rest
      /\ heap'[o].duration = heap[o].duration /\ heap'[o].status = heap[o].status /\ heap'[o].records = heap[o].records
  BY <1>1, RemoveEffect DEF Frame
<1>3. Busy(h) /\ Holds(h) /\ handler[h] \in BusyHandler
  BY <1>1, <1>2 DEF Frame, OwnInv
<1>4. o # 0 /\ o \in Refs(h) /\ o \in DOMAIN heap
  BY <1>2, <1>3 DEF Holds, Refs, Changes
<1>5. Local(h) /\ (Key(h) \in Keys /\ invocations[Key(h)] = o => Elsewhere(h))
  BY <1>1, <1>2, <1>4, OneWrite
<1>6. ASSUME Quiet(Name(Event(h)))
      PROVE  /\ Elsewhere(h)
             /\ Calm(handler'[h], heap'[handler'[h].invocation], Key(h), invocations'[Key(h)], NewInvocation(h))
             /\ Solo(history, handler'[h], Key(h), invocations'[Key(h)], heap'[invocations'[Key(h)]])
  <2>1. /\ Calm(handler[h], heap[handler[h].invocation], Key(h), invocations[Key(h)], NewInvocation(h))
        /\ Solo(history, handler[h], Key(h), invocations[Key(h)], heap[invocations[Key(h)]]) /\ Key(h) \in Keys
    BY <1>1, <1>2, <1>6, SoloNow DEF Alone
  <2>2. /\ invocations[Key(h)] = o /\ handler[h].invocation = o /\ handler[h].isCompletion
        /\ handler[h].workflow = <<Key(h)[1], Key(h)[2]>>
        /\ handler[h].idx \in DOMAIN heap[o].awaits /\ heap[o].awaits[handler[h].idx] \subseteq Event(h).attrs
        /\ handler[h].rest = Drop(heap[o].awaits, handler[h].idx)
    BY <1>2, <2>1 DEF Calm, Event
  <2>3. Calm(handler'[h], heap'[handler'[h].invocation], Key(h), invocations'[Key(h)], NewInvocation(h))
    BY <1>2, <2>2 DEF Calm
  <2>4. Accounts(history, Key(h), heap[o], {handler[h].now}, {}, {}, FALSE)
    <3>1. handler[h].pc \in Early
      BY <1>2 DEF Early
    <3> QED BY <1>4, <2>1, <2>2, <3>1, SoloEarly
  <2>5. /\ heap[o] \in Invocation /\ heap'[o] \in Invocation /\ handler[h].now \in Nat /\ Len(history) \in Nat
        /\ heap[o].awaits[handler[h].idx] \subseteq history[handler[h].now].attrs
    BY <1>1, <1>2, <1>3, <1>4, <2>2, Objects, HeapShape DEF Changes, Holds
  <2>6. handler[h].now \notin TimesOf(heap[o].records)
    <3>1. Timed(heap[o].records, Len(history), Nows(handler))
      BY <1>1, <1>4 DEF TimeInv, TimedObject
    <3>2. handler[h].now \in Nows(handler)
      BY <1>3 DEF Nows, Busy
    <3> QED BY <3>1, <3>2 DEF Timed
  <2>7. Accounts(history, Key(h), heap'[o], {handler[h].now}, {handler[h].now}, {}, TRUE)
    <3>1. PICK i : i = heap[o]
      OBVIOUS
    <3>2. PICK j : j = heap'[o]
      OBVIOUS
    <3>3. PICK n : n = handler[h].now
      OBVIOUS
    <3>4. PICK x : x = handler[h].idx
      OBVIOUS
    <3>5. PICK k : k = Key(h)
      OBVIOUS
    <3>6. /\ Accounts(history, k, i, {n}, {}, {}, FALSE) /\ i \in Invocation /\ j \in Invocation /\ n \in Nat
          /\ n \notin TimesOf(i.records) /\ k \in Keys
      BY <2>1, <2>4, <2>5, <2>6, <3>1, <3>2, <3>3, <3>5
    <3>7. /\ x \in DOMAIN i.awaits /\ i.awaits[x] \subseteq history[n].attrs /\ j.awaits = Drop(i.awaits, x)
          /\ j.duration = i.duration /\ j.status = i.status /\ j.records = i.records
      BY <1>2, <2>2, <2>5, <3>1, <3>2, <3>3, <3>4
    <3>8. Accounts(history, k, j, {n}, {n}, {}, TRUE)
      BY ONLY <3>6, <3>7, AccountsRemove
    <3> QED BY <3>2, <3>3, <3>5, <3>8
  <2> QED BY <1>2, <1>4, <1>5, <2>1, <2>2, <2>3, <2>7, SoloLate
<1> QED BY <1>2, <1>5, <1>6, QuietMove

LEMMA DurationQuiet ==
  ASSUME Core, NEW h \in Handlers, UpdateDuration(h)
  PROVE  QuietInv' /\ \A k \in Keys : KeyInv(k)'
<1>1. Shape /\ OwnInv /\ QuietInv /\ TimeInv /\ \A k \in Keys : KeyInv(k)
  BY DEF Core
<1> DEFINE o == handler[h].invocation
<1>2. /\ Frame(h) /\ UNCHANGED <<invocations, panicked>> /\ Busy(h)' /\ handler[h].pc = "duration"
      /\ handler'[h].pc = "status"
      /\ handler'[h].workflow = handler[h].workflow /\ handler'[h].invocation = handler[h].invocation
      /\ handler'[h].isCompletion = handler[h].isCompletion /\ handler'[h].target = handler[h].target
      /\ handler'[h].now = handler[h].now
      /\ Changes(o) /\ heap'[o].duration = Longer(handler[h].seen, handler[h].now)
      /\ heap'[o].awaits = heap[o].awaits /\ heap'[o].status = heap[o].status /\ heap'[o].records = heap[o].records
  BY <1>1, DurationEffect DEF Frame
<1>3. Busy(h) /\ Holds(h) /\ handler[h] \in BusyHandler
  BY <1>1, <1>2 DEF Frame, OwnInv
<1>4. o # 0 /\ o \in Refs(h) /\ o \in DOMAIN heap
  BY <1>2, <1>3 DEF Holds, Refs, Changes
<1>5. Local(h) /\ (Key(h) \in Keys /\ invocations[Key(h)] = o => Elsewhere(h))
  BY <1>1, <1>2, <1>4, OneWrite
<1>6. ASSUME Quiet(Name(Event(h)))
      PROVE  /\ Elsewhere(h)
             /\ Calm(handler'[h], heap'[handler'[h].invocation], Key(h), invocations'[Key(h)], NewInvocation(h))
             /\ Solo(history, handler'[h], Key(h), invocations'[Key(h)], heap'[invocations'[Key(h)]])
  <2>1. /\ Calm(handler[h], heap[handler[h].invocation], Key(h), invocations[Key(h)], NewInvocation(h))
        /\ Solo(history, handler[h], Key(h), invocations[Key(h)], heap[invocations[Key(h)]]) /\ Key(h) \in Keys
    BY <1>1, <1>2, <1>6, SoloNow DEF Alone
  <2>2. /\ invocations[Key(h)] = o /\ handler[h].target = o /\ handler[h].isCompletion
        /\ handler[h].workflow = <<Key(h)[1], Key(h)[2]>> /\ handler[h].seen = heap[o].duration
    BY <1>2, <2>1 DEF Calm
  <2>3. Calm(handler'[h], heap'[handler'[h].invocation], Key(h), invocations'[Key(h)], NewInvocation(h))
    BY <1>2, <2>2 DEF Calm
  <2>4. Accounts(history, Key(h), heap[o], {handler[h].now}, {handler[h].now}, {}, TRUE)
    BY <1>2, <1>4, <2>1, <2>2, SoloLate
  <2>5. /\ heap[o] \in Invocation /\ heap'[o] \in Invocation /\ handler[h].now \in Nat /\ handler[h].now # 0
        /\ TimesOf(heap[o].records) \subseteq Nat
    <3>1. Timed(heap[o].records, Len(history), Nows(handler)) /\ Len(history) \in Nat
      BY <1>1, <1>4, HeapShape DEF TimeInv, TimedObject
    <3>2. TimesOf(heap[o].records) \subseteq Nat
      BY <3>1 DEF Timed
    <3> QED BY <1>1, <1>2, <1>3, <1>4, <3>2, Objects DEF Changes, Holds
  <2>6. Accounts(history, Key(h), heap'[o], {handler[h].now}, {handler[h].now}, {handler[h].now}, TRUE)
    <3>1. PICK i : i = heap[o]
      OBVIOUS
    <3>2. PICK j : j = heap'[o]
      OBVIOUS
    <3>3. PICK n : n = handler[h].now
      OBVIOUS
    <3>4. PICK k : k = Key(h)
      OBVIOUS
    <3>5. /\ Accounts(history, k, i, {n}, {n}, {}, TRUE) /\ i \in Invocation /\ j \in Invocation /\ n \in Nat /\ n # 0
          /\ TimesOf(i.records) \subseteq Nat /\ k \in Keys /\ j.duration = Longer(i.duration, n)
          /\ j.awaits = i.awaits /\ j.status = i.status /\ j.records = i.records
      BY <1>2, <2>1, <2>2, <2>4, <2>5, <3>1, <3>2, <3>3, <3>4
    <3>6. Accounts(history, k, j, {n}, {n}, {n}, TRUE)
      BY ONLY <3>5, AccountsDuration
    <3> QED BY <3>2, <3>3, <3>4, <3>6
  <2> QED BY <1>2, <1>4, <1>5, <2>1, <2>2, <2>3, <2>6, SoloLate
<1> QED BY <1>2, <1>5, <1>6, QuietMove

LEMMA StatusQuiet ==
  ASSUME Core, NEW h \in Handlers, UpdateStatus(h)
  PROVE  QuietInv' /\ \A k \in Keys : KeyInv(k)'
<1>1. Shape /\ OwnInv /\ QuietInv /\ \A k \in Keys : KeyInv(k)
  BY DEF Core
<1> DEFINE o == handler[h].invocation
<1>2. /\ Frame(h) /\ UNCHANGED <<invocations, panicked>> /\ Busy(h)' /\ handler[h].pc = "status"
      /\ handler'[h].pc = "record"
      /\ handler'[h].workflow = handler[h].workflow /\ handler'[h].invocation = handler[h].invocation
      /\ handler'[h].isCompletion = handler[h].isCompletion /\ handler'[h].now = handler[h].now
      /\ Changes(o) /\ heap'[o].status = (IF heap[handler[h].target].awaits = <<>> THEN "COMPLETED" ELSE heap[o].status)
      /\ heap'[o].awaits = heap[o].awaits /\ heap'[o].duration = heap[o].duration /\ heap'[o].records = heap[o].records
  BY <1>1, StatusEffect DEF Frame
<1>3. Busy(h) /\ Holds(h)
  BY <1>1, <1>2 DEF Frame, OwnInv
<1>4. o # 0 /\ o \in Refs(h) /\ o \in DOMAIN heap
  BY <1>2, <1>3 DEF Holds, Refs, Changes
<1>5. Local(h) /\ (Key(h) \in Keys /\ invocations[Key(h)] = o => Elsewhere(h))
  BY <1>1, <1>2, <1>4, OneWrite
<1>6. ASSUME Quiet(Name(Event(h)))
      PROVE  /\ Elsewhere(h)
             /\ Calm(handler'[h], heap'[handler'[h].invocation], Key(h), invocations'[Key(h)], NewInvocation(h))
             /\ Solo(history, handler'[h], Key(h), invocations'[Key(h)], heap'[invocations'[Key(h)]])
  <2>1. /\ Calm(handler[h], heap[handler[h].invocation], Key(h), invocations[Key(h)], NewInvocation(h))
        /\ Solo(history, handler[h], Key(h), invocations[Key(h)], heap[invocations[Key(h)]]) /\ Key(h) \in Keys
    BY <1>1, <1>2, <1>6, SoloNow DEF Alone
  <2>2. /\ invocations[Key(h)] = o /\ handler[h].target = o /\ handler[h].isCompletion
        /\ handler[h].workflow = <<Key(h)[1], Key(h)[2]>>
    BY <1>2, <2>1 DEF Calm
  <2>3. Calm(handler'[h], heap'[handler'[h].invocation], Key(h), invocations'[Key(h)], NewInvocation(h))
    BY <1>2, <2>2 DEF Calm
  <2>4. Accounts(history, Key(h), heap[o], {handler[h].now}, {handler[h].now}, {handler[h].now}, TRUE)
    BY <1>2, <1>4, <2>1, <2>2, SoloLate
  <2>5. Accounts(history, Key(h), heap'[o], {handler[h].now}, {handler[h].now}, {handler[h].now}, FALSE)
    BY <1>2, <2>2, <2>4, AccountsStatus
  <2> QED BY <1>2, <1>4, <1>5, <2>1, <2>2, <2>3, <2>5, SoloLate
<1> QED BY <1>2, <1>5, <1>6, QuietMove

LEMMA ReadQuiet ==
  ASSUME Core, NEW h \in Handlers, ReadRecords(h)
  PROVE  QuietInv' /\ \A k \in Keys : KeyInv(k)'
<1>1. Shape /\ OwnInv /\ QuietInv /\ \A k \in Keys : KeyInv(k)
  BY DEF Core
<1>2. /\ Frame(h) /\ UNCHANGED <<heap, invocations, panicked>> /\ Busy(h)' /\ handler[h].pc = "record"
      /\ handler'[h].pc = "append" /\ handler'[h].records = heap[handler[h].invocation].records
      /\ handler'[h].workflow = handler[h].workflow /\ handler'[h].invocation = handler[h].invocation
      /\ handler'[h].isCompletion = handler[h].isCompletion /\ handler'[h].now = handler[h].now
      /\ handler'[h].event = handler[h].event
  BY <1>1, ReadEffect DEF Frame, Event
<1>3. ASSUME Quiet(Name(Event(h)))
      PROVE  /\ Calm(handler'[h], heap'[handler'[h].invocation], Key(h), invocations'[Key(h)], NewInvocation(h))
             /\ Solo(history, handler'[h], Key(h), invocations'[Key(h)], heap'[invocations'[Key(h)]])
  <2>1. /\ Calm(handler[h], heap[handler[h].invocation], Key(h), invocations[Key(h)], NewInvocation(h))
        /\ Solo(history, handler[h], Key(h), invocations[Key(h)], heap[invocations[Key(h)]])
    BY <1>1, <1>2, <1>3, SoloNow DEF Alone
  <2>2. Calm(handler'[h], heap'[handler'[h].invocation], Key(h), invocations'[Key(h)], NewInvocation(h))
    BY <1>2, <2>1 DEF Calm
  <2>3. (Removed(handler'[h]) <=> Removed(handler[h])) /\ (Measured(handler'[h]) <=> Measured(handler[h]))
        /\ (Pending(handler'[h]) <=> Pending(handler[h]))
    BY <1>2 DEF Removed, Measured, Pending
  <2> QED BY <1>2, <2>1, <2>2, <2>3 DEF Solo, Accounts
<1> QED BY <1>2, <1>3, NoWrites, QuietMove

LEMMA AppendQuiet ==
  ASSUME Core, NEW h \in Handlers, AppendRecord(h)
  PROVE  QuietInv' /\ \A k \in Keys : KeyInv(k)'
<1>1. Shape /\ OwnInv /\ QuietInv /\ TimeInv /\ \A k \in Keys : KeyInv(k)
  BY DEF Core
<1> DEFINE o == handler[h].invocation
<1>2. /\ Frame(h) /\ UNCHANGED <<invocations, panicked>> /\ ~Busy(h)' /\ handler[h].pc = "append"
      /\ Changes(o)
      /\ heap'[o].records = Append(handler[h].records, [now |-> handler[h].now, isCompletion |-> handler[h].isCompletion])
      /\ heap'[o].awaits = heap[o].awaits /\ heap'[o].duration = heap[o].duration /\ heap'[o].status = heap[o].status
  BY <1>1, AppendEffect
<1>3. Busy(h) /\ Holds(h) /\ handler[h] \in BusyHandler
  BY <1>1, <1>2 DEF Frame, OwnInv
<1>4. o # 0 /\ o \in Refs(h) /\ o \in DOMAIN heap
  BY <1>2, <1>3 DEF Holds, Refs, Changes
<1>5. Local(h) /\ (Key(h) \in Keys /\ invocations[Key(h)] = o => Elsewhere(h))
  BY <1>1, <1>2, <1>4, OneWrite
<1>6. ASSUME Quiet(Name(Event(h)))
      PROVE  /\ Elsewhere(h)
             /\ Rested(history, Key(h), invocations'[Key(h)], heap'[invocations'[Key(h)]])
  <2>1. /\ Calm(handler[h], heap[handler[h].invocation], Key(h), invocations[Key(h)], NewInvocation(h))
        /\ Solo(history, handler[h], Key(h), invocations[Key(h)], heap[invocations[Key(h)]]) /\ Key(h) \in Keys
        /\ history[handler[h].now].key = Key(h) /\ \A x \in DeliveredTo(history, Key(h)) : x <= handler[h].now
    BY <1>1, <1>2, <1>6, SoloNow DEF Alone
  <2>2. /\ invocations[Key(h)] = o /\ handler[h].records = heap[o].records
        /\ handler[h].isCompletion \/ \A a \in DOMAIN heap[o].awaits : ~(heap[o].awaits[a] \subseteq Event(h).attrs)
    BY <1>2, <2>1 DEF Calm, Event
  <2>3. PICK n : n = handler[h].now
    OBVIOUS
  <2>4. PICK c : c = handler[h].isCompletion
    OBVIOUS
  <2>5. PICK i : i = heap[o]
    OBVIOUS
  <2>6. PICK j : j = heap'[o]
    OBVIOUS
  <2>7. PICK k : k = Key(h)
    OBVIOUS
  <2>8. n \in Nat /\ c \in BOOLEAN /\ i \in Invocation /\ n \in DeliveredTo(history, k)
    BY <1>1, <1>3, <1>4, <2>1, <2>3, <2>4, <2>5, <2>7, Objects, HeapShape DEF BusyHandler, Holds, DeliveredTo
  <2>9. Accounts(history, k, i, {n}, IF c THEN {n} ELSE {}, IF c THEN {n} ELSE {}, FALSE)
    <3>1. CASE c
      BY <1>2, <1>4, <2>1, <2>2, <2>3, <2>4, <2>5, <2>7, <3>1, SoloLate
    <3>2. CASE ~c
      BY <1>2, <1>4, <2>1, <2>2, <2>3, <2>4, <2>5, <2>7, <3>2, SoloEarly
    <3> QED BY <3>1, <3>2
  <2>10. j.records = Append(i.records, [now |-> n, isCompletion |-> c]) /\ j.awaits = i.awaits
         /\ j.duration = i.duration /\ j.status = i.status
    BY <1>2, <2>2, <2>3, <2>4, <2>5, <2>6
  <2>11. n \notin TimesOf(i.records)
    <3>1. Timed(heap[o].records, Len(history), Nows(handler))
      BY <1>1, <1>4 DEF TimeInv, TimedObject
    <3>2. handler[h].now \in Nows(handler)
      BY <1>3 DEF Nows, Busy
    <3> QED BY <2>3, <2>5, <3>1, <3>2 DEF Timed
  <2>12. \A x \in DeliveredTo(history, k) : x \in Nat /\ x <= n
    <3>1. DOMAIN history = 1..Len(history) /\ Len(history) \in Nat
      BY <1>1, HeapShape
    <3>2. \A x \in DeliveredTo(history, k) : x \in Nat
      BY <3>1 DEF DeliveredTo
    <3> QED BY <2>1, <2>3, <2>7, <3>2
  <2>13. c \/ \A a \in DOMAIN i.awaits : ~(i.awaits[a] \subseteq history[n].attrs)
    BY <1>3, <2>2, <2>3, <2>4, <2>5 DEF Holds
  <2>14. Accounts(history, k, j, {}, {}, {}, FALSE)
    BY ONLY <2>8, <2>9, <2>10, <2>11, <2>12, <2>13, AccountsAppend
  <2> QED BY <1>2, <1>4, <1>5, <2>1, <2>2, <2>6, <2>7, <2>14 DEF Rested
<1> QED BY <1>1, <1>2, <1>5, <1>6, QuietStep

\* No handler of a quiet invocation panics.
LEMMA NoPanic ==
  ASSUME Core, NEW h \in Handlers, Frame(h), Quiet(Name(Event(h)))
  PROVE  /\ ~WorkflowGone(h)
         /\ handler[h].pc \in {"check", "complete"} => ~Gone(h)
         /\ handler[h].pc = "complete" => handler[h].idx <= Len(heap[Current(h)].awaits)
<1>1. Shape /\ OwnInv /\ QuietInv /\ \A k \in Keys : KeyInv(k)
  BY DEF Core
<1>2. /\ Calm(handler[h], heap[handler[h].invocation], Key(h), invocations[Key(h)], NewInvocation(h))
      /\ ~WorkflowGone(h) /\ Busy(h) /\ Holds(h)
  BY <1>1, SoloNow DEF Alone, Frame, OwnInv
<1>3. handler[h].pc \in {"check", "complete"} => /\ invocations[Key(h)] = handler[h].invocation
                                                 /\ handler[h].invocation # 0
  BY <1>2 DEF Calm, Holds
<1>4. handler[h].pc = "complete" => handler[h].idx \in 1..Len(heap[Current(h)].awaits)
  <2>1. handler[h].pc = "complete" => /\ handler[h].idx \in DOMAIN heap[Current(h)].awaits
                                      /\ Current(h) \in DOMAIN heap
    BY <1>1, <1>2, <1>3, Places DEF Calm, Current
  <2> QED BY <1>1, <2>1, Objects
<1>5. handler[h].pc = "complete" => handler[h].idx <= Len(heap[Current(h)].awaits)
  BY <1>4
<1> QED BY <1>2, <1>3, <1>5 DEF Gone

LEMMA PanicQuiet ==
  ASSUME Core, NEW h \in Handlers, Running, Busy(h), Panic(h), ~Quiet(Name(Event(h)))
  PROVE  QuietInv' /\ \A k \in Keys : KeyInv(k)'
<1>1. Shape /\ OwnInv /\ QuietInv /\ \A k \in Keys : KeyInv(k)
  BY DEF Core
<1>2. Frame(h) /\ UNCHANGED <<heap, invocations>>
  BY <1>1, PanicEffect
<1> QED BY <1>1, <1>2, NoWrites, QuietStep

-----------------------------------------------------------------------------
(* The steps of a handler. *)

\* A completed object stays so, and the duration of a quiet one stays what it is.
Final ==
  /\ \A o \in DOMAIN heap : heap[o].status = "COMPLETED" => heap'[o].status = "COMPLETED"
  /\ \A o \in DOMAIN heap, k \in Keys :
       heap[o].status = "COMPLETED" /\ invocations'[k] = o /\ Quiet(NameOf(k)) =>
         invocations[k] = o /\ heap'[o].duration = heap[o].duration

LEMMA InvIs ==
  ASSUME IInv
  PROVE  Core /\ Shape /\ InvokerInv /\ OwnInv /\ TimeInv /\ ReportInv /\ CrashesExplained
BY DEF IInv, Core

LEMMA Assemble ==
  ASSUME IInv, NEW h \in Handlers, Frame(h), Grows, Final, invocations' \in [Keys -> Nat], OwnInv', TimeInv',
         QuietInv' /\ \A k \in Keys : KeyInv(k)', panicked' \subseteq overlapped
  PROVE  IInv'
<1>1. Shape /\ InvokerInv /\ ReportInv
  BY InvIs
<1>2. Shape' /\ InvokerInv'
  BY <1>1, ShapeStep DEF Grows
<1>3. DOMAIN heap \subseteq DOMAIN heap'
  <2>1. /\ Len(heap) \in Nat /\ DOMAIN heap = 1..Len(heap) /\ Len(heap') \in Nat
        /\ DOMAIN heap' = 1..Len(heap') /\ Len(heap) <= Len(heap')
    BY <1>1, HeapShape DEF Grows
  <2> QED BY <2>1
<1>4. collected' = collected /\ encoded' = encoded /\ reported' = reported /\ overlapped' = overlapped /\ Running'
  BY DEF Frame, Running
<1>5. ReportInv'
  <2>1. ASSUME NEW r \in encoded \cup reported
        PROVE  r.of \in DOMAIN heap'
    BY <1>1, <1>3 DEF ReportInv
  <2>2. ASSUME NEW r \in encoded \cup reported, r.was = "COMPLETED"
        PROVE  /\ heap'[r.of].status = "COMPLETED" /\ r.duration # 0
               /\ \A k \in Keys : invocations'[k] = r.of /\ Quiet(NameOf(k)) => heap'[r.of].duration = r.duration
    BY <1>1, <2>2 DEF ReportInv, Final
  <2> QED BY <1>1, <1>3, <1>4, <2>1, <2>2 DEF ReportInv, Quiet
<1>6. CrashesExplained'
  BY <1>4 DEF CrashesExplained
<1> QED BY <1>2, <1>5, <1>6 DEF IInv

\* A step that writes nothing.
LEMMA SameFinal ==
  ASSUME UNCHANGED <<heap, invocations>>
  PROVE  Final
BY DEF Final

\* A step that writes the object o and not its duration.
LEMMA WriteFinal ==
  ASSUME NEW o, Changes(o), UNCHANGED invocations, heap'[o].duration = heap[o].duration,
         heap[o].status = "COMPLETED" => heap'[o].status = "COMPLETED"
  PROVE  Final
<1>1. \A p \in DOMAIN heap : heap'[p].duration = heap[p].duration
  BY DEF Changes
<1>2. \A p \in DOMAIN heap : heap[p].status = "COMPLETED" => heap'[p].status = "COMPLETED"
  BY DEF Changes
<1> QED BY <1>1, <1>2 DEF Final

LEMMA PanickedKept ==
  ASSUME IInv, UNCHANGED panicked
  PROVE  panicked' \subseteq overlapped
BY DEF IInv, CrashesExplained

LEMMA MapsKept ==
  ASSUME IInv, UNCHANGED invocations
  PROVE  invocations' \in [Keys -> Nat]
BY DEF IInv, Shape

LEMMA PanicStep ==
  ASSUME IInv, NEW h \in Handlers, Running, Busy(h), Panic(h), ~Quiet(Name(Event(h)))
  PROVE  IInv'
<1>1. Core /\ Shape /\ OwnInv /\ TimeInv /\ CrashesExplained
  BY InvIs
<1>2. /\ Frame(h) /\ UNCHANGED <<heap, invocations>> /\ ~Busy(h)'
      /\ panicked' = panicked \cup {Name(Event(h))}
  BY <1>1, PanicEffect
<1>3. Grows /\ Final /\ invocations' \in [Keys -> Nat]
  BY <1>1, <1>2, SameGrows, SameFinal, MapsKept
<1>4. OwnInv'
  BY <1>1, <1>2, <1>3, OwnEnd
<1>5. TimeInv'
  BY <1>1, <1>2, TimeSame
<1>6. QuietInv' /\ \A k \in Keys : KeyInv(k)'
  BY <1>1, PanicQuiet
<1>7. panicked' \subseteq overlapped
  BY <1>1, <1>2 DEF CrashesExplained, Quiet
<1> QED BY <1>2, <1>3, <1>4, <1>5, <1>6, <1>7, Assemble

\* A handler may panic only where its invocation is not quiet.
LEMMA PanicExcused ==
  ASSUME IInv, NEW h \in Handlers, Running, Busy(h), Panic(h),
         \/ WorkflowGone(h)
         \/ handler[h].pc \in {"check", "complete"} /\ Gone(h)
         \/ handler[h].pc = "complete" /\ ~(handler[h].idx <= Len(heap[Current(h)].awaits))
  PROVE  IInv'
<1>1. Core /\ Shape
  BY InvIs
<1>2. Frame(h)
  BY <1>1, PanicEffect
<1>3. ~Quiet(Name(Event(h)))
  BY <1>1, <1>2, NoPanic
<1> QED BY <1>3, PanicStep

LEMMA LookupStep ==
  ASSUME IInv, NEW h \in Handlers, Lookup(h)
  PROVE  IInv'
<1>1. Core /\ Shape /\ OwnInv /\ TimeInv
  BY InvIs
<1>2. Frame(h) /\ UNCHANGED <<heap, invocations, panicked>> /\ handler'[h].records = handler[h].records
  BY <1>1, LookupEffect
<1>3. Grows /\ Final /\ invocations' \in [Keys -> Nat] /\ panicked' \subseteq overlapped
  BY <1>1, <1>2, SameGrows, SameFinal, MapsKept, PanickedKept
<1>4. OwnInv'
  BY <1>1, LookupOwn
<1>5. TimeInv'
  BY <1>1, <1>2, TimeSame
<1>6. QuietInv' /\ \A k \in Keys : KeyInv(k)'
  BY <1>1, LookupQuiet
<1> QED BY <1>2, <1>3, <1>4, <1>5, <1>6, Assemble

LEMMA RegisterStep ==
  ASSUME IInv, NEW h \in Handlers, RegisterInvocation(h)
  PROVE  IInv'
<1>1. Core /\ Shape /\ OwnInv /\ TimeInv
  BY InvIs
<1>2. Running /\ Busy(h)
  BY DEF RegisterInvocation, At, Busy
<1>3. CASE WorkflowGone(h)
  BY <1>2, <1>3, PanicExcused DEF RegisterInvocation
<1>4. CASE ~WorkflowGone(h)
  <2>1. Frame(h) /\ UNCHANGED <<invocations, panicked>> /\ heap' = Append(heap, NewInvocation(h))
    BY <1>1, <1>4, RegisterEffect
  <2>2. OwnInv' /\ Grows
    BY <1>1, <1>4, RegisterOwn
  <2>3. invocations' \in [Keys -> Nat] /\ panicked' \subseteq overlapped
    BY <2>1, MapsKept, PanickedKept
  <2>4. Final
    <3>1. \A o \in DOMAIN heap : heap'[o] = heap[o]
      BY <1>1, <2>1, HeapShape
    <3> QED BY <2>1, <3>1 DEF Final
  <2>5. TimeInv'
    BY <1>1, <1>4, RegisterTime
  <2>6. QuietInv' /\ \A k \in Keys : KeyInv(k)'
    BY <1>1, <1>4, RegisterQuiet
  <2> QED BY <2>1, <2>2, <2>3, <2>4, <2>5, <2>6, Assemble
<1> QED BY <1>3, <1>4

LEMMA StoreStep ==
  ASSUME IInv, NEW h \in Handlers, Store(h)
  PROVE  IInv'
<1>1. Core /\ Shape /\ OwnInv /\ TimeInv /\ QuietInv
  BY InvIs DEF Core
<1>2. /\ Frame(h) /\ UNCHANGED <<heap, panicked>> /\ handler'[h].records = handler[h].records /\ handler[h].pc = "store"
      /\ invocations' = [invocations EXCEPT ![Entry(h)] = handler[h].invocation]
  BY <1>1, StoreEffect
<1>3. Grows /\ panicked' \subseteq overlapped
  BY <1>1, <1>2, SameGrows, PanickedKept
<1>4. invocations' \in [Keys -> Nat]
  BY <1>1, <1>2 DEF Shape, Frame, BusyHandler
<1>5. OwnInv'
  BY <1>1, StoreOwn
<1>6. TimeInv'
  BY <1>1, <1>2, TimeSame
<1>7. QuietInv' /\ \A k \in Keys : KeyInv(k)'
  BY <1>1, StoreQuiet
<1>8. Final
  <2>1. ASSUME NEW o \in DOMAIN heap, NEW k \in Keys, heap[o].status = "COMPLETED", invocations'[k] = o, Quiet(NameOf(k))
        PROVE  invocations[k] = o
    <3>1. CASE k # Entry(h)
      BY <1>1, <1>2, <2>1, <3>1 DEF Shape
    <3>2. CASE k = Entry(h)
      <4>1. o = handler[h].invocation
        BY <1>1, <1>2, <2>1, <3>2 DEF Shape
      <4>2. Quiet(Name(Event(h))) /\ Busy(h)
        BY <1>1, <1>2, <2>1, <3>2, KeyNames DEF OwnInv, Holds, Frame
      <4>3. heap[handler[h].invocation] = NewInvocation(h)
        BY <1>1, <1>2, <4>2 DEF QuietInv, Alone, Calm
      <4> QED BY <2>1, <4>1, <4>3 DEF NewInvocation
    <3> QED BY <3>1, <3>2
  <2> QED BY <1>2, <2>1 DEF Final
<1> QED BY <1>2, <1>3, <1>4, <1>5, <1>6, <1>7, <1>8, Assemble

LEMMA CheckStep ==
  ASSUME IInv, NEW h \in Handlers, CheckCompletion(h)
  PROVE  IInv'
<1>1. Core /\ Shape /\ OwnInv /\ TimeInv
  BY InvIs
<1>2. Running /\ Busy(h) /\ handler[h].pc = "check"
  BY DEF CheckCompletion, At, Busy
<1>3. CASE Gone(h)
  BY <1>2, <1>3, PanicExcused DEF CheckCompletion
<1>4. CASE ~Gone(h)
  <2>1. Frame(h) /\ UNCHANGED <<heap, invocations, panicked>> /\ handler'[h].records = handler[h].records
    BY <1>1, <1>4, CheckEffect
  <2>2. Grows /\ Final /\ invocations' \in [Keys -> Nat] /\ panicked' \subseteq overlapped
    BY <1>1, <2>1, SameGrows, SameFinal, MapsKept, PanickedKept
  <2>3. OwnInv'
    BY <1>1, <1>4, CheckOwn
  <2>4. TimeInv'
    BY <1>1, <2>1, TimeSame
  <2>5. QuietInv' /\ \A k \in Keys : KeyInv(k)'
    BY <1>1, <1>4, CheckQuiet
  <2> QED BY <2>1, <2>2, <2>3, <2>4, <2>5, Assemble
<1> QED BY <1>3, <1>4

LEMMA CompleteStep ==
  ASSUME IInv, NEW h \in Handlers, OnCompletionEvent(h)
  PROVE  IInv'
<1>1. Core /\ Shape /\ OwnInv /\ TimeInv
  BY InvIs
<1>2. Running /\ Busy(h) /\ handler[h].pc = "complete" /\ handler[h] \in BusyHandler
  BY <1>1, BusyIs DEF OnCompletionEvent, At, Busy
<1>3. CASE Gone(h)
  BY <1>2, <1>3, PanicExcused DEF OnCompletionEvent
<1>4. CASE ~Gone(h) /\ ~(handler[h].idx <= Len(heap[Current(h)].awaits))
  <2>1. Panic(h)
    BY <1>4 DEF OnCompletionEvent
  <2> QED BY <1>2, <1>4, <2>1, PanicExcused
<1>5. CASE ~Gone(h) /\ handler[h].idx <= Len(heap[Current(h)].awaits)
  <2>1. Frame(h) /\ UNCHANGED <<heap, invocations, panicked>> /\ handler'[h].records = handler[h].records
    BY <1>1, <1>5, CompleteEffect
  <2>2. Grows /\ Final /\ invocations' \in [Keys -> Nat] /\ panicked' \subseteq overlapped
    BY <1>1, <2>1, SameGrows, SameFinal, MapsKept, PanickedKept
  <2>3. OwnInv'
    BY <1>1, <1>5, CompleteOwn
  <2>4. TimeInv'
    BY <1>1, <2>1, TimeSame
  <2>5. QuietInv' /\ \A k \in Keys : KeyInv(k)'
    BY <1>1, <1>5, CompleteQuiet
  <2> QED BY <2>1, <2>2, <2>3, <2>4, <2>5, Assemble
<1> QED BY <1>3, <1>4, <1>5

LEMMA RemoveStep ==
  ASSUME IInv, NEW h \in Handlers, RemoveDescriptor(h)
  PROVE  IInv'
<1>1. Core /\ Shape /\ OwnInv /\ TimeInv
  BY InvIs
<1> DEFINE o == handler[h].target
<1>2. /\ Frame(h) /\ UNCHANGED <<invocations, panicked>> /\ handler'[h].records = handler[h].records /\ Changes(o)
      /\ heap'[o].duration = heap[o].duration /\ heap'[o].status = heap[o].status /\ heap'[o].records = heap[o].records
  BY <1>1, RemoveEffect
<1>3. Final /\ invocations' \in [Keys -> Nat] /\ panicked' \subseteq overlapped
  BY <1>2, WriteFinal, MapsKept, PanickedKept
<1>4. OwnInv' /\ Grows
  BY <1>1, RemoveOwn
<1>5. TimeInv'
  <2>1. TimedObject(heap[o], Len(history), Nows(handler))
    BY <1>1, <1>2 DEF TimeInv, Changes
  <2> QED BY <1>1, <1>2, <2>1, TimeWrite DEF TimedObject
<1>6. QuietInv' /\ \A k \in Keys : KeyInv(k)'
  BY <1>1, RemoveQuiet
<1> QED BY <1>2, <1>3, <1>4, <1>5, <1>6, Assemble

LEMMA DurationStep ==
  ASSUME IInv, NEW h \in Handlers, UpdateDuration(h)
  PROVE  IInv'
<1>1. Core /\ Shape /\ OwnInv /\ TimeInv /\ QuietInv /\ \A k \in Keys : KeyInv(k)
  BY InvIs DEF Core
<1> DEFINE o == handler[h].invocation
<1>2. /\ Frame(h) /\ UNCHANGED <<invocations, panicked>> /\ handler'[h].records = handler[h].records /\ Changes(o)
      /\ heap'[o].duration = Longer(handler[h].seen, handler[h].now) /\ handler[h].pc = "duration"
      /\ heap'[o].status = heap[o].status /\ heap'[o].records = heap[o].records
  BY <1>1, DurationEffect
<1>3. invocations' \in [Keys -> Nat] /\ panicked' \subseteq overlapped
  BY <1>2, MapsKept, PanickedKept
<1>4. OwnInv' /\ Grows
  BY <1>1, DurationOwn
<1>5. Holds(h) /\ Busy(h)
  BY <1>1, <1>2 DEF Frame, OwnInv
<1>6. TimeInv'
  <2>1. /\ handler[h].seen \in Nat /\ handler[h].now \in Nat /\ handler[h].now # 0 /\ Len(history) \in Nat
        /\ handler[h].seen <= Len(history) /\ handler[h].now <= Len(history)
    BY <1>1, <1>5, HeapShape DEF Holds
  <2>2. heap'[o].duration # 0 /\ heap'[o].duration \in {handler[h].seen, handler[h].now}
    BY <1>2, <2>1, LongerFacts
  <2>3. heap'[o].duration \in 0..Len(history)
    BY <2>1, <2>2
  <2> QED BY <1>1, <1>2, <2>2, <2>3, TimeWrite
<1>7. QuietInv' /\ \A k \in Keys : KeyInv(k)'
  BY <1>1, DurationQuiet
<1>8. Final
  <2>1. \A p \in DOMAIN heap : heap[p].status = "COMPLETED" => heap'[p].status = "COMPLETED"
    BY <1>2 DEF Changes
  <2>2. ASSUME NEW p \in DOMAIN heap, NEW k \in Keys, heap[p].status = "COMPLETED", invocations'[k] = p, Quiet(NameOf(k))
        PROVE  heap'[p].duration = heap[p].duration
    <3>1. CASE p # o
      BY <1>2, <3>1 DEF Changes
    <3>2. CASE p = o
      <4>1. o \in Refs(h) /\ o # 0
        BY <1>2, <1>5 DEF Refs, Holds
      <4>2. Quiet(Name(Event(h)))
        BY <1>1, <1>2, <1>5, <2>2, <3>2, <4>1 DEF OwnInv
      <4>3. /\ Calm(handler[h], heap[handler[h].invocation], Key(h), invocations[Key(h)], NewInvocation(h))
            /\ Solo(history, handler[h], Key(h), invocations[Key(h)], heap[invocations[Key(h)]])
        BY <1>1, <1>2, <4>2, SoloNow DEF Alone
      <4>4. invocations[Key(h)] = o
        BY <1>2, <4>3 DEF Calm
      <4>5. Accounts(history, Key(h), heap[o], {handler[h].now}, {handler[h].now}, {}, TRUE)
        BY <1>2, <4>1, <4>3, <4>4, SoloLate
      <4> QED BY <2>2, <3>2, <4>5 DEF Accounts
    <3> QED BY <3>1, <3>2
  <2> QED BY <1>2, <2>1, <2>2 DEF Final
<1> QED BY <1>2, <1>3, <1>4, <1>6, <1>7, <1>8, Assemble

LEMMA StatusStep ==
  ASSUME IInv, NEW h \in Handlers, UpdateStatus(h)
  PROVE  IInv'
<1>1. Core /\ Shape /\ OwnInv /\ TimeInv
  BY InvIs
<1> DEFINE o == handler[h].invocation
<1>2. /\ Frame(h) /\ UNCHANGED <<invocations, panicked>> /\ handler'[h].records = handler[h].records /\ Changes(o)
      /\ heap'[o].status = (IF heap[handler[h].target].awaits = <<>> THEN "COMPLETED" ELSE heap[o].status)
      /\ heap'[o].duration = heap[o].duration /\ heap'[o].records = heap[o].records /\ handler[h].pc = "status"
  BY <1>1, StatusEffect
<1>3. Final /\ invocations' \in [Keys -> Nat] /\ panicked' \subseteq overlapped
  BY <1>2, WriteFinal, MapsKept, PanickedKept
<1>4. OwnInv' /\ Grows
  BY <1>1, StatusOwn
<1>5. TimeInv'
  <2>1. TimedObject(heap[o], Len(history), Nows(handler))
    BY <1>1, <1>2 DEF TimeInv, Changes
  <2>2. heap[o].duration # 0
    BY <1>1, <1>2 DEF Frame, OwnInv, Holds
  <2> QED BY <1>1, <1>2, <2>1, <2>2, TimeWrite DEF TimedObject
<1>6. QuietInv' /\ \A k \in Keys : KeyInv(k)'
  BY <1>1, StatusQuiet
<1> QED BY <1>2, <1>3, <1>4, <1>5, <1>6, Assemble

LEMMA ReadStep ==
  ASSUME IInv, NEW h \in Handlers, ReadRecords(h)
  PROVE  IInv'
<1>1. Core /\ Shape /\ OwnInv /\ TimeInv
  BY InvIs
<1>2. /\ Frame(h) /\ UNCHANGED <<heap, invocations, panicked>> /\ handler[h].pc = "record"
      /\ handler'[h].records = heap[handler[h].invocation].records
  BY <1>1, ReadEffect
<1>3. Grows /\ Final /\ invocations' \in [Keys -> Nat] /\ panicked' \subseteq overlapped
  BY <1>1, <1>2, SameGrows, SameFinal, MapsKept, PanickedKept
<1>4. OwnInv'
  BY <1>1, ReadOwn
<1>5. TimeInv'
  <2>1. handler[h].invocation \in DOMAIN heap
    BY <1>1, <1>2, Places DEF Frame, OwnInv, Holds
  <2>2. Timed(handler'[h].records, Len(history), Nows(handler))
    BY <1>1, <1>2, <2>1 DEF TimeInv, TimedObject
  <2>3. \A o \in DOMAIN heap' : TimedObject(heap'[o], Len(history), Nows(handler'))
    BY <1>1, <1>2, ObjectTimes
  <2> QED BY <1>1, <1>2, <2>2, <2>3, TimeKept
<1>6. QuietInv' /\ \A k \in Keys : KeyInv(k)'
  BY <1>1, ReadQuiet
<1> QED BY <1>2, <1>3, <1>4, <1>5, <1>6, Assemble

LEMMA AppendStep ==
  ASSUME IInv, NEW h \in Handlers, AppendRecord(h)
  PROVE  IInv'
<1>1. Core /\ Shape /\ OwnInv /\ TimeInv
  BY InvIs
<1> DEFINE o == handler[h].invocation
<1>2. /\ Frame(h) /\ UNCHANGED <<invocations, panicked>> /\ Changes(o)
      /\ heap'[o].duration = heap[o].duration /\ heap'[o].status = heap[o].status
  BY <1>1, AppendEffect
<1>3. Final /\ invocations' \in [Keys -> Nat] /\ panicked' \subseteq overlapped
  BY <1>2, WriteFinal, MapsKept, PanickedKept
<1>4. OwnInv' /\ Grows
  BY <1>1, AppendOwn
<1>5. TimeInv'
  BY <1>1, AppendTime
<1>6. QuietInv' /\ \A k \in Keys : KeyInv(k)'
  BY <1>1, AppendQuiet
<1> QED BY <1>2, <1>3, <1>4, <1>5, <1>6, Assemble

-----------------------------------------------------------------------------
(* The steps of the invoker, and the death of the server. *)

LEMMA InitInv ==
  ASSUME Init
  PROVE  IInv
<1>1. Shape
  <2>1. gen = 0 /\ heap = <<>> /\ history = <<>>
    BY DEF Init
  <2>2. gen \in 0..Len(Definitions) /\ heap \in Seq(Invocation) /\ history \in Seq(Delivery)
    BY <2>1, TimeseriesDBAssumption
  <2>3. handler \in [Handlers -> BusyHandler \cup {Idle}] /\ invocations \in [Keys -> Nat]
    BY DEF Init
  <2> QED BY <2>1, <2>2, <2>3 DEF Init, Shape
<1>2. /\ \A h \in Handlers : ~Busy(h) /\ handler[h].pc = "idle"
      /\ DOMAIN heap = {} /\ DOMAIN history = {} /\ \A k \in Keys : invocations[k] = 0
  <2>1. \A h \in Handlers : handler[h].pc = "idle"
    BY DEF Init, Idle
  <2>2. heap = <<>> /\ history = <<>> /\ \A k \in Keys : invocations[k] = 0
    BY DEF Init
  <2> QED BY <2>1, <2>2 DEF Busy
<1>3. InvokerInv /\ ReportInv /\ CrashesExplained
  BY <1>2 DEF Init, InvokerInv, ReportInv, CrashesExplained, Running
<1>4. OwnInv
  BY <1>2, HeapShape, <1>1 DEF OwnInv
<1>5. TimeInv /\ QuietInv
  BY <1>2 DEF TimeInv, QuietInv
<1>6. ASSUME NEW k \in Keys PROVE KeyInv(k)
  <2>1. Workers(handler, gen, k) = {} /\ DeliveredTo(history, k) = {} /\ invocations[k] = 0
    BY <1>2 DEF Workers, DeliveredTo
  <2> QED BY <2>1, EnteredRested DEF Rested, KeyInv
<1> QED BY <1>1, <1>3, <1>4, <1>5, <1>6 DEF IInv

\* Steps that leave handlers, objects and maps alone.
Leaves ==
  /\ UNCHANGED <<invocations, heap, handler, history>>
  /\ Running' => Running

LEMMA LeavesOwn ==
  ASSUME OwnInv, TimeInv, Leaves
  PROVE  OwnInv' /\ TimeInv'
<1>1. /\ invocations' = invocations /\ heap' = heap /\ handler' = handler /\ history' = history
      /\ Running' => Running
  BY DEF Leaves
<1>2. ASSUME NEW h \in Handlers
      PROVE  /\ (Busy(h)' <=> Busy(h)) /\ Event(h)' = Event(h) /\ Refs(h)' = Refs(h) /\ Entry(h)' = Entry(h)
             /\ Unshared(h) => Unshared(h)'
  BY <1>1 DEF Busy, Event, Refs, Entry, Unshared
<1>3. ASSUME NEW h \in Handlers, Holds(h)
      PROVE  Holds(h)'
  BY <1>1, <1>2, <1>3 DEF Holds
<1>4. OwnInv'
  BY <1>1, <1>2, <1>3 DEF OwnInv
<1>5. TimeInv'
  BY <1>1, <1>2 DEF TimeInv
<1> QED BY <1>4, <1>5

LEMMA LeavesQuiet ==
  ASSUME QuietInv, \A k \in Keys : KeyInv(k), Leaves, UNCHANGED <<gen, overlapped>>, workflows \subseteq workflows'
  PROVE  QuietInv' /\ \A k \in Keys : KeyInv(k)'
<1>1. /\ invocations' = invocations /\ heap' = heap /\ handler' = handler /\ history' = history
      /\ gen' = gen /\ overlapped' = overlapped /\ (Running' => Running)
  BY DEF Leaves
<1>2. ASSUME NEW h \in Handlers
      PROVE  /\ (Busy(h)' <=> Busy(h)) /\ Event(h)' = Event(h) /\ Key(h)' = Key(h)
             /\ NewInvocation(h)' = NewInvocation(h) /\ (~WorkflowGone(h) => ~WorkflowGone(h)')
  BY <1>1 DEF Busy, Event, Key, NewInvocation, WorkflowGone
<1>3. ASSUME NEW h \in Handlers, Alone(h)
      PROVE  Alone(h)'
  <2>1. Calm(handler[h], heap[handler[h].invocation], Key(h), invocations[Key(h)], NewInvocation(h))'
    BY <1>1, <1>2, <1>3 DEF Alone
  <2>2. \A j \in Handlers : Busy(j)' /\ Name(Event(j))' = Name(Event(h))' => j = h
    BY <1>2, <1>3 DEF Alone, Name
  <2>3. /\ (Running' => ~WorkflowGone(h)') /\ history'[handler'[h].now].key = Key(h)'
        /\ \A n \in DeliveredTo(history', Key(h)') : n <= handler'[h].now
    BY <1>1, <1>2, <1>3 DEF Alone
  <2> QED BY <2>1, <2>2, <2>3 DEF Alone
<1>4. QuietInv'
  BY <1>1, <1>2, <1>3 DEF QuietInv, Quiet
<1>5. \A k \in Keys : KeyInv(k)'
  BY <1>1 DEF KeyInv, Quiet
<1> QED BY <1>4, <1>5

LEMMA InvokerStep ==
  ASSUME IInv, Leaves, UNCHANGED <<gen, overlapped, panicked>>, workflows \subseteq workflows',
         Shape', InvokerInv', ReportInv', Running' \/ CrashesExplained'
  PROVE  IInv'
<1>1. OwnInv' /\ TimeInv'
  BY InvIs, LeavesOwn
<1>2. QuietInv' /\ \A k \in Keys : KeyInv(k)'
  BY LeavesQuiet DEF IInv
<1>3. CrashesExplained'
  BY InvIs DEF CrashesExplained
<1> QED BY <1>1, <1>2, <1>3 DEF IInv

\* The handlers at work on a step that leaves them alone.
LEMMA LeavesInvoker ==
  ASSUME InvokerInv, Leaves, UNCHANGED gen
  PROVE  /\ \A h \in Handlers : (Busy(h)' <=> Busy(h)) /\ Event(h)' = Event(h)
         /\ \A h \in Handlers : Busy(h)' => Event(h)'.gen <= gen'
BY DEF Leaves, Busy, Event, InvokerInv

LEMMA MapRaceStep ==
  ASSUME IInv, NEW h \in Handlers, MapRace(h)
  PROVE  IInv'
<1>1. Shape /\ InvokerInv /\ ReportInv /\ CrashesExplained
  BY InvIs
<1>2. /\ Running /\ Busy(h) /\ ~Running' /\ cause' = "concurrent map access"
      /\ UNCHANGED <<invoker, db, handler, history, collected, encoded, reported, ghosts>>
  BY DEF MapRace, Running
<1>3. Leaves /\ UNCHANGED <<gen, overlapped, panicked, workflows, collected, encoded, reported, invoker>>
  BY <1>2 DEF Leaves, db, ghosts
<1>4. Shape'
  BY <1>1, <1>2 DEF Shape, db
<1>5. InvokerInv' /\ ReportInv'
  <2>1. InvokerInv'
    BY <1>1, <1>3, LeavesInvoker DEF InvokerInv
  <2> QED BY <1>1, <1>3, <2>1 DEF ReportInv, Leaves, Quiet
<1>6. CrashesExplained'
  <2>1. \/ invoker \in {"ending", "failed"}
        \/ \E k \in Handlers : k # h /\ Busy(k) /\ SharesMap(h, k)
        \/ Event(h).gen < gen
    BY <1>1, <1>2 DEF MapRace, Accesses, Defining, InvokerInv
  <2>2. handler' = handler /\ invoker' = invoker /\ gen' = gen /\ panicked' = panicked /\ overlapped' = overlapped
    BY <1>2, <1>3
  <2>3. \A j \in Handlers : (Busy(j)' <=> Busy(j)) /\ Event(j)' = Event(j) /\ (SharesMap(h, j)' <=> SharesMap(h, j))
    BY <2>2 DEF Busy, SharesMap, Event
  <2> QED BY <1>1, <1>2, <2>1, <2>2, <2>3 DEF CrashesExplained
<1> QED BY <1>3, <1>4, <1>5, <1>6, InvokerStep

LEMMA StutterStep ==
  ASSUME IInv, UNCHANGED vars
  PROVE  IInv'
<1>1. Shape /\ InvokerInv /\ ReportInv /\ CrashesExplained
  BY InvIs
<1>2. /\ UNCHANGED <<invoker, gen, workflows, invocations, heap, handler, history, collected, encoded, reported>>
      /\ UNCHANGED <<overlapped, panicked, cause>>
  BY DEF vars, db, ghosts
<1>3. Shape' /\ InvokerInv' /\ ReportInv' /\ Leaves
  BY <1>1, <1>2 DEF Shape, InvokerInv, ReportInv, Leaves, Running, Quiet, Busy, Event
<1>4. CrashesExplained'
  BY <1>1, <1>2 DEF CrashesExplained, Running, Busy, Event, SharesMap
<1> QED BY <1>2, <1>3, <1>4, InvokerStep

LEMMA RunningInvoker ==
  ASSUME IInv, Timeout \/ EndExperiment \/ (\E o \in collected : EncodeDuration(o)) \/ EncodeStatus \/ End
               \/ \E w \in Workflows : DefineWorkflow(w)
  PROVE  Running /\ Running' /\ Leaves /\ UNCHANGED <<gen, overlapped, panicked, cause>> /\ workflows \subseteq workflows'
BY DEF Timeout, EndExperiment, EncodeDuration, EncodeStatus, End, DefineWorkflow, db, ghosts, Leaves, Running

\* The invoker moves between states in which the experiment is defined.
LEMMA InvokerMoves ==
  ASSUME Shape, InvokerInv, Leaves, UNCHANGED <<gen, workflows, cause>>,
         invoker \in {"loop", "ending", "replying", "done", "failed"},
         invoker' \in {"loop", "ending", "replying", "done", "failed"}
  PROVE  Shape' /\ InvokerInv'
<1>1. Shape'
  BY DEF Shape, Leaves
<1>2. InvokerInv'
  BY LeavesInvoker DEF InvokerInv
<1> QED BY <1>1, <1>2

LEMMA TimeoutStep ==
  ASSUME IInv, Timeout
  PROVE  IInv'
<1>1. Shape /\ InvokerInv /\ ReportInv
  BY InvIs
<1>2. /\ Running /\ Running' /\ Leaves /\ UNCHANGED <<gen, overlapped, panicked, cause>> /\ workflows \subseteq workflows'
      /\ UNCHANGED <<workflows, collected, encoded, reported>> /\ invoker = "loop" /\ invoker' = "ending"
  BY RunningInvoker DEF Timeout, db
<1>3. Shape' /\ InvokerInv'
  BY <1>1, <1>2, InvokerMoves
<1>4. ReportInv'
  BY <1>1, <1>2 DEF ReportInv, Leaves, Quiet
<1> QED BY <1>2, <1>3, <1>4, InvokerStep

LEMMA EndExperimentStep ==
  ASSUME IInv, EndExperiment
  PROVE  IInv'
<1>1. Shape /\ InvokerInv /\ ReportInv /\ OwnInv
  BY InvIs
<1>2. /\ Running /\ Running' /\ Leaves /\ UNCHANGED <<gen, overlapped, panicked, cause>> /\ workflows \subseteq workflows'
      /\ UNCHANGED <<workflows, encoded, reported>> /\ invoker = "ending" /\ invoker' = "replying"
      /\ collected' = Registered
  BY RunningInvoker DEF EndExperiment, db
<1>3. collected' \subseteq DOMAIN heap
  BY <1>1, <1>2, HeapShape DEF Registered, OwnInv
<1>4. Shape' /\ InvokerInv'
  BY <1>1, <1>2, InvokerMoves
<1>5. ReportInv'
  BY <1>1, <1>2, <1>3 DEF ReportInv, Leaves, Quiet
<1> QED BY <1>2, <1>4, <1>5, InvokerStep

LEMMA EncodeDurationStep ==
  ASSUME IInv, NEW o \in collected, EncodeDuration(o)
  PROVE  IInv'
<1>1. Shape /\ InvokerInv /\ ReportInv /\ TimeInv
  BY InvIs
<1>2. /\ Running /\ Running' /\ Leaves /\ UNCHANGED <<gen, overlapped, panicked, cause>> /\ workflows \subseteq workflows'
  BY RunningInvoker
<1>3. /\ UNCHANGED <<workflows, invoker, reported>> /\ invoker = "replying" /\ collected' \subseteq collected
      /\ encoded' = {[of |-> o, duration |-> heap[o].duration, was |-> heap[o].status]}
  BY DEF EncodeDuration, db
<1>4. o \in DOMAIN heap /\ (heap[o].status = "COMPLETED" => heap[o].duration # 0)
  BY <1>1 DEF ReportInv, TimeInv, TimedObject
<1>5. Shape' /\ InvokerInv'
  BY <1>1, <1>2, <1>3, InvokerMoves
<1>6. ASSUME NEW r \in encoded' \cup reported'
      PROVE  /\ r.of \in DOMAIN heap
             /\ r.was = "COMPLETED" =>
                  /\ heap[r.of].status = "COMPLETED" /\ r.duration # 0
                  /\ \A k \in Keys : invocations[k] = r.of /\ Quiet(NameOf(k)) => heap[r.of].duration = r.duration
  <2>1. CASE r \in reported
    BY <1>1, <2>1 DEF ReportInv
  <2>2. CASE r \in encoded'
    <3>1. r.of = o /\ r.duration = heap[o].duration /\ r.was = heap[o].status
      BY <1>3, <2>2
    <3> QED BY <1>4, <3>1
  <2> QED BY <1>3, <1>6, <2>1, <2>2
<1>7. ReportInv'
  BY <1>1, <1>2, <1>3, <1>6 DEF ReportInv, Leaves, Quiet
<1> QED BY <1>2, <1>5, <1>7, InvokerStep

LEMMA EncodeStatusStep ==
  ASSUME IInv, EncodeStatus
  PROVE  IInv'
<1>1. Shape /\ InvokerInv /\ ReportInv
  BY InvIs
<1>2. /\ Running /\ Running' /\ Leaves /\ UNCHANGED <<gen, overlapped, panicked, cause>> /\ workflows \subseteq workflows'
  BY RunningInvoker
<1>3. /\ UNCHANGED <<workflows, invoker, collected>> /\ invoker = "replying"
      /\ encoded' \cup reported' \subseteq encoded \cup reported
  BY DEF EncodeStatus, db
<1>4. Shape' /\ InvokerInv'
  BY <1>1, <1>2, <1>3, InvokerMoves
<1>5. ReportInv'
  BY <1>1, <1>2, <1>3 DEF ReportInv, Leaves, Quiet
<1> QED BY <1>2, <1>4, <1>5, InvokerStep

LEMMA EndStep ==
  ASSUME IInv, End
  PROVE  IInv'
<1>1. Shape /\ InvokerInv /\ ReportInv
  BY InvIs
<1>2. /\ Running /\ Running' /\ Leaves /\ UNCHANGED <<gen, overlapped, panicked, cause>> /\ workflows \subseteq workflows'
      /\ UNCHANGED <<workflows, collected, encoded, reported>> /\ invoker = "replying" /\ invoker' = "done"
  BY RunningInvoker DEF End, db
<1>3. Shape' /\ InvokerInv'
  BY <1>1, <1>2, InvokerMoves
<1>4. ReportInv'
  BY <1>1, <1>2 DEF ReportInv, Leaves, Quiet
<1> QED BY <1>2, <1>3, <1>4, InvokerStep

LEMMA DefineStep ==
  ASSUME IInv, NEW w \in Workflows, DefineWorkflow(w)
  PROVE  IInv'
<1>1. Shape /\ InvokerInv /\ ReportInv
  BY InvIs
<1>2. /\ Running /\ Running' /\ Leaves /\ UNCHANGED <<gen, overlapped, panicked, cause>> /\ workflows \subseteq workflows'
      /\ UNCHANGED <<collected, encoded, reported>> /\ invoker \in {"starting", "abandoned"}
      /\ w \in DOMAIN Definitions[gen] /\ workflows' = workflows \cup {w}
      /\ invoker' = IF invoker = "starting" /\ workflows' = DOMAIN Definitions[gen] THEN "loop" ELSE invoker
  BY RunningInvoker DEF DefineWorkflow, Defining
<1>3. Shape'
  BY <1>1, <1>2 DEF Shape, Leaves
<1>4. InvokerInv'
  BY <1>1, <1>2, LeavesInvoker DEF InvokerInv
<1>5. ReportInv'
  BY <1>1, <1>2 DEF ReportInv, Leaves, Quiet
<1> QED BY <1>2, <1>3, <1>4, <1>5, InvokerStep

LEMMA FatalStep ==
  ASSUME IInv, InvokerFatal
  PROVE  IInv'
<1>1. Shape /\ InvokerInv /\ ReportInv /\ CrashesExplained
  BY InvIs
<1>2. /\ invoker \in {"starting", "loop", "ending", "replying"} /\ (invoker = "loop" => ~Running)
      /\ invoker' = IF invoker = "starting" THEN "abandoned" ELSE "failed"
      /\ UNCHANGED <<gen, workflows, collected, encoded, reported, overlapped, panicked, cause>>
  BY DEF InvokerFatal, db, ghosts
<1>3. Leaves /\ (Running' <=> Running)
  BY DEF InvokerFatal, db, Leaves, Running
<1>4. Shape'
  BY <1>1, <1>2, <1>3 DEF Shape, Leaves
<1>5. InvokerInv'
  BY <1>1, <1>2, <1>3, LeavesInvoker DEF InvokerInv
<1>6. ReportInv'
  BY <1>1, <1>2, <1>3 DEF ReportInv, Leaves, Quiet
<1>7. CrashesExplained'
  <2>1. \A h, j \in Handlers : (Busy(h)' <=> Busy(h)) /\ Event(h)' = Event(h) /\ (SharesMap(h, j)' <=> SharesMap(h, j))
    BY <1>3 DEF Leaves, Busy, Event, SharesMap
  <2> QED BY <1>1, <1>2, <1>3, <2>1 DEF CrashesExplained
<1> QED BY <1>2, <1>3, <1>4, <1>5, <1>6, <1>7, InvokerStep

LEMMA StartStep ==
  ASSUME IInv, StartExperiment
  PROVE  IInv'
<1>1. Shape /\ InvokerInv /\ ReportInv /\ OwnInv /\ TimeInv /\ CrashesExplained /\ \A k \in Keys : KeyInv(k)
  BY InvIs DEF IInv
<1>2. /\ Running /\ Running' /\ gen + 1 \in Gens /\ invoker' = "starting" /\ gen' = gen + 1 /\ workflows' = {}
      /\ collected' = {} /\ encoded' = {} /\ reported' = {} /\ UNCHANGED <<invocations, heap, handler, history, panicked, cause>>
      /\ overlapped' = overlapped \cup {Name(Event(h)) : h \in {k \in Handlers : Busy(k)}}
  BY DEF StartExperiment, Running
<1>3. Shape'
  <2>1. gen \in 0..Len(Definitions) /\ gen + 1 \in 1..Len(Definitions)
    BY <1>1, <1>2, TimeseriesDBAssumption DEF Shape
  <2>2. gen' \in 0..Len(Definitions) /\ gen' # 0
    BY <1>2, <2>1
  <2> QED BY <1>1, <1>2, <2>2 DEF Shape
<1>4. InvokerInv' /\ ReportInv' /\ CrashesExplained'
  <2>1. ASSUME NEW h \in Handlers, Busy(h)'
        PROVE  Event(h)'.gen <= gen' /\ Event(h)'.gen < gen'
    <3>1. Busy(h) /\ Event(h)' = Event(h) /\ Event(h).gen <= gen
      BY <1>1, <1>2, <2>1 DEF Busy, Event, InvokerInv
    <3>2. Event(h) \in Events
      BY <1>1, <3>1, BusyIs DEF BusyHandler, Event
    <3>3. Event(h).gen \in Int
      BY <3>2, TimeseriesDBAssumption
    <3>4. gen \in Int
      <4>1. gen \in 0..Len(Definitions)
        BY <1>1 DEF Shape
      <4>2. Len(Definitions) \in Nat
        BY TimeseriesDBAssumption
      <4> QED BY <4>1, <4>2
    <3> QED BY <1>2, <3>1, <3>3, <3>4
  <2>2. InvokerInv'
    BY <1>2, <2>1 DEF InvokerInv
  <2> QED BY <1>1, <1>2, <2>2 DEF ReportInv, CrashesExplained
<1>5. OwnInv' /\ TimeInv'
  BY <1>1, <1>2, LeavesOwn DEF Leaves
<1>6. QuietInv'
  BY <1>2 DEF QuietInv, Quiet, Busy, Event
<1>7. ASSUME NEW k \in Keys PROVE KeyInv(k)'
  <2> SUFFICES ASSUME Quiet(NameOf(k))'
               PROVE  Entered(history, handler, Workers(handler, gen', k), k, invocations[k], heap[invocations[k]])
    BY <1>2 DEF KeyInv
  <2>1. Quiet(NameOf(k)) /\ \A h \in Handlers : Busy(h) => Name(Event(h)) # NameOf(k)
    BY <1>2 DEF Quiet
  <2>2. Workers(handler, gen, k) = {} /\ Workers(handler, gen', k) = {}
    BY <2>1 DEF Workers, Busy, Event, Name, NameOf
  <2> QED BY <1>1, <2>1, <2>2 DEF KeyInv
<1> QED BY <1>3, <1>4, <1>5, <1>6, <1>7 DEF IInv

-----------------------------------------------------------------------------
(* An event arrives. *)

\* What RegisterEvent does, field by field.
LEMMA ArriveEffect ==
  ASSUME IInv, NEW h \in Handlers, NEW e \in Events, RegisterEvent(h, e)
  PROVE  /\ Running /\ ~Busy(h) /\ Delivered(e) /\ gen \in Gens /\ <<gen, e.wf, e.inv>> \in Gens \X Workflows \X Invocations
         /\ [key |-> <<gen, e.wf, e.inv>>, attrs |-> e.attrs] \in Delivery
         /\ history' = Append(history, [key |-> <<gen, e.wf, e.inv>>, attrs |-> e.attrs])
         /\ NewHandler(e) \in BusyHandler /\ handler'[h] = NewHandler(e)
         /\ handler' \in [Handlers -> BusyHandler \cup {Idle}]
         /\ \A j \in Handlers : j # h => handler'[j] = handler[j]
         /\ UNCHANGED <<invoker, gen, workflows, invocations, heap, collected, encoded, reported, panicked>>
<1>1. Shape
  BY InvIs
<1>2. /\ e.gen \in Gens /\ e.wf \in Workflows /\ e.inv \in Invocations /\ e.attrs \in SUBSET Attributes
      /\ Gens = 1..Len(Definitions) /\ Len(Definitions) \in Nat
  BY TimeseriesDBAssumption
<1>3. Running /\ ~Busy(h) /\ Delivered(e)
  BY DEF RegisterEvent, At, Busy
<1>4. gen \in Gens
  <2>1. gen \in 0..Len(Definitions) /\ (e.gen < gen \/ e.gen = gen)
    BY <1>1, <1>3 DEF Shape, Delivered
  <2> QED BY <1>2, <2>1
<1>5. [key |-> <<gen, e.wf, e.inv>>, attrs |-> e.attrs] \in Delivery
  BY <1>2, <1>4 DEF Delivery
<1>6. NewHandler(e) \in BusyHandler
  <2>1. Len(history) + 1 \in Nat /\ <<>> \in Descriptors /\ <<>> \in Seq(Record)
    BY <1>1, HeapShape DEF Descriptors
  <2>2. <<gen, e.wf>> \in Gens \X Workflows
    BY <1>2, <1>4
  <2> QED BY <2>1, <2>2 DEF NewHandler, BusyHandler, BusyLabels
<1>7. Update(h, NewHandler(e))
  BY DEF RegisterEvent
<1>8. /\ handler' \in [Handlers -> BusyHandler \cup {Idle}] /\ handler'[h] = NewHandler(e)
      /\ \A j \in Handlers : j # h => handler'[j] = handler[j]
  BY <1>1, <1>6, <1>7, UpdateFacts
<1> QED BY <1>2, <1>3, <1>4, <1>5, <1>6, <1>8 DEF RegisterEvent, db

\* The fields of the handler that has just started, and the longer history.
LEMMA ArriveFields ==
  ASSUME IInv, NEW h \in Handlers, NEW e \in Events, RegisterEvent(h, e)
  PROVE  /\ Busy(h)' /\ Event(h)' = e /\ Refs(h)' = {} /\ Entry(h)' = <<gen, e.wf, e.inv>> /\ Key(h)' = <<gen, e.wf, e.inv>>
         /\ handler'[h].pc = "lookup" /\ handler'[h].now = Len(history) + 1 /\ handler'[h].workflow = <<gen, e.wf>>
         /\ handler'[h].seen = 0 /\ handler'[h].records = <<>> /\ handler'[h].isCompletion = FALSE
         /\ Len(history) \in Nat /\ Len(history') = Len(history) + 1 /\ DOMAIN history' = 1..(Len(history) + 1)
         /\ history'[Len(history) + 1] = [key |-> <<gen, e.wf, e.inv>>, attrs |-> e.attrs]
         /\ \A n \in 1..Len(history) : history'[n] = history[n]
<1>1. handler'[h] = NewHandler(e) /\ gen' = gen
  BY ArriveEffect
<1>2. /\ handler'[h].pc = "lookup" /\ handler'[h].now = Len(history) + 1 /\ handler'[h].workflow = <<gen, e.wf>>
      /\ handler'[h].seen = 0 /\ handler'[h].records = <<>> /\ handler'[h].isCompletion = FALSE
      /\ handler'[h].event = e /\ handler'[h].invocation = 0 /\ handler'[h].target = 0
  BY <1>1 DEF NewHandler
<1>3. Busy(h)' /\ Event(h)' = e /\ Refs(h)' = {} /\ Entry(h)' = <<gen, e.wf, e.inv>> /\ Key(h)' = <<gen, e.wf, e.inv>>
  BY <1>1, <1>2 DEF Busy, Event, Refs, Entry, Key
<1> DEFINE d == [key |-> <<gen, e.wf, e.inv>>, attrs |-> e.attrs]
<1>4. history \in Seq(Delivery) /\ Len(history) \in Nat /\ d \in Delivery /\ history' = Append(history, d)
  BY InvIs, HeapShape, ArriveEffect
<1> HIDE DEF d
<1>5. /\ Len(history') = Len(history) + 1 /\ DOMAIN history' = 1..(Len(history) + 1)
      /\ history'[Len(history) + 1] = d /\ \A n \in 1..Len(history) : history'[n] = history[n]
  BY <1>4
<1> QED BY <1>2, <1>3, <1>4, <1>5 DEF d

LEMMA ArriveOthers ==
  ASSUME IInv, NEW h \in Handlers, NEW e \in Events, RegisterEvent(h, e), NEW j \in Handlers, j # h
  PROVE  /\ handler'[j] = handler[j] /\ (Busy(j)' <=> Busy(j)) /\ Event(j)' = Event(j) /\ Refs(j)' = Refs(j)
         /\ Entry(j)' = Entry(j) /\ Key(j)' = Key(j) /\ NewInvocation(j)' = NewInvocation(j)
<1>1. handler'[j] = handler[j] /\ gen' = gen
  BY ArriveEffect
<1> QED BY <1>1 DEF Busy, Event, Refs, Entry, Key, NewInvocation

\* A map entry of the experiment that the server has, or else the server dies.
LEMMA ArriveKey ==
  ASSUME IInv, NEW h \in Handlers, NEW e \in Events, RegisterEvent(h, e)
  PROVE  /\ Running' <=> e.wf \in workflows
         /\ e.wf \in workflows => <<gen, e.wf, e.inv>> \in Keys
<1>1. Running' <=> e.wf \in workflows
  BY DEF RegisterEvent, Running
<1>2. gen \in Gens /\ e.inv \in Invocations /\ Shape /\ Gens = 1..Len(Definitions) /\ Len(Definitions) \in Nat
  BY ArriveEffect, InvIs, TimeseriesDBAssumption
<1>3. workflows \subseteq DOMAIN Definitions[gen]
  BY <1>2 DEF Shape
<1> QED BY <1>1, <1>2, <1>3 DEF Keys

LEMMA ArriveOwn ==
  ASSUME IInv, NEW h \in Handlers, NEW e \in Events, RegisterEvent(h, e)
  PROVE  OwnInv'
<1>0. OwnInv /\ Shape
  BY InvIs
<1>1. invocations' = invocations /\ heap' = heap /\ Running
  BY ArriveEffect
<1>2. ASSUME NEW j \in Handlers, Busy(j)'
      PROVE  Holds(j)'
  <2>1. CASE j = h
    <3>1. /\ Event(h)' = e /\ Refs(h)' = {} /\ Entry(h)' = <<gen, e.wf, e.inv>> /\ handler'[h].pc = "lookup"
          /\ handler'[h].now = Len(history) + 1 /\ handler'[h].workflow = <<gen, e.wf>> /\ handler'[h].seen = 0
          /\ Len(history) \in Nat /\ Len(history') = Len(history) + 1
          /\ history'[Len(history) + 1] = [key |-> <<gen, e.wf, e.inv>>, attrs |-> e.attrs]
      BY ArriveFields
    <3>2. Running' => Entry(h)' \in Keys
      BY <3>1, ArriveKey
    <3>3. /\ handler'[h].now \in 1..Len(history') /\ handler'[h].seen \in 0..Len(history')
          /\ history'[handler'[h].now].attrs = Event(h)'.attrs /\ handler'[h].workflow[2] = Event(h)'.wf
      BY <3>1
    <3> QED BY <2>1, <3>1, <3>2, <3>3 DEF Holds
  <2>2. CASE j # h
    <3>1. Holds(j) /\ handler'[j] = handler[j] /\ Event(j)' = Event(j) /\ Refs(j)' = Refs(j) /\ Entry(j)' = Entry(j)
      BY <1>0, <1>2, <2>2, ArriveOthers DEF OwnInv
    <3>2. /\ handler'[j].now \in 1..Len(history') /\ handler'[j].seen \in 0..Len(history')
          /\ history'[handler'[j].now].attrs = Event(j)'.attrs
      <4>1. handler[j].now \in 1..Len(history) /\ handler[j].seen \in 0..Len(history)
            /\ history[handler[j].now].attrs = Event(j).attrs
        BY <3>1 DEF Holds
      <4>2. Len(history) \in Nat /\ Len(history') = Len(history) + 1 /\ \A n \in 1..Len(history) : history'[n] = history[n]
        BY ArriveFields
      <4> QED BY <3>1, <4>1, <4>2
    <3> QED BY <1>1, <3>1, <3>2 DEF Holds
  <2> QED BY <2>1, <2>2
<1>3. ASSUME NEW j \in Handlers, Busy(j)'
      PROVE  Unshared(j)'
  <2>1. CASE j = h
    BY <2>1, ArriveFields DEF Unshared
  <2>2. CASE j # h
    <3>1. Unshared(j) /\ handler'[j] = handler[j]
      BY <1>0, <1>3, <2>2, ArriveOthers DEF OwnInv
    <3>2. \A i \in Handlers : Busy(i)' => (Busy(i) /\ Refs(i)' = Refs(i)) \/ Refs(i)' = {}
      BY ArriveOthers, ArriveFields
    <3> QED BY <1>1, <3>1, <3>2 DEF Unshared
  <2> QED BY <2>1, <2>2
<1>4. \A j \in Handlers : Busy(j)' => (Busy(j) /\ Refs(j)' = Refs(j) /\ Event(j)' = Event(j)) \/ Refs(j)' = {}
  BY ArriveOthers, ArriveFields
<1>5. /\ \A k \in Keys : invocations[k] \in 0..Len(heap)
      /\ \A k, l \in Keys : invocations[k] = invocations[l] => k = l \/ invocations[k] = 0
      /\ \A i \in Handlers, k \in Keys : Busy(i) /\ invocations[k] \in Refs(i) => NameOf(k) = Name(Event(i))
      /\ \A i, j \in Handlers : Busy(i) /\ Busy(j) /\ Refs(i) \cap Refs(j) # {} => Name(Event(i)) = Name(Event(j))
  BY <1>0 DEF OwnInv
<1>6. \A i \in Handlers, k \in Keys : Busy(i)' /\ invocations[k] \in Refs(i)' => NameOf(k) = Name(Event(i))'
  BY <1>4, <1>5 DEF Name
<1>7. \A i, j \in Handlers : Busy(i)' /\ Busy(j)' /\ Refs(i)' \cap Refs(j)' # {} => Name(Event(i))' = Name(Event(j))'
  BY <1>4, <1>5 DEF Name
<1> QED BY <1>1, <1>2, <1>3, <1>5, <1>6, <1>7 DEF OwnInv

LEMMA ArriveTime ==
  ASSUME IInv, NEW h \in Handlers, NEW e \in Events, RegisterEvent(h, e)
  PROVE  TimeInv'
<1> DEFINE n == Len(history)
<1>0. TimeInv /\ OwnInv /\ n \in Nat /\ n + 1 \in Nat /\ n <= n + 1 /\ Len(history') = n + 1 /\ heap' = heap
  <2>1. TimeInv /\ OwnInv /\ heap' = heap
    BY InvIs, ArriveEffect
  <2>2. n \in Nat /\ Len(history') = n + 1
    BY ArriveFields
  <2> QED BY <2>1, <2>2
<1>h. handler'[h].now = n + 1
  BY ArriveFields
<1>1. \A x \in Nows(handler') : x \in Nows(handler) \/ x > n
  <2>1. ASSUME NEW j \in Handlers, handler'[j].pc # "idle"
        PROVE  handler'[j].now \in Nows(handler) \/ handler'[j].now > n
    <3>1. CASE j = h
      BY <1>0, <1>h, <3>1
    <3>2. CASE j # h
      BY <2>1, <3>2, ArriveOthers DEF Nows
    <3> QED BY <3>1, <3>2
  <2> QED BY <2>1 DEF Nows
<1>2. ASSUME NEW rs, Timed(rs, n, Nows(handler)) PROVE Timed(rs, n + 1, Nows(handler'))
  <2> HIDE DEF n
  <2> QED BY <1>0, <1>1, <1>2, TimedLess
<1>3. \A o \in DOMAIN heap : TimedObject(heap[o], n + 1, Nows(handler'))
  BY <1>0, <1>2 DEF TimeInv, TimedObject
<1>4. ASSUME NEW j \in Handlers, Busy(j)' PROVE Timed(handler'[j].records, n + 1, Nows(handler'))
  <2>1. CASE j = h
    <3>1. handler'[j].records = <<>>
      BY <2>1, ArriveFields
    <3>2. TimesOf(<<>>) = {}
      BY DEF TimesOf
    <3>3. Len(<<>>) = Cardinality({})
      BY FS_EmptySet
    <3> QED BY <3>1, <3>2, <3>3 DEF Timed
  <2>2. CASE j # h
    BY <1>0, <1>2, <1>4, <2>2, ArriveOthers DEF TimeInv
  <2> QED BY <2>1, <2>2
<1>5. \A j \in Handlers : j # h /\ Busy(j) => handler[j].now < n + 1
  BY <1>0 DEF OwnInv, Holds
<1>6. ASSUME NEW i \in Handlers, NEW j \in Handlers, Busy(i)', Busy(j)', i # j
      PROVE  handler'[i].now # handler'[j].now
  <2>1. CASE i = h
    <3>1. Busy(j) /\ handler'[j].now = handler[j].now
      BY <1>6, <2>1, ArriveOthers
    <3> QED BY <1>0, <1>h, <1>5, <1>6, <2>1, <3>1
  <2>2. CASE j = h
    <3>1. Busy(i) /\ handler'[i].now = handler[i].now
      BY <1>6, <2>2, ArriveOthers
    <3> QED BY <1>0, <1>h, <1>5, <1>6, <2>2, <3>1
  <2>3. CASE i # h /\ j # h
    BY <1>0, <1>6, <2>3, ArriveOthers DEF TimeInv
  <2> QED BY <2>1, <2>2, <2>3
<1> QED BY <1>0, <1>3, <1>4, <1>6 DEF TimeInv

\* A name that is quiet after the arrival is that of no other handler than h.
LEMMA ArriveAlone ==
  ASSUME IInv, NEW h \in Handlers, NEW e \in Events, RegisterEvent(h, e)
  PROVE  /\ overlapped \subseteq overlapped'
         /\ Quiet(Name(e))' => \A j \in Handlers : Busy(j) => Name(Event(j)) # Name(e)
BY DEF RegisterEvent, Quiet

LEMMA ArriveQuiet ==
  ASSUME IInv, NEW h \in Handlers, NEW e \in Events, RegisterEvent(h, e)
  PROVE  QuietInv'
<1>0. OwnInv /\ QuietInv /\ Running /\ heap' = heap /\ invocations' = invocations /\ workflows' = workflows /\ ~Busy(h)
  BY InvIs, ArriveEffect DEF IInv
<1> SUFFICES ASSUME NEW j \in Handlers, Busy(j)', Quiet(Name(Event(j)))'
             PROVE  Alone(j)'
  BY DEF QuietInv
<1>1. CASE j = h
  <2>1. /\ Event(h)' = e /\ Key(h)' = <<gen, e.wf, e.inv>> /\ history'[handler'[h].now].key = Key(h)'
        /\ handler'[h].pc = "lookup" /\ handler'[h].workflow = <<gen, e.wf>> /\ handler'[h].isCompletion = FALSE
    <3>1. /\ Event(h)' = e /\ Key(h)' = <<gen, e.wf, e.inv>> /\ handler'[h].now = Len(history) + 1
          /\ handler'[h].pc = "lookup" /\ handler'[h].workflow = <<gen, e.wf>> /\ handler'[h].isCompletion = FALSE
          /\ history'[Len(history) + 1] = [key |-> <<gen, e.wf, e.inv>>, attrs |-> e.attrs]
      BY ArriveFields
    <3> QED BY <3>1
  <2>2. Running' => ~WorkflowGone(h)'
    BY <1>0, <2>1, ArriveKey DEF WorkflowGone
  <2>3. \A i \in Handlers : Busy(i)' /\ Name(Event(i))' = Name(Event(h))' => i = h
    BY <1>1, <2>1, ArriveAlone, ArriveOthers
  <2>4. Calm(handler[h], heap[handler[h].invocation], Key(h), invocations[Key(h)], NewInvocation(h))'
    BY <2>1 DEF Calm
  <2>5. \A n \in DeliveredTo(history', Key(h)') : n <= handler'[h].now
    <3>1. handler'[h].now = Len(history) + 1 /\ Len(history) \in Nat /\ DOMAIN history' = 1..(Len(history) + 1)
      BY ArriveFields
    <3> QED BY <3>1 DEF DeliveredTo
  <2> QED BY <1>1, <2>1, <2>2, <2>3, <2>4, <2>5 DEF Alone
<1>2. CASE j # h
  <2>1. /\ handler'[j] = handler[j] /\ Busy(j) /\ Event(j)' = Event(j) /\ Key(j)' = Key(j)
        /\ NewInvocation(j)' = NewInvocation(j)
    BY <1>2, ArriveOthers
  <2>2. Quiet(Name(Event(j)))
    BY <2>1, ArriveAlone DEF Quiet
  <2>3. Alone(j) /\ Holds(j)
    BY <1>0, <2>1, <2>2 DEF QuietInv, OwnInv
  <2>4. Running' => ~WorkflowGone(j)'
    BY <1>0, <2>1, <2>3 DEF WorkflowGone, Alone
  <2>5. history'[handler'[j].now].key = Key(j)'
    BY <2>1, <2>3, ArriveFields DEF Alone, Holds
  <2>6. \A i \in Handlers : Busy(i)' /\ Name(Event(i))' = Name(Event(j))' => i = j
    <3>1. Event(h)' = e /\ Name(e) # Name(Event(j))
      BY <2>1, ArriveAlone, ArriveFields
    <3> QED BY <2>1, <2>3, <3>1, ArriveOthers DEF Alone
  <2>7. Calm(handler[j], heap[handler[j].invocation], Key(j), invocations[Key(j)], NewInvocation(j))'
    BY <1>0, <2>1, <2>3 DEF Alone
  <2>8. ASSUME NEW n \in DeliveredTo(history', Key(j)')
        PROVE  n <= handler'[j].now
    <3>1. /\ Len(history) \in Nat /\ DOMAIN history' = 1..(Len(history) + 1)
          /\ history'[Len(history) + 1] = [key |-> <<gen, e.wf, e.inv>>, attrs |-> e.attrs]
          /\ \A x \in 1..Len(history) : history'[x] = history[x]
      BY ArriveFields
    <3>2. <<gen, e.wf, e.inv>> # Key(j)
      BY <2>1, ArriveAlone, ArriveFields DEF Key, Name
    <3>3. DOMAIN history = 1..Len(history)
      BY InvIs, HeapShape
    <3>4. n \in 1..(Len(history) + 1) /\ history'[n].key = Key(j)
      BY <2>1, <2>8, <3>1 DEF DeliveredTo
    <3>5. n # Len(history) + 1
      BY <3>1, <3>2, <3>4
    <3>6. n \in DeliveredTo(history, Key(j))
      BY <3>1, <3>3, <3>4, <3>5 DEF DeliveredTo
    <3> QED BY <2>1, <2>3, <3>6 DEF Alone
  <2> QED BY <2>4, <2>5, <2>6, <2>7, <2>8 DEF Alone
<1> QED BY <1>1, <1>2

\* The records of an entry, and the completions that its handlers count, are of times
\* that were taken.
LEMMA EnteredTimes ==
  ASSUME IInv, NEW k \in Keys, invocations[k] # 0
  PROVE  /\ TimesOf(heap[invocations[k]].records) \subseteq 1..Len(history)
         /\ NowOf(handler, {h \in Workers(handler, gen, k) : Removed(handler[h])}) \subseteq 1..Len(history)
<1>1. Shape /\ OwnInv /\ TimeInv
  BY InvIs
<1>2. invocations[k] \in DOMAIN heap
  BY <1>1, HeapShape DEF OwnInv
<1>3. TimesOf(heap[invocations[k]].records) \subseteq 1..Len(history)
  BY <1>1, <1>2 DEF TimeInv, TimedObject, Timed
<1>4. \A h \in Workers(handler, gen, k) : handler[h].now \in 1..Len(history)
  BY <1>1 DEF Workers, OwnInv, Holds, Busy
<1> QED BY <1>3, <1>4 DEF NowOf

LEMMA ArriveKeys ==
  ASSUME IInv, NEW h \in Handlers, NEW e \in Events, RegisterEvent(h, e), NEW k \in Keys
  PROVE  KeyInv(k)'
<1>0. KeyInv(k) /\ Shape /\ OwnInv /\ TimeInv
  BY InvIs DEF IInv
<1> SUFFICES ASSUME Quiet(NameOf(k))'
             PROVE  Entered(history', handler', Workers(handler', gen', k), k, invocations'[k], heap'[invocations'[k]])
  BY DEF KeyInv
<1>1. Quiet(NameOf(k))
  BY ArriveAlone DEF Quiet
<1> DEFINE d == [key |-> <<gen, e.wf, e.inv>>, attrs |-> e.attrs]
           hs == Workers(handler, gen, k)
           o == invocations[k]
<1>2. /\ d \in Delivery /\ history' = Append(history, d) /\ ~Busy(h) /\ gen' = gen
      /\ invocations' = invocations /\ heap' = heap /\ history \in Seq(Delivery) /\ Len(history) \in Nat
      /\ DOMAIN history = 1..Len(history)
  BY <1>0, ArriveEffect, HeapShape
<1>3. d.key = <<gen, e.wf, e.inv>>
  OBVIOUS
<1>4. Entered(history, handler, hs, k, o, heap[o])
  BY <1>0, <1>1 DEF KeyInv
<1>5. /\ Busy(h)' /\ Event(h)' = e /\ handler'[h].now = Len(history) + 1 /\ handler'[h].pc = "lookup"
      /\ DOMAIN history' = 1..(Len(history) + 1)
      /\ \A n \in 1..Len(history) : history'[n] = history[n]
  BY ArriveFields
<1>6. history'[Len(history) + 1] = d
  BY ArriveFields
<1>7. \A j \in Handlers : j # h => handler'[j] = handler[j]
  BY ArriveEffect
<1>8. h \notin hs
  BY <1>2 DEF Workers, Busy
<1> HIDE DEF d
<1>9. CASE k = d.key
  <2>1. k = <<gen, e.wf, e.inv>> /\ Name(e) = NameOf(k)
    BY <1>3, <1>9 DEF Name, NameOf
  <2>2. \A j \in Handlers : Busy(j) => Name(Event(j)) # Name(e)
    BY <2>1, ArriveAlone
  <2>3. hs = {}
    BY <2>1, <2>2 DEF Workers, Busy, Event, Name
  <2>4. Workers(handler', gen', k) = {h}
    <3>1. h \in Workers(handler', gen', k)
      BY <1>2, <1>5, <2>1 DEF Workers, Busy, Event
    <3>2. \A j \in Workers(handler', gen', k) : j # h => j \in hs
      BY <1>2, <1>7 DEF Workers
    <3> QED BY <2>3, <3>1, <3>2
  <2>5. Rested(history, k, o, heap[o])
    BY <1>4, <2>3, EnteredRested
  <2>6. Solo(history', handler'[h], k, o, heap[o])
    <3>1. CASE o = 0
      <4>1. DeliveredTo(history, k) = {}
        BY <2>5, <3>1 DEF Rested
      <4>2. DeliveredTo(history', k) = {Len(history) + 1}
        BY <1>2, <1>5, <1>6, <1>9, <4>1 DEF DeliveredTo
      <4> QED BY <1>5, <3>1, <4>2 DEF Solo
    <3>2. CASE o # 0
      <4>1. Accounts(history, k, heap[o], {}, {}, {}, FALSE) /\ TimesOf(heap[o].records) \subseteq 1..Len(history)
        BY <2>5, <3>2, EnteredTimes DEF Rested
      <4> HIDE DEF o
      <4>2. Accounts(Append(history, d), k, heap[o], {Len(history) + 1}, {}, {}, FALSE)
        BY <1>2, <1>9, <4>1, AccountsArrive
      <4>3. Accounts(history', k, heap[o], {handler'[h].now}, {}, {}, FALSE)
        BY <1>2, <1>5, <4>2
      <4> QED BY <1>5, <3>2, <4>3, SoloEarly DEF Early
    <3> QED BY <3>1, <3>2
  <2> QED BY <1>2, <2>4, <2>6, EnteredSolo
<1>10. CASE k # d.key
  <2>1. Workers(handler', gen', k) = hs
    <3>1. h \notin Workers(handler', gen', k)
      BY <1>2, <1>3, <1>5, <1>10 DEF Workers, Event
    <3> QED BY <1>2, <1>7, <1>8, <3>1 DEF Workers
  <2>2. \A j \in hs : handler'[j] = handler[j]
    BY <1>7, <1>8 DEF Workers
  <2> HIDE DEF hs
  <2>3. /\ NowOf(handler', hs) = NowOf(handler, hs)
        /\ NowOf(handler', {j \in hs : Removed(handler'[j])}) = NowOf(handler, {j \in hs : Removed(handler[j])})
        /\ NowOf(handler', {j \in hs : Measured(handler'[j])}) = NowOf(handler, {j \in hs : Measured(handler[j])})
    BY <2>2 DEF NowOf
  <2>4. (\E j \in hs : Pending(handler'[j])) = (\E j \in hs : Pending(handler[j]))
    BY <2>2
  <2>5. Entered(history', handler, hs, k, o, heap[o])
    <3>1. CASE o = 0
      <4>1. DeliveredTo(history', k) = DeliveredTo(history, k)
        BY <1>2, <1>5, <1>6, <1>10 DEF DeliveredTo
      <4> QED BY <1>4, <3>1, <4>1 DEF Entered
    <3>2. CASE o # 0
      <4> DEFINE nows == NowOf(handler, hs)
                 removed == NowOf(handler, {j \in hs : Removed(handler[j])})
                 measured == NowOf(handler, {j \in hs : Measured(handler[j])})
      <4>1. Accounts(history, k, heap[o], nows, removed, measured, \E j \in hs : Pending(handler[j]))
        BY <1>4, <3>2 DEF Entered
      <4>2. TimesOf(heap[o].records) \subseteq 1..Len(history) /\ removed \subseteq 1..Len(history)
        BY <3>2, EnteredTimes DEF hs
      <4> HIDE DEF nows, removed, measured, o
      <4>3. Accounts(Append(history, d), k, heap[o], nows, removed, measured, \E j \in hs : Pending(handler[j]))
        BY <1>2, <1>10, <4>1, <4>2, AccountsElsewhere
      <4> QED BY <1>2, <3>2, <4>3 DEF Entered, nows, removed, measured
    <3> QED BY <3>1, <3>2
  <2> QED BY <1>2, <2>1, <2>3, <2>4, <2>5 DEF Entered
<1> QED BY <1>9, <1>10

\* An event of the experiment under way finds its workflow.
LEMMA ArriveExplained ==
  ASSUME IInv, NEW h \in Handlers, NEW e \in Events, RegisterEvent(h, e)
  PROVE  CrashesExplained'
<1>1. Shape /\ InvokerInv /\ CrashesExplained
  BY InvIs
<1>2. Running /\ Delivered(e) /\ gen' = gen /\ panicked' = panicked
  BY ArriveEffect
<1>3. Busy(h)' /\ Event(h)' = e
  BY ArriveFields
<1>4. e.wf \in DOMAIN Definitions[e.gen]
  BY TimeseriesDBAssumption
<1>5. ~Running' => e.gen < gen
  <2>1. ~Running' => e.wf \notin workflows
    BY ArriveKey
  <2>2. CASE e.gen = gen /\ invoker \notin {"idle", "starting", "abandoned"}
    <3>1. workflows = DOMAIN Definitions[gen]
      BY <1>1, <1>2, <2>2 DEF Shape, InvokerInv
    <3> QED BY <1>4, <2>1, <2>2, <3>1
  <2> QED BY <1>2, <2>2 DEF Delivered
<1>6. panicked' \subseteq overlapped'
  BY <1>1, <1>2, ArriveAlone DEF CrashesExplained
<1> QED BY <1>2, <1>3, <1>5, <1>6 DEF CrashesExplained

LEMMA ArriveStep ==
  ASSUME IInv, NEW h \in Handlers, NEW e \in Events, RegisterEvent(h, e)
  PROVE  IInv'
<1>1. Shape /\ InvokerInv /\ ReportInv
  BY InvIs
<1>2. UNCHANGED <<invoker, gen, workflows, invocations, heap, collected, encoded, reported>> /\ Running
  BY ArriveEffect
<1>3. Shape'
  <2>1. handler' \in [Handlers -> BusyHandler \cup {Idle}]
    BY ArriveEffect
  <2>2. history' \in Seq(Delivery)
    <3> DEFINE d == [key |-> <<gen, e.wf, e.inv>>, attrs |-> e.attrs]
    <3>1. history \in Seq(Delivery) /\ d \in Delivery /\ history' = Append(history, d)
      BY <1>1, ArriveEffect DEF Shape
    <3> HIDE DEF d
    <3> QED BY <3>1
  <2>3. cause' \in {"", "unknown workflow", "concurrent map access"}
    BY DEF RegisterEvent
  <2> QED BY <1>1, <1>2, <2>1, <2>2, <2>3 DEF Shape
<1>4. InvokerInv'
  <2>1. ASSUME NEW j \in Handlers, Busy(j)'
        PROVE  Event(j)'.gen <= gen /\ (invoker \in {"starting", "abandoned"} => Event(j)'.gen < gen)
    <3>1. CASE j = h
      <4>1. Event(j)' = e /\ Delivered(e) /\ gen \in Gens
        BY <3>1, ArriveFields, ArriveEffect
      <4>2. e.gen \in Int /\ gen \in Int
        BY <4>1, TimeseriesDBAssumption
      <4> QED BY <4>1, <4>2 DEF Delivered
    <3>2. CASE j # h
      BY <1>1, <2>1, <3>2, ArriveOthers DEF InvokerInv
    <3> QED BY <3>1, <3>2
  <2> QED BY <1>1, <1>2, <2>1 DEF InvokerInv
<1>5. ReportInv'
  BY <1>1, <1>2, ArriveAlone DEF ReportInv, Quiet
<1>6. OwnInv' /\ TimeInv' /\ QuietInv' /\ CrashesExplained'
  BY ArriveOwn, ArriveTime, ArriveQuiet, ArriveExplained
<1>7. \A k \in Keys : KeyInv(k)'
  BY ArriveKeys
<1> QED BY <1>3, <1>4, <1>5, <1>6, <1>7 DEF IInv

-----------------------------------------------------------------------------
(* The theorems. *)

LEMMA HandleStep ==
  ASSUME IInv, NEW h \in Handlers, HandleEvent(h)
  PROVE  IInv'
BY LookupStep, RegisterStep, StoreStep, CheckStep, CompleteStep, RemoveStep, DurationStep, StatusStep,
   ReadStep, AppendStep DEF HandleEvent

\* The inductive invariant: whoever handles an invocation alone finds its object as it left
\* it, and the object says of the invocation what was delivered so far.
THEOREM TimeseriesInvariant == Spec => []IInv
<1>1. Init => IInv
  BY InitInv
<1>2. IInv /\ [Next]_vars => IInv'
  <2> SUFFICES ASSUME IInv, [Next]_vars PROVE IInv'
    OBVIOUS
  <2>1. CASE StartExperiment
    BY <2>1, StartStep
  <2>2. ASSUME NEW w \in Workflows, DefineWorkflow(w) PROVE IInv'
    BY <2>2, DefineStep
  <2>3. CASE Timeout
    BY <2>3, TimeoutStep
  <2>4. CASE EndExperiment
    BY <2>4, EndExperimentStep
  <2>5. CASE End
    BY <2>5, EndStep
  <2>11. ASSUME NEW o \in collected, EncodeDuration(o) PROVE IInv'
    BY <2>11, EncodeDurationStep
  <2>12. CASE EncodeStatus
    BY <2>12, EncodeStatusStep
  <2>6. CASE InvokerFatal
    BY <2>6, FatalStep
  <2>7. ASSUME NEW h \in Handlers, NEW e \in Events, RegisterEvent(h, e) PROVE IInv'
    BY <2>7, ArriveStep
  <2>8. ASSUME NEW h \in Handlers, HandleEvent(h) PROVE IInv'
    BY <2>8, HandleStep
  <2>9. ASSUME NEW h \in Handlers, MapRace(h) PROVE IInv'
    BY <2>9, MapRaceStep
  <2>10. CASE UNCHANGED vars
    BY <2>10, StutterStep
  <2> QED BY <2>1, <2>2, <2>3, <2>4, <2>5, <2>6, <2>7, <2>8, <2>9, <2>10, <2>11, <2>12 DEF Next
<1> QED BY <1>1, <1>2, PTL DEF Spec

LEMMA TypeHolds ==
  ASSUME IInv
  PROVE  TypeOK
<1>1. Shape /\ OwnInv /\ TimeInv /\ ReportInv
  BY InvIs
<1>2. /\ heap \in Seq(Invocation) /\ Len(heap) \in Nat /\ DOMAIN heap = 1..Len(heap) /\ Len(history) \in Nat
  BY <1>1, HeapShape
<1>3. ASSUME NEW o \in DOMAIN heap
      PROVE  /\ heap[o].duration \in 0..Len(history) /\ heap[o].status \in {"CANCELLED", "COMPLETED"}
             /\ Len(heap[o].records) <= Len(history)
  <2>1. TimedObject(heap[o], Len(history), Nows(handler)) /\ heap[o] \in Invocation
    BY <1>1, <1>2 DEF TimeInv
  <2>2. /\ TimesOf(heap[o].records) \subseteq 1..Len(history)
        /\ Len(heap[o].records) = Cardinality(TimesOf(heap[o].records))
    BY <2>1 DEF TimedObject, Timed
  <2>3. Cardinality(TimesOf(heap[o].records)) <= Len(history)
    BY <1>2, <2>2, TimesFinite
  <2> QED BY <2>1, <2>2, <2>3 DEF TimedObject, Invocation
<1>4. ASSUME NEW h \in Handlers
      PROVE  /\ handler[h].pc \in {"idle", "lookup", "register", "store", "check", "complete",
                                   "remove", "duration", "status", "record", "append"}
             /\ handler[h].pc \notin {"idle", "lookup", "register"} => handler[h].invocation \in DOMAIN heap
             /\ handler[h].pc \in {"remove", "duration", "status"} => handler[h].target \in DOMAIN heap
  <2>1. CASE ~Busy(h)
    BY <2>1 DEF Busy
  <2>2. CASE Busy(h)
    <3>1. handler[h].pc \in BusyLabels
      BY <1>1, <2>2, BusyIs DEF BusyHandler
    <3>2. /\ handler[h].pc \notin {"idle", "lookup", "register"} => handler[h].invocation \in DOMAIN heap
          /\ handler[h].pc \in {"remove", "duration", "status"} => handler[h].target \in DOMAIN heap
      BY <1>1, <2>2, Places DEF OwnInv, Holds
    <3> QED BY <3>1, <3>2 DEF BusyLabels
  <2> QED BY <2>1, <2>2
<1>5. gen > 0 => workflows \subseteq DOMAIN Definitions[gen]
  BY <1>1, TimeseriesDBAssumption DEF Shape
<1>6. \A k \in Keys : invocations[k] \in 0..Len(heap)
  BY <1>1 DEF OwnInv
<1> QED BY <1>1, <1>3, <1>4, <1>5, <1>6 DEF TypeOK, Shape, ReportInv

\* No handler uses a nil pointer, for any number of experiments, handlers and deliveries.
THEOREM TypeCorrect == Spec => []TypeOK
BY TimeseriesInvariant, TypeHolds, PTL

\* The server dies only of an event that outlived its experiment, of two handlers in one
\* workflow or of a handler during EndExperiment, and a handler panics only where two
\* parties met on its invocation or a new experiment replaced the maps under it.
THEOREM DeathsExplained == Spec => []CrashesExplained
<1>1. IInv => CrashesExplained
  BY DEF IInv
<1> QED BY <1>1, TimeseriesInvariant, PTL

\* What the object of a settled invocation says.
LEMMA SettledAccounts ==
  ASSUME IInv, NEW k \in Keys, Settled(k)
  PROVE  /\ invocations[k] # 0 /\ invocations[k] \in DOMAIN heap
         /\ Accounts(history, k, heap[invocations[k]], {}, {}, {}, FALSE)
<1>1. Shape /\ OwnInv /\ KeyInv(k)
  BY InvIs DEF IInv
<1>2. invocations[k] # 0 /\ Quiet(NameOf(k)) /\ \A h \in Handlers : Busy(h) => Name(Event(h)) # NameOf(k)
  BY DEF Settled, Quiet, NameOf
<1>3. Workers(handler, gen, k) = {}
  BY <1>2 DEF Workers, Busy, Event, Name, NameOf
<1>4. Rested(history, k, invocations[k], heap[invocations[k]])
  BY <1>1, <1>2, <1>3, EnteredRested DEF KeyInv
<1>5. invocations[k] \in DOMAIN heap
  BY <1>1, <1>2, HeapShape DEF OwnInv
<1> QED BY <1>2, <1>4, <1>5 DEF Rested

\* Some assignment of the times in done to the wanted descriptors is one that Meets.
Assigned(awaits, wanted, done, missed) ==
  \E met \in [DOMAIN wanted -> done \cup {0}] :
    /\ Meets(met, wanted, done \cup missed)
    /\ {met[w] : w \in DOMAIN wanted} \ {0} = done
    /\ awaits = <<>> <=> \A w \in DOMAIN wanted : met[w] # 0

\* The delivery that met each descriptor, from what the accounts say.
LEMMA MetMeets ==
  ASSUME NEW awaits, NEW wanted, NEW done, NEW missed, Met(history, awaits, wanted, done, missed),
         done \subseteq Nat \ {0}, missed \subseteq Nat, awaits = <<>> \/ DOMAIN awaits # {}
  PROVE  Assigned(awaits, wanted, done, missed)
<1>1. PICK at \in [DOMAIN awaits -> DOMAIN wanted], by \in [DOMAIN wanted -> Nat] :
             Matching(history, awaits, wanted, done, missed, at, by)
  BY DEF Met
<1>2. /\ \A w \in DOMAIN wanted : \/ \E a \in DOMAIN awaits : at[a] = w
                                  \/ by[w] \in done /\ wanted[w] \subseteq history[by[w]].attrs
      /\ \A v, w \in DOMAIN wanted : by[v] = by[w] => v = w \/ \E a \in DOMAIN awaits : at[a] \in {v, w}
      /\ \A n \in done : \E w \in DOMAIN wanted : by[w] = n /\ \A a \in DOMAIN awaits : at[a] # w
      /\ \A n \in missed, w \in DOMAIN wanted :
           wanted[w] \subseteq history[n].attrs => by[w] < n /\ \A a \in DOMAIN awaits : at[a] # w
  BY <1>1 DEF Matching
<1> DEFINE met == [w \in DOMAIN wanted |-> IF \E a \in DOMAIN awaits : at[a] = w THEN 0 ELSE by[w]]
<1>3. \A w \in DOMAIN wanted : /\ (\E a \in DOMAIN awaits : at[a] = w) => met[w] = 0
                               /\ (\A a \in DOMAIN awaits : at[a] # w) => met[w] = by[w] /\ by[w] \in done
  BY <1>2
<1>4. met \in [DOMAIN wanted -> done \cup {0}]
  BY <1>2
<1> HIDE DEF met
<1>5. \A w \in DOMAIN wanted : met[w] # 0 => met[w] = by[w] /\ \A a \in DOMAIN awaits : at[a] # w
  BY <1>3
<1>6. \A v, w \in DOMAIN wanted : met[v] = met[w] => v = w \/ met[v] = 0
  BY <1>2, <1>5
<1>7. \A w \in DOMAIN wanted : met[w] # 0 => wanted[w] \subseteq history[met[w]].attrs
  BY <1>2, <1>5
<1>8. \A n \in done : \E v \in DOMAIN wanted : met[v] = n
  BY <1>2, <1>3
<1>9. ASSUME NEW n \in missed, NEW w \in DOMAIN wanted, wanted[w] \subseteq history[n].attrs
      PROVE  met[w] \in 1..n
  <2>1. by[w] < n /\ met[w] = by[w] /\ by[w] \in done
    BY <1>2, <1>3, <1>9
  <2> QED BY <2>1
<1>10. Meets(met, wanted, done \cup missed)
  BY <1>6, <1>7, <1>8, <1>9 DEF Meets
<1>11. {met[w] : w \in DOMAIN wanted} \ {0} = done
  BY <1>4, <1>8
<1>12. awaits = <<>> <=> \A w \in DOMAIN wanted : met[w] # 0
  <2>1. ASSUME awaits = <<>>, NEW w \in DOMAIN wanted PROVE met[w] # 0
    <3>1. DOMAIN awaits = {}
      BY <2>1
    <3> QED BY <1>3, <3>1
  <2>2. ASSUME awaits # <<>> PROVE \E w \in DOMAIN wanted : met[w] = 0
    <3>1. PICK a \in DOMAIN awaits : TRUE
      BY <2>2
    <3> QED BY <1>1, <1>3, <3>1
  <2> QED BY <2>1, <2>2
<1> QED BY <1>4, <1>10, <1>11, <1>12 DEF Assigned

LEMMA ResultHolds ==
  ASSUME IInv
  PROVE  ResultExact
<1> SUFFICES ASSUME NEW k \in Keys, Settled(k)
             PROVE  LET i == heap[invocations[k]]
                        wanted == Definitions[k[1]][k[2]]
                        got == {n \in DOMAIN history : history[n].key = k}
                    IN  /\ Times(i, DOMAIN i.records) = got /\ Len(i.records) = Cardinality(got)
                        /\ \E met \in [DOMAIN wanted -> got \cup {0}] :
                             LET done == {met[w] : w \in DOMAIN wanted} \ {0}
                             IN  /\ Meets(met, wanted, got)
                                 /\ Times(i, Completions(i)) = done
                                 /\ i.status = "COMPLETED" <=> \A w \in DOMAIN wanted : met[w] # 0
                                 /\ i.duration \in done \cup {0} /\ \A n \in done : n <= i.duration
  BY DEF ResultExact
<1> DEFINE i == heap[invocations[k]]
           wanted == Definitions[k[1]][k[2]]
           got == {n \in DOMAIN history : history[n].key = k}
           done == DoneOf(i.records)
           missed == TimesOf(i.records) \ DoneOf(i.records)
<1>1. /\ invocations[k] \in DOMAIN heap /\ Accounts(history, k, i, {}, {}, {}, FALSE)
      /\ Shape /\ TimeInv /\ Len(history) \in Nat
  BY SettledAccounts, InvIs, HeapShape
<1>2. Timed(i.records, Len(history), Nows(handler))
  BY <1>1 DEF TimeInv, TimedObject
<1>3. Times(i, DOMAIN i.records) = TimesOf(i.records) /\ Times(i, Completions(i)) = done
  BY DEF Times, Completions, TimesOf, DoneOf
<1>4. DOMAIN i.awaits = 1..Len(i.awaits) /\ i.awaits \in Descriptors
  BY <1>1, Objects
<1> HIDE DEF i
<1>5. DoneOf(i.records) \cup {} = DoneOf(i.records) /\ done \subseteq TimesOf(i.records)
  BY DoneIsTimes
<1>6. TimesOf(i.records) = got /\ got \subseteq 1..Len(history) /\ Len(i.records) = Cardinality(got)
  <2>1. TimesOf(i.records) = got
    BY <1>1 DEF Accounts, DeliveredTo
  <2> QED BY <1>2, <2>1 DEF Timed
<1>7. /\ Met(history, i.awaits, wanted, done, missed)
      /\ i.status = "COMPLETED" <=> i.awaits = <<>>
      /\ i.duration \in done \cup {0} /\ \A n \in done : n <= i.duration
  BY <1>1, <1>5 DEF Accounts
<1>8. done \subseteq Nat \ {0} /\ missed \subseteq Nat /\ done \cup missed = got
  <2>1. 1..Len(history) \subseteq Nat \ {0}
    BY <1>1
  <2>2. got \subseteq Nat \ {0} /\ done \cup missed = got /\ done \subseteq got /\ missed \subseteq got
    BY <1>5, <1>6, <2>1
  <2> HIDE DEF done, missed, got
  <2> QED BY <2>2
<1>9. i.awaits = <<>> \/ DOMAIN i.awaits # {}
  <2>1. PICK a : a = i.awaits
    OBVIOUS
  <2>2. a \in Seq(SUBSET Attributes)
    BY <1>4, <2>1 DEF Descriptors
  <2>3. a = <<>> \/ DOMAIN a # {}
    BY <2>2
  <2> QED BY <2>1, <2>3
<1> HIDE DEF wanted, got, done, missed
<1>10. PICK a : a = i.awaits
  OBVIOUS
<1>11. PICK met \in [DOMAIN wanted -> done \cup {0}] :
         /\ Meets(met, wanted, done \cup missed)
         /\ {met[w] : w \in DOMAIN wanted} \ {0} = done
         /\ a = <<>> <=> \A w \in DOMAIN wanted : met[w] # 0
  <2>1. Met(history, a, wanted, done, missed) /\ (a = <<>> \/ DOMAIN a # {})
    BY <1>7, <1>9, <1>10
  <2>2. PICK w, d, m : w = wanted /\ d = done /\ m = missed
    OBVIOUS
  <2>3. Met(history, a, w, d, m) /\ d \subseteq Nat \ {0} /\ m \subseteq Nat
    BY <1>8, <2>1, <2>2
  <2>4. Assigned(a, w, d, m)
    BY <2>1, <2>3, MetMeets
  <2>5. Assigned(a, wanted, done, missed)
    BY <2>2, <2>4
  <2> QED BY <2>5 DEF Assigned
<1>12. met \in [DOMAIN wanted -> got \cup {0}] /\ Meets(met, wanted, got)
  BY <1>8, <1>11
<1>13. /\ Times(i, Completions(i)) = {met[w] : w \in DOMAIN wanted} \ {0}
       /\ i.status = "COMPLETED" <=> \A w \in DOMAIN wanted : met[w] # 0
       /\ i.duration \in ({met[w] : w \in DOMAIN wanted} \ {0}) \cup {0}
       /\ \A n \in {met[w] : w \in DOMAIN wanted} \ {0} : n <= i.duration
  BY <1>3, <1>7, <1>10, <1>11
<1>14. Times(i, DOMAIN i.records) = got /\ Len(i.records) = Cardinality(got)
  BY <1>3, <1>6
<1> QED BY <1>12, <1>13, <1>14 DEF i, wanted, got

\* What is recorded of a settled invocation follows from its deliveries, however many
\* handlers, invocations, experiments, duplicates and reorderings there were: the flags,
\* the status and the duration are those of a matching in which each delivery meets a
\* descriptor if it can.
THEOREM ResultsExact == Spec => []ResultExact
BY TimeseriesInvariant, ResultHolds, PTL

LEMMA JustifiedHolds ==
  ASSUME IInv
  PROVE  CompletedJustified
<1> SUFFICES ASSUME NEW k \in Keys, Settled(k), heap[invocations[k]].status = "COMPLETED"
             PROVE  LET i == heap[invocations[k]]
                        wanted == Definitions[k[1]][k[2]]
                    IN  \E f \in [DOMAIN wanted -> Times(i, Completions(i))] :
                          /\ \A a, b \in DOMAIN wanted : a # b => f[a] # f[b]
                          /\ \A a \in DOMAIN wanted : wanted[a] \subseteq history[f[a]].attrs
  BY DEF CompletedJustified
<1> DEFINE i == heap[invocations[k]]
           wanted == Definitions[k[1]][k[2]]
<1>1. Accounts(history, k, i, {}, {}, {}, FALSE)
  BY SettledAccounts
<1>2. Times(i, Completions(i)) = DoneOf(i.records)
  BY DEF Times, Completions, DoneOf
<1>3. i.status = "COMPLETED"
  OBVIOUS
<1> HIDE DEF i, wanted
<1>4. i.awaits = <<>> /\ Met(history, i.awaits, wanted, DoneOf(i.records) \cup {}, TimesOf(i.records) \ DoneOf(i.records))
  BY <1>1, <1>3 DEF Accounts, wanted
<1>5. PICK at \in [DOMAIN i.awaits -> DOMAIN wanted], by \in [DOMAIN wanted -> Nat] :
             Matching(history, i.awaits, wanted, DoneOf(i.records) \cup {}, TimesOf(i.records) \ DoneOf(i.records), at, by)
  BY <1>4 DEF Met
<1>6. DOMAIN i.awaits = {}
  BY <1>4
<1>7. /\ \A w \in DOMAIN wanted : by[w] \in DoneOf(i.records) /\ wanted[w] \subseteq history[by[w]].attrs
      /\ \A v, w \in DOMAIN wanted : by[v] = by[w] => v = w
  BY <1>5, <1>6 DEF Matching
<1>8. by \in [DOMAIN wanted -> DoneOf(i.records)]
  BY <1>5, <1>7
<1> QED BY <1>2, <1>7, <1>8 DEF i, wanted

\* A settled invocation is COMPLETED only by completion events of its own, one for each
\* descriptor that its workflow asks for.
THEOREM CompletionsJustified == Spec => []CompletedJustified
BY TimeseriesInvariant, JustifiedHolds, PTL

\* The duration that End reports of an invocation completed when it was read is a
\* measured one, and stays what it is while no two parties handle the invocation at once.
THEOREM ReportsFinal == Spec => []ReportedFinal
<1>1. IInv => ReportedFinal
  BY DEF IInv, ReportInv, ReportedFinal, Quiet, NameOf
<1> QED BY <1>1, TimeseriesInvariant, PTL
=============================================================================
