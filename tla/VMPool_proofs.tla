---------------------------- MODULE VMPool_proofs ----------------------------
(***************************************************************************)
(* Proofs about VMPool, for any number of calls, VMs, bridges and taps.    *)
(*                                                                         *)
(* A slot is held for a VM while the VM map, the record of taps, a device  *)
(* or a call in progress names it.  Only the atomic increment of Draw      *)
(* creates a holding, of a slot beyond all those held before; every other  *)
(* step copies or drops one.                                               *)
(***************************************************************************)
EXTENDS VMPool, TLAPS

\* Calls that work with a slot, and calls of AddTap that have not recorded theirs.
SlotLabels == {"link", "record", "iptables", "reconnect", "store"}
NewTapLabels == {"draw", "link", "record"}

CallInv ==
  \A c \in Calls :
    /\ InProgress(c) => vm[c] \in VMs
    /\ pc[c] \in SlotLabels => slot[c] \in Slots
    /\ pc[c] = "draw" => bridge[c] \in Bridges

CallHolds(c, v, s) == vm[c] = v /\ pc[c] \in SlotLabels /\ slot[c] = s

Holds(v, s) == \/ vmMap[v] = s \/ createdTaps[v] = s \/ links[v] = s
               \/ \E c \in Calls : CallHolds(c, v, s)

\* Held slots were given out, each for one VM.
Drawn == \A v \in VMs, s \in Slots : Holds(v, s) => s.index < TapCountsPerBridge[s.bridge]
OneVMPerSlot == \A v, w \in VMs, s \in Slots : Holds(v, s) /\ Holds(w, s) => v = w

SlotInv == TypeOK /\ CallInv /\ Drawn /\ OneVMPerSlot

\* The bridges that a call of AddTap has left behind are full.
FullBehind ==
  \A c \in Calls : pc[c] \in {"draw", "nospace"} =>
    \A b \in Bridges : (b < bridge[c] \/ pc[c] = "nospace") =>
      TapCountsPerBridge[b] >= TapsPerBridge

\* For a guarded VM: one call at a time, and what that call knows of the record.
OneCall ==
  \A v \in Guarded, c, d \in Calls :
    InProgress(c) /\ InProgress(d) /\ vm[c] = v /\ vm[d] = v => c = d

RecordInv ==
  \A v \in Guarded :
    /\ vmMap[v] # NoSlot => createdTaps[v] = vmMap[v]
    /\ createdTaps[v] # NoSlot => links[v] \in {createdTaps[v], NoSlot}

CallRecordInv ==
  \A v \in Guarded, c \in Calls : vm[c] = v =>
    /\ pc[c] \in NewTapLabels => createdTaps[v] = NoSlot
    /\ pc[c] = "record" => links[v] = slot[c]
    /\ pc[c] \in {"iptables", "store", "reconnect"} => createdTaps[v] = slot[c]

GuardInv == OneCall /\ RecordInv /\ CallRecordInv

IInv == SlotInv /\ FullBehind /\ GuardInv

-----------------------------------------------------------------------------
(* Addresses. *)

LEMMA NoSlotFact == NoSlot \notin Slots
BY PoolAssumption DEF Slots, Bridges

\* Different slots have different addresses, and none is a gateway's.
LEMMA PrimaryInjective ==
  ASSUME NEW s \in Slots, NEW t \in Slots, PrimaryAddress(s) = PrimaryAddress(t)
  PROVE  s = t
<1>1. /\ s.bridge \in Int /\ t.bridge \in Int /\ s.index \in Nat /\ t.index \in Nat
  BY RangeAssumption DEF Slots, Bridges
<1>2. /\ 190 + s.bridge = 190 + t.bridge
      /\ (s.index + 2) \div 256 = (t.index + 2) \div 256
      /\ (s.index + 2) % 256 = (t.index + 2) % 256
  BY DEF PrimaryAddress
<1>3. s.bridge = t.bridge /\ s.index = t.index
  BY <1>1, <1>2
<1> QED BY <1>3 DEF Slots

LEMMA PrimaryNotGateway ==
  ASSUME NEW s \in Slots, NEW b \in Bridges
  PROVE  PrimaryAddress(s) # GatewayAddress(b)
<1>1. s.index \in Nat
  BY RangeAssumption DEF Slots
<1>2. ~((s.index + 2) \div 256 = 0 /\ (s.index + 2) % 256 = 1)
  BY <1>1
<1> QED BY <1>2 DEF PrimaryAddress, GatewayAddress

LEMMA MacIndexOrdered ==
  ASSUME NEW s \in Slots, NEW t \in Slots, s.bridge < t.bridge
  PROVE  MacIndex(s) < MacIndex(t)
<1> DEFINE N == TapsPerBridge
<1>1. /\ s.bridge \in Nat /\ t.bridge \in Nat /\ s.index \in 0..(N - 1)
      /\ t.index \in 0..(N - 1) /\ N \in Nat
  BY RangeAssumption DEF Slots, Bridges
<1>2. PICK k \in Nat : t.bridge = s.bridge + 1 + k
  <2>1. t.bridge - s.bridge - 1 \in Nat /\ t.bridge = s.bridge + 1 + (t.bridge - s.bridge - 1)
    BY <1>1
  <2> QED BY <2>1
<1>3. t.bridge * N = s.bridge * N + N + k * N
  BY <1>1, <1>2, SMT
<1>4. k * N >= 0 /\ k * N \in Int /\ s.bridge * N \in Int
  BY <1>1, <1>2, SMT
<1>5. s.bridge * N + s.index < t.bridge * N + t.index
  BY <1>1, <1>3, <1>4
<1> QED BY <1>5 DEF MacIndex

LEMMA MacInjective ==
  ASSUME NEW s \in Slots, NEW t \in Slots, MacAddress(s) = MacAddress(t)
  PROVE  s = t
<1>1. /\ s.bridge \in Nat /\ t.bridge \in Nat /\ s.index \in Nat /\ t.index \in Nat
      /\ TapsPerBridge \in Nat
  BY RangeAssumption DEF Slots, Bridges
<1>2. MacIndex(s) \in Nat /\ MacIndex(t) \in Nat
  BY <1>1 DEF MacIndex
<1>3. MacIndex(s) = MacIndex(t)
  <2>1. /\ MacIndex(s) \div 256 = MacIndex(t) \div 256
        /\ MacIndex(s) % 256 = MacIndex(t) % 256
    BY DEF MacAddress
  <2> QED BY <2>1, <1>2
<1>4. s.bridge = t.bridge
  BY <1>1, <1>2, <1>3, MacIndexOrdered
<1>5. s.index = t.index
  <2>1. s.bridge * TapsPerBridge + s.index = s.bridge * TapsPerBridge + t.index
    BY <1>3, <1>4 DEF MacIndex
  <2>2. s.bridge * TapsPerBridge \in Int
    BY <1>1
  <2>3. \A p \in Int, i, j \in Nat : p + i = p + j => i = j
    OBVIOUS
  <2> QED BY <2>1, <2>2, <2>3, <1>1, Zenon
<1> QED BY <1>4, <1>5 DEF Slots

\* Holding every slot for one VM at most gives different VMs different addresses.
LEMMA Unique == SlotInv => UniqueAddresses
<1> SUFFICES ASSUME SlotInv PROVE UniqueAddresses
  OBVIOUS
<1>1. ASSUME NEW v \in VMs, NEW s \in {links[v], vmMap[v]} \ {NoSlot}
      PROVE  s \in Slots /\ Holds(v, s)
  BY DEF SlotInv, TypeOK, Holds
<1>2. ASSUME NEW v \in VMs, NEW w \in VMs, v # w,
             NEW s \in {links[v], vmMap[v]} \ {NoSlot},
             NEW t \in {links[w], vmMap[w]} \ {NoSlot}
      PROVE  PrimaryAddress(s) # PrimaryAddress(t) /\ MacAddress(s) # MacAddress(t)
  <2>1. s \in Slots /\ Holds(v, s) /\ t \in Slots /\ Holds(w, t)
    BY <1>1
  <2>2. s # t
    BY <2>1, <1>2 DEF SlotInv, OneVMPerSlot
  <2> QED BY <2>1, <2>2, PrimaryInjective, MacInjective
<1>3. ASSUME NEW v \in VMs, NEW s \in {links[v], vmMap[v]} \ {NoSlot}, NEW b \in Bridges
      PROVE  PrimaryAddress(s) # GatewayAddress(b)
  BY <1>1, <1>3, PrimaryNotGateway
<1> QED BY <1>2, <1>3 DEF UniqueAddresses

-----------------------------------------------------------------------------
(* The slots. *)

\* A step that draws no slot leaves no VM with a slot it did not hold.
LEMMA HoldingsShrink ==
  ASSUME SlotInv, TypeOK', CallInv',
         \A b \in Bridges : TapCountsPerBridge'[b] >= TapCountsPerBridge[b],
         \A v \in VMs, s \in Slots : Holds(v, s)' => Holds(v, s)
  PROVE  SlotInv'
<1>1. Drawn'
  <2> SUFFICES ASSUME NEW v \in VMs, NEW s \in Slots, Holds(v, s)'
               PROVE  s.index < TapCountsPerBridge'[s.bridge]
    BY DEF Drawn
  <2>1. s.index < TapCountsPerBridge[s.bridge]
    BY DEF SlotInv, Drawn
  <2>2. s.index \in Int /\ s.bridge \in Bridges
    BY RangeAssumption DEF Slots
  <2>3. TapCountsPerBridge[s.bridge] \in Int /\ TapCountsPerBridge'[s.bridge] \in Int
    BY <2>2 DEF SlotInv, TypeOK
  <2>4. TapCountsPerBridge'[s.bridge] >= TapCountsPerBridge[s.bridge]
    BY <2>2
  <2> QED BY <2>1, <2>2, <2>3, <2>4
<1>2. OneVMPerSlot'
  BY DEF SlotInv, OneVMPerSlot
<1> QED BY <1>1, <1>2 DEF SlotInv

LEMMA BeginSlots ==
  ASSUME SlotInv, NEW c \in Calls, NEW o \in Ops, NEW v \in VMs, Begin(c, o, v)
  PROVE  SlotInv'
<1> USE DEF SlotInv
<1>1. pc[c] = "begin" /\ pc \in [Calls -> Labels] /\ vm \in [Calls -> VMs \cup {NoVM}]
  BY DEF Begin, At, TypeOK
<1>2. PICK l \in {"failed", "check", "untap", "ok"} : pc' = [pc EXCEPT ![c] = l]
  BY DEF Begin, Goto, Ops
<1>3. crashed' \in BOOLEAN
  BY DEF Begin
<1>4. TypeOK'
  BY <1>1, <1>2, <1>3 DEF Begin, TypeOK, Labels, tapVars
<1>5. CallInv'
  <2> SUFFICES ASSUME NEW d \in Calls
               PROVE  /\ InProgress(d)' => vm'[d] \in VMs
                      /\ pc'[d] \in SlotLabels => slot'[d] \in Slots
                      /\ pc'[d] = "draw" => bridge'[d] \in Bridges
    BY DEF CallInv
  <2>1. CASE d = c
    BY <1>1, <1>2, <2>1 DEF Begin, SlotLabels
  <2>2. CASE d # c
    BY <1>1, <1>2, <2>2 DEF Begin, CallInv, InProgress
  <2> QED BY <2>1, <2>2
<1>6. ASSUME NEW w \in VMs, NEW s \in Slots, Holds(w, s)' PROVE Holds(w, s)
  <2>1. ASSUME NEW d \in Calls, CallHolds(d, w, s)' PROVE CallHolds(d, w, s)
    <3>1. d # c
      BY <1>1, <1>2, <2>1 DEF CallHolds, SlotLabels
    <3> QED BY <1>1, <1>2, <2>1, <3>1 DEF CallHolds, Begin
  <2> QED BY <1>6, <2>1 DEF Holds, Begin, tapVars
<1>7. \A b \in Bridges : TapCountsPerBridge'[b] >= TapCountsPerBridge[b]
  BY DEF Begin, tapVars, TypeOK
<1> QED BY <1>4, <1>5, <1>6, <1>7, HoldingsShrink

\* The steps that only hand on or drop the slot of their call.
HandOn(c, l) ==
  /\ pc' = [pc EXCEPT ![c] = l]
  /\ UNCHANGED <<TapCountsPerBridge, op, vm, bridge, slot, crashed>>
  /\ \A w \in VMs : vmMap'[w] # vmMap[w] => w = vm[c] /\ vmMap'[w] \in {slot[c], NoSlot}
  /\ \A w \in VMs : createdTaps'[w] # createdTaps[w] => w = vm[c] /\ createdTaps'[w] = slot[c]
  /\ \A w \in VMs : links'[w] # links[w] => w = vm[c] /\ links'[w] \in {slot[c], NoSlot}

LEMMA HandOnSlots ==
  ASSUME SlotInv, NEW c \in Calls, NEW l \in Labels \ {"draw"}, HandOn(c, l), TypeOK',
         InProgress(c), l \in SlotLabels => pc[c] \in SlotLabels,
         pc[c] \in SlotLabels \/ (vmMap'[vm[c]] \in {vmMap[vm[c]], NoSlot}
                                /\ createdTaps' = createdTaps
                                /\ links'[vm[c]] \in {links[vm[c]], NoSlot})
  PROVE  SlotInv'
<1> USE DEF SlotInv
<1>1. pc \in [Calls -> Labels] /\ vm[c] \in VMs
  BY DEF TypeOK, CallInv
<1>2. CallInv'
  <2> SUFFICES ASSUME NEW d \in Calls
               PROVE  /\ InProgress(d)' => vm'[d] \in VMs
                      /\ pc'[d] \in SlotLabels => slot'[d] \in Slots
                      /\ pc'[d] = "draw" => bridge'[d] \in Bridges
    BY DEF CallInv
  <2>1. CASE d = c
    BY <1>1, <2>1 DEF HandOn, CallInv
  <2>2. CASE d # c
    BY <1>1, <2>2 DEF HandOn, CallInv, InProgress
  <2> QED BY <2>1, <2>2
<1>3. ASSUME NEW w \in VMs, NEW s \in Slots, Holds(w, s)' PROVE Holds(w, s)
  <2>1. s # NoSlot
    BY NoSlotFact
  <2>2. ASSUME NEW d \in Calls, CallHolds(d, w, s)' PROVE Holds(w, s)
    <3>1. CallHolds(d, w, s)
      BY <1>1, <2>2 DEF CallHolds, HandOn
    <3> QED BY <3>1 DEF Holds
  <2>3. CASE vmMap'[w] = s
    BY <2>1, <2>3 DEF HandOn, Holds, CallHolds
  <2>4. CASE createdTaps'[w] = s
    BY <2>1, <2>4 DEF HandOn, Holds, CallHolds
  <2>5. CASE links'[w] = s
    BY <2>1, <2>5 DEF HandOn, Holds, CallHolds
  <2> QED BY <1>3, <2>2, <2>3, <2>4, <2>5 DEF Holds
<1>4. \A b \in Bridges : TapCountsPerBridge'[b] >= TapCountsPerBridge[b]
  BY DEF HandOn, TypeOK
<1> QED BY <1>2, <1>3, <1>4, HoldingsShrink

LEMMA StoreSlots ==
  ASSUME SlotInv, NEW c \in Calls, Store(c) \/ Delete(c)
  PROVE  SlotInv'
<1>0. TypeOK /\ vm[c] \in VMs /\ InProgress(c) /\ pc[c] \in {"store", "delete"}
      /\ (pc[c] = "store" => slot[c] \in Slots)
  BY DEF SlotInv, CallInv, Store, Delete, At, InProgress, SlotLabels
<1>1. TypeOK'
  BY <1>0 DEF TypeOK, Store, Delete, At, Goto, Labels, tapVars, callVars
<1>2. HandOn(c, "ok")
  BY <1>0 DEF TypeOK, Store, Delete, Goto, tapVars, callVars, HandOn
<1>3. createdTaps' = createdTaps /\ links' = links /\ (pc[c] = "delete" => vmMap'[vm[c]] = NoSlot)
  BY <1>0 DEF TypeOK, Store, Delete, tapVars, At
<1> QED BY <1>0, <1>1, <1>2, <1>3, HandOnSlots DEF Labels, SlotLabels

LEMMA LinkSlots ==
  ASSUME SlotInv, NEW c \in Calls, Link(c) \/ Reconnect(c)
  PROVE  SlotInv'
<1>0. TypeOK /\ vm[c] \in VMs /\ InProgress(c) /\ slot[c] \in Slots
      /\ pc[c] \in {"link", "reconnect"}
  BY DEF SlotInv, CallInv, Link, Reconnect, At, InProgress, SlotLabels
<1>1. PICK l \in {"record", "store", "ok", "failed"} : pc' = [pc EXCEPT ![c] = l]
  BY DEF Link, Reconnect, MakeLink, AfterAdd, Goto
<1>2. links' \in {links, [links EXCEPT ![vm[c]] = slot[c]]}
  BY DEF Link, Reconnect, MakeLink
<1>3. TypeOK'
  BY <1>0, <1>1, <1>2 DEF TypeOK, Link, Reconnect, Labels, callVars
<1>4. HandOn(c, l)
  BY <1>0, <1>1, <1>2 DEF TypeOK, Link, Reconnect, callVars, HandOn
<1> QED BY <1>0, <1>1, <1>3, <1>4, HandOnSlots DEF Labels, SlotLabels

LEMMA RecordSlots ==
  ASSUME SlotInv, NEW c \in Calls, Record(c) \/ IPtables(c)
  PROVE  SlotInv'
<1>0. TypeOK /\ vm[c] \in VMs /\ InProgress(c) /\ slot[c] \in Slots
      /\ pc[c] \in {"record", "iptables"}
  BY DEF SlotInv, CallInv, Record, IPtables, At, InProgress, SlotLabels
<1>1. PICK l \in {"iptables", "store", "ok", "failed"} : pc' = [pc EXCEPT ![c] = l]
  BY DEF Record, IPtables, AfterAdd, Goto
<1>2. createdTaps' \in {createdTaps, [createdTaps EXCEPT ![vm[c]] = slot[c]]}
  BY DEF Record, IPtables, tapVars
<1>3. TypeOK'
  BY <1>0, <1>1, <1>2 DEF TypeOK, Record, IPtables, Labels, callVars, tapVars
<1>4. HandOn(c, l)
  BY <1>0, <1>1, <1>2 DEF TypeOK, Record, IPtables, callVars, tapVars, HandOn
<1> QED BY <1>0, <1>1, <1>3, <1>4, HandOnSlots DEF Labels, SlotLabels

LEMMA RemoveTapSlots ==
  ASSUME SlotInv, NEW c \in Calls, RemoveTap(c)
  PROVE  SlotInv'
<1>0. TypeOK /\ vm[c] \in VMs /\ InProgress(c) /\ pc[c] = "untap"
  BY DEF SlotInv, CallInv, RemoveTap, At, InProgress
<1>1. PICK l \in {"delete", "check", "failed"} : pc' = [pc EXCEPT ![c] = l]
  BY DEF RemoveTap, AfterUntap, Goto
<1>2. links' \in {links, [links EXCEPT ![vm[c]] = NoSlot]}
  BY DEF RemoveTap
<1>3. TypeOK'
  BY <1>0, <1>1, <1>2 DEF TypeOK, RemoveTap, Labels, callVars
<1>4. HandOn(c, l)
  BY <1>0, <1>1, <1>2 DEF TypeOK, RemoveTap, callVars, HandOn
<1>5. /\ createdTaps' = createdTaps /\ vmMap' = vmMap
      /\ links'[vm[c]] \in {links[vm[c]], NoSlot}
  BY <1>0, <1>2 DEF TypeOK, RemoveTap
<1> QED BY <1>0, <1>1, <1>3, <1>4, <1>5, HandOnSlots DEF Labels, SlotLabels

LEMMA CheckSlots ==
  ASSUME SlotInv, NEW c \in Calls, Check(c)
  PROVE  SlotInv'
<1> USE DEF SlotInv
<1>0. TypeOK /\ vm[c] \in VMs /\ pc[c] = "check" /\ 0 \in Bridges
  BY RangeAssumption DEF CallInv, Check, At, InProgress, Bridges
<1>1. PICK l \in {"reconnect", "draw"} :
        pc' = [pc EXCEPT ![c] = l] /\ (l = "reconnect" => createdTaps[vm[c]] # NoSlot)
  BY DEF Check, Goto, Known
<1>2. createdTaps[vm[c]] \in Slots \cup {NoSlot}
  BY <1>0 DEF TypeOK
<1>3. TypeOK'
  <2>1. 0 \in 0..NumBridges
    BY RangeAssumption
  <2> QED BY <1>0, <1>1, <1>2, <2>1 DEF TypeOK, Check, Labels, tapVars
<1>4. CallInv'
  <2> SUFFICES ASSUME NEW d \in Calls
               PROVE  /\ InProgress(d)' => vm'[d] \in VMs
                      /\ pc'[d] \in SlotLabels => slot'[d] \in Slots
                      /\ pc'[d] = "draw" => bridge'[d] \in Bridges
    BY DEF CallInv
  <2>1. CASE d = c
    BY <1>0, <1>1, <1>2, <2>1 DEF Check, TypeOK, SlotLabels
  <2>2. CASE d # c
    BY <1>0, <1>1, <2>2 DEF Check, CallInv, InProgress, TypeOK
  <2> QED BY <2>1, <2>2
<1>5. ASSUME NEW w \in VMs, NEW s \in Slots, Holds(w, s)' PROVE Holds(w, s)
  <2>2. ASSUME NEW d \in Calls, CallHolds(d, w, s)' PROVE Holds(w, s)
    <3>1. CASE d = c
      BY <1>0, <1>1, <2>2, <3>1 DEF CallHolds, Check, TypeOK, Holds, SlotLabels
    <3>2. CASE d # c
      <4>1. CallHolds(d, w, s)
        BY <1>0, <1>1, <2>2, <3>2 DEF CallHolds, Check, TypeOK
      <4> QED BY <4>1 DEF Holds
    <3> QED BY <3>1, <3>2
  <2> QED BY <1>5, <2>2 DEF Holds, Check, tapVars
<1>6. \A b \in Bridges : TapCountsPerBridge'[b] >= TapCountsPerBridge[b]
  BY DEF Check, tapVars, TypeOK
<1> QED BY <1>3, <1>4, <1>5, <1>6, HoldingsShrink

\* What one round of AddTap's loop does.
Room(c) ==
  /\ TapCountsPerBridge[bridge[c]] < TapsPerBridge
  /\ slot' = [slot EXCEPT ![c] = [bridge |-> bridge[c], index |-> TapCountsPerBridge[bridge[c]]]]
  /\ pc' = [pc EXCEPT ![c] = "link"]
  /\ bridge' = bridge

NoRoom(c) ==
  /\ TapCountsPerBridge[bridge[c]] >= TapsPerBridge
  /\ bridge' = [bridge EXCEPT ![c] = bridge[c] + 1]
  /\ pc' = [pc EXCEPT ![c] = IF bridge[c] + 1 = NumBridges THEN "nospace" ELSE "draw"]
  /\ slot' = slot

LEMMA DrawCases ==
  ASSUME SlotInv, NEW c \in Calls, Draw(c)
  PROVE  /\ TypeOK /\ vm[c] \in VMs /\ pc[c] = "draw" /\ bridge[c] \in Bridges
         /\ TapCountsPerBridge' = [TapCountsPerBridge EXCEPT ![bridge[c]] = @ + 1]
         /\ UNCHANGED <<vmMap, createdTaps, links, op, vm, crashed>>
         /\ Room(c) \/ NoRoom(c)
BY DEF SlotInv, CallInv, Draw, At, InProgress, BridgeToTry, IndexDrawn, IncrementCounter,
       Goto, Room, NoRoom

LEMMA DrawCounts ==
  ASSUME SlotInv, NEW c \in Calls, Draw(c)
  PROVE  /\ TapCountsPerBridge' \in [Bridges -> Nat]
         /\ TapCountsPerBridge'[bridge[c]] = TapCountsPerBridge[bridge[c]] + 1
         /\ \A b \in Bridges : TapCountsPerBridge'[b] >= TapCountsPerBridge[b]
<1>1. TapCountsPerBridge \in [Bridges -> Nat] /\ bridge[c] \in Bridges
  BY DrawCases DEF TypeOK
<1>2. TapCountsPerBridge' = [TapCountsPerBridge EXCEPT ![bridge[c]] = @ + 1]
  BY DrawCases
<1> QED BY <1>1, <1>2

LEMMA DrawSlots ==
  ASSUME SlotInv, NEW c \in Calls, Draw(c)
  PROVE  SlotInv'
<1> USE DEF SlotInv
<1>0. /\ TypeOK /\ vm[c] \in VMs /\ pc[c] = "draw" /\ bridge[c] \in Bridges
      /\ UNCHANGED <<vmMap, createdTaps, links, op, vm, crashed>>
      /\ Room(c) \/ NoRoom(c)
  BY DrawCases
<1>1. CASE Room(c)
  <2> DEFINE n == [bridge |-> bridge[c], index |-> TapCountsPerBridge[bridge[c]]]
  <2>1. n \in Slots
    BY <1>0, <1>1, RangeAssumption DEF Room, Slots, TypeOK
  <2>2. TypeOK'
    <3>1. slot' \in [Calls -> Slots \cup {NoSlot}]
      BY <1>0, <1>1, <2>1 DEF TypeOK, Room
    <3>2. pc' \in [Calls -> Labels]
      BY <1>0, <1>1 DEF TypeOK, Room, Labels
    <3> QED BY <1>0, <1>1, <3>1, <3>2, DrawCounts DEF TypeOK, Room
  <2>3. CallInv'
    <3> SUFFICES ASSUME NEW d \in Calls
                 PROVE  /\ InProgress(d)' => vm'[d] \in VMs
                        /\ pc'[d] \in SlotLabels => slot'[d] \in Slots
                        /\ pc'[d] = "draw" => bridge'[d] \in Bridges
      BY DEF CallInv
    <3>1. CASE d = c
      BY <1>0, <1>1, <2>1, <3>1 DEF Room, TypeOK, SlotLabels
    <3>2. CASE d # c
      BY <1>0, <1>1, <3>2 DEF Room, CallInv, InProgress, TypeOK
    <3> QED BY <3>1, <3>2
  <2>4. ASSUME NEW w \in VMs, NEW s \in Slots, Holds(w, s)'
        PROVE  Holds(w, s) \/ (w = vm[c] /\ s = n)
    <3>1. ASSUME NEW d \in Calls, CallHolds(d, w, s)'
          PROVE  Holds(w, s) \/ (w = vm[c] /\ s = n)
      <4>1. CASE d = c
        BY <1>0, <1>1, <3>1, <4>1 DEF CallHolds, Room, TypeOK
      <4>2. CASE d # c
        <5>1. CallHolds(d, w, s)
          BY <1>0, <1>1, <3>1, <4>2 DEF CallHolds, Room, TypeOK
        <5> QED BY <5>1 DEF Holds
      <4> QED BY <4>1, <4>2
    <3> QED BY <1>0, <2>4, <3>1 DEF Holds
  <2>5. \A w \in VMs : ~Holds(w, n)
    <3>1. n.index = TapCountsPerBridge[n.bridge] /\ n.index \in Int
      BY <1>0 DEF TypeOK
    <3>2. ~(n.index < TapCountsPerBridge[n.bridge])
      BY <3>1
    <3> QED BY <2>1, <3>2 DEF Drawn
  <2>6. Drawn'
    <3> SUFFICES ASSUME NEW w \in VMs, NEW s \in Slots, Holds(w, s)'
                 PROVE  s.index < TapCountsPerBridge'[s.bridge]
      BY DEF Drawn
    <3>1. CASE Holds(w, s)
      <4>1. s.index < TapCountsPerBridge[s.bridge]
        BY <3>1 DEF Drawn
      <4>2. s.index \in Int /\ s.bridge \in Bridges
        BY RangeAssumption DEF Slots
      <4>3. TapCountsPerBridge[s.bridge] \in Int /\ TapCountsPerBridge'[s.bridge] \in Int
        BY <4>2, <1>0, DrawCounts DEF TypeOK
      <4>4. TapCountsPerBridge'[s.bridge] >= TapCountsPerBridge[s.bridge]
        BY <4>2, DrawCounts
      <4> QED BY <4>1, <4>2, <4>3, <4>4
    <3>2. CASE s = n
      <4>1. /\ TapCountsPerBridge'[bridge[c]] = TapCountsPerBridge[bridge[c]] + 1
            /\ TapCountsPerBridge[bridge[c]] \in Int
        BY <1>0, DrawCounts DEF TypeOK
      <4>2. TapCountsPerBridge[bridge[c]] < TapCountsPerBridge'[bridge[c]]
        BY <4>1
      <4> QED BY <3>2, <4>2
    <3> QED BY <2>4, <3>1, <3>2
  <2>7. OneVMPerSlot'
    <3> SUFFICES ASSUME NEW v \in VMs, NEW w \in VMs, NEW s \in Slots,
                        Holds(v, s)', Holds(w, s)'
                 PROVE  v = w
      BY DEF OneVMPerSlot
    <3> QED BY <2>4, <2>5 DEF OneVMPerSlot
  <2> QED BY <2>2, <2>3, <2>6, <2>7
<1>2. CASE NoRoom(c)
  <2>1. bridge[c] + 1 \in 0..NumBridges /\ (bridge[c] + 1 # NumBridges => bridge[c] + 1 \in Bridges)
    BY <1>0, RangeAssumption DEF Bridges
  <2>2. PICK l \in {"nospace", "draw"} :
          pc' = [pc EXCEPT ![c] = l] /\ (l = "draw" => bridge[c] + 1 \in Bridges)
    BY <1>2, <2>1 DEF NoRoom
  <2>3. TypeOK'
    <3>1. bridge' \in [Calls -> 0..NumBridges] /\ pc' \in [Calls -> Labels] /\ slot' = slot
      BY <1>0, <1>2, <2>1, <2>2 DEF NoRoom, TypeOK, Labels
    <3> QED BY <1>0, <3>1, DrawCounts DEF TypeOK
  <2>4. CallInv'
    <3> SUFFICES ASSUME NEW d \in Calls
                 PROVE  /\ InProgress(d)' => vm'[d] \in VMs
                        /\ pc'[d] \in SlotLabels => slot'[d] \in Slots
                        /\ pc'[d] = "draw" => bridge'[d] \in Bridges
      BY DEF CallInv
    <3>1. CASE d = c
      BY <1>0, <1>2, <2>2, <3>1 DEF NoRoom, TypeOK, SlotLabels
    <3>2. CASE d # c
      BY <1>0, <1>2, <2>2, <3>2 DEF NoRoom, CallInv, InProgress, TypeOK
    <3> QED BY <3>1, <3>2
  <2>5. ASSUME NEW w \in VMs, NEW s \in Slots, Holds(w, s)' PROVE Holds(w, s)
    <3>1. ASSUME NEW d \in Calls, CallHolds(d, w, s)' PROVE CallHolds(d, w, s)
      <4>1. d # c
        BY <1>0, <2>2, <3>1 DEF CallHolds, SlotLabels, TypeOK
      <4> QED BY <1>0, <1>2, <2>2, <3>1, <4>1 DEF CallHolds, NoRoom, TypeOK
    <3> QED BY <1>0, <2>5, <3>1 DEF Holds
  <2> QED BY <2>3, <2>4, <2>5, DrawCounts, HoldingsShrink
<1> QED BY <1>0, <1>1, <1>2

LEMMA InitSlots == Init => SlotInv
<1> SUFFICES ASSUME Init PROVE SlotInv
  OBVIOUS
<1>1. TypeOK
  <2>1. 0 \in 0..NumBridges
    BY RangeAssumption
  <2> QED BY <2>1 DEF Init, TypeOK, Labels, Ops
<1>2. CallInv
  BY DEF Init, CallInv, InProgress, SlotLabels
<1>3. \A v \in VMs, s \in Slots : ~Holds(v, s)
  BY NoSlotFact DEF Init, Holds, CallHolds, SlotLabels
<1> QED BY <1>1, <1>2, <1>3 DEF SlotInv, Drawn, OneVMPerSlot

LEMMA NextSlots == SlotInv /\ [Next]_vars => SlotInv'
<1> SUFFICES ASSUME SlotInv, [Next]_vars PROVE SlotInv'
  OBVIOUS
<1>1. CASE UNCHANGED vars
  BY <1>1 DEF vars, tapVars, callVars, SlotInv, TypeOK, CallInv, InProgress, Drawn,
              OneVMPerSlot, Holds, CallHolds
<1>2. ASSUME NEW c \in Calls, NEW o \in Ops, NEW v \in VMs, Begin(c, o, v) PROVE SlotInv'
  BY <1>2, BeginSlots
<1>3. ASSUME NEW c \in Calls, Step(c) PROVE SlotInv'
  BY <1>3, StoreSlots, LinkSlots, RecordSlots, RemoveTapSlots, CheckSlots, DrawSlots
     DEF Step, AddTapStep
<1> QED BY <1>1, <1>2, <1>3 DEF Next

\* The pool's and the tap manager's state is well-formed (vm_pool.go, tapManager.go):
\* a slot drawn is always one of the bridge's, and the loop stops at the last bridge.
THEOREM PoolTypeCorrect == Spec => []TypeOK
<1>1. SlotInv => TypeOK
  BY DEF SlotInv
<1> QED BY <1>1, InitSlots, NextSlots, PTL DEF Spec

\* Two VMs never share an address, for every number of VMs, bridges and concurrent
\* calls: the atomic increment of tapManager.go 174 is enough although the maps are
\* read and written in other critical sections.
THEOREM AddressesUnique == Spec => []UniqueAddresses
BY InitSlots, NextSlots, Unique, PTL DEF Spec

-----------------------------------------------------------------------------
(* The full bridges. *)

\* A step that brings no call into the loop or further along it.
LEMMA BehindKept ==
  ASSUME FullBehind, SlotInv, NEW c \in Calls, NEW l \in Labels \ {"draw", "nospace"},
         pc' = [pc EXCEPT ![c] = l], bridge' = bridge,
         TapCountsPerBridge' = TapCountsPerBridge
  PROVE  FullBehind'
<1> SUFFICES ASSUME NEW d \in Calls, pc'[d] \in {"draw", "nospace"}, NEW b \in Bridges,
                    b < bridge'[d] \/ pc'[d] = "nospace"
             PROVE  TapCountsPerBridge'[b] >= TapsPerBridge
  BY DEF FullBehind
<1>1. pc \in [Calls -> Labels]
  BY DEF SlotInv, TypeOK
<1>2. pc'[d] = pc[d]
  BY <1>1
<1> QED BY <1>2 DEF FullBehind

LEMMA NextBehind == SlotInv /\ FullBehind /\ [Next]_vars => FullBehind'
<1> SUFFICES ASSUME SlotInv, FullBehind, [Next]_vars PROVE FullBehind'
  OBVIOUS
<1>1. CASE UNCHANGED vars
  BY <1>1 DEF vars, tapVars, callVars, FullBehind
<1>2. ASSUME NEW c \in Calls, NEW o \in Ops, NEW v \in VMs, Begin(c, o, v) PROVE FullBehind'
  <2>1. PICK l \in {"failed", "check", "untap", "ok"} : pc' = [pc EXCEPT ![c] = l]
    BY <1>2 DEF Begin, Goto, Ops
  <2> QED BY <1>2, <2>1, BehindKept DEF Begin, tapVars, Labels
<1>3. ASSUME NEW c \in Calls, Store(c) \/ Delete(c) PROVE FullBehind'
  BY <1>3, BehindKept DEF Store, Delete, Goto, tapVars, callVars, Labels
<1>4. ASSUME NEW c \in Calls, Link(c) \/ Reconnect(c) PROVE FullBehind'
  <2>1. PICK l \in {"record", "store", "ok", "failed"} : pc' = [pc EXCEPT ![c] = l]
    BY <1>4 DEF Link, Reconnect, MakeLink, AfterAdd, Goto
  <2> QED BY <1>4, <2>1, BehindKept DEF Link, Reconnect, callVars, Labels
<1>5. ASSUME NEW c \in Calls, Record(c) \/ IPtables(c) PROVE FullBehind'
  <2>1. PICK l \in {"iptables", "store", "ok", "failed"} : pc' = [pc EXCEPT ![c] = l]
    BY <1>5 DEF Record, IPtables, AfterAdd, Goto
  <2> QED BY <1>5, <2>1, BehindKept DEF Record, IPtables, callVars, tapVars, Labels
<1>6. ASSUME NEW c \in Calls, RemoveTap(c) PROVE FullBehind'
  <2>1. PICK l \in {"delete", "check", "failed"} : pc' = [pc EXCEPT ![c] = l]
    BY <1>6 DEF RemoveTap, AfterUntap, Goto
  <2> QED BY <1>6, <2>1, BehindKept DEF RemoveTap, callVars, Labels
<1>7. ASSUME NEW c \in Calls, Check(c) PROVE FullBehind'
  <2> SUFFICES ASSUME NEW d \in Calls, pc'[d] \in {"draw", "nospace"}, NEW b \in Bridges,
                      b < bridge'[d] \/ pc'[d] = "nospace"
               PROVE  TapCountsPerBridge'[b] >= TapsPerBridge
    BY DEF FullBehind
  <2>1. PICK l \in {"reconnect", "draw"} : pc' = [pc EXCEPT ![c] = l]
    BY <1>7 DEF Check, Goto
  <2>2. /\ pc \in [Calls -> Labels] /\ bridge \in [Calls -> 0..NumBridges]
        /\ bridge' = [bridge EXCEPT ![c] = 0] /\ TapCountsPerBridge' = TapCountsPerBridge
    BY <1>7 DEF SlotInv, TypeOK, Check, tapVars
  <2>3. d # c
    BY <2>1, <2>2 DEF Bridges
  <2> QED BY <2>1, <2>2, <2>3 DEF FullBehind
<1>8. ASSUME NEW c \in Calls, Draw(c) PROVE FullBehind'
  <2> SUFFICES ASSUME NEW d \in Calls, pc'[d] \in {"draw", "nospace"}, NEW b \in Bridges,
                      b < bridge'[d] \/ pc'[d] = "nospace"
               PROVE  TapCountsPerBridge'[b] >= TapsPerBridge
    BY DEF FullBehind
  <2>1. /\ TypeOK /\ pc[c] = "draw" /\ bridge[c] \in Bridges
        /\ Room(c) \/ NoRoom(c)
        /\ TapCountsPerBridge' \in [Bridges -> Nat] /\ TapCountsPerBridge \in [Bridges -> Nat]
        /\ TapCountsPerBridge'[b] >= TapCountsPerBridge[b]
        /\ TapsPerBridge \in Nat
    BY <1>8, DrawCases, DrawCounts, RangeAssumption DEF TypeOK
  <2>2. TapCountsPerBridge[b] >= TapsPerBridge
    <3>1. CASE d # c
      <4>1. pc'[d] = pc[d] /\ bridge'[d] = bridge[d]
        BY <2>1, <3>1 DEF Room, NoRoom, TypeOK
      <4> QED BY <4>1 DEF FullBehind
    <3>2. CASE d = c
      <4>1. NoRoom(c)
        BY <2>1, <3>2 DEF Room, TypeOK
      <4>2. /\ bridge'[d] = bridge[c] + 1
            /\ pc'[d] = "nospace" => bridge[c] + 1 = NumBridges
        BY <2>1, <3>2, <4>1 DEF NoRoom, TypeOK
      <4>3. b < bridge[c] \/ b = bridge[c]
        BY <2>1, <4>2, RangeAssumption DEF Bridges
      <4> QED BY <2>1, <4>1, <4>3 DEF FullBehind, NoRoom
    <3> QED BY <3>1, <3>2
  <2> QED BY <2>1, <2>2
<1> QED BY <1>1, <1>2, <1>3, <1>4, <1>5, <1>6, <1>7, <1>8 DEF Next, Step, AddTapStep

\* AddTap reports that there is no space (tapManager.go 190) only when all slots of all
\* bridges have been given out, although other calls draw from the same counters.
THEOREM NoSpaceCorrect == Spec => []NoSpaceOnlyWhenFull
<1>1. Init => FullBehind
  BY DEF Init, FullBehind
<1>2. FullBehind => NoSpaceOnlyWhenFull
  BY DEF FullBehind, NoSpaceOnlyWhenFull
<1> QED BY <1>1, <1>2, InitSlots, NextSlots, NextBehind, PTL DEF Spec

-----------------------------------------------------------------------------
(* Guarded VMs. *)

\* What one VM's entries, and one call on them, have to satisfy.
RecordOK(v) ==
  /\ vmMap[v] # NoSlot => createdTaps[v] = vmMap[v]
  /\ createdTaps[v] # NoSlot => links[v] \in {createdTaps[v], NoSlot}

CallRecordOK(v, c) ==
  /\ pc[c] \in NewTapLabels => createdTaps[v] = NoSlot
  /\ pc[c] = "record" => links[v] = slot[c]
  /\ pc[c] \in {"iptables", "store", "reconnect"} => createdTaps[v] = slot[c]

\* A step of call c on v touches nothing of another VM or another call.
LocalStep(c, v) ==
  /\ vm[c] = v /\ vm' = vm /\ InProgress(c)
  /\ \A d \in Calls \ {c} : pc'[d] = pc[d] /\ slot'[d] = slot[d]
  /\ \A w \in VMs \ {v} : /\ vmMap'[w] = vmMap[w] /\ createdTaps'[w] = createdTaps[w]
                         /\ links'[w] = links[w]

LEMMA LocalGuard ==
  ASSUME GuardInv, NEW c \in Calls, NEW v \in VMs, LocalStep(c, v),
         v \in Guarded => RecordOK(v)' /\ CallRecordOK(v, c)'
  PROVE  GuardInv'
<1>0. Guarded \subseteq VMs
  BY PoolAssumption
<1>1. OneCall'
  <2> SUFFICES ASSUME NEW w \in Guarded, NEW d \in Calls, NEW e \in Calls,
                      InProgress(d)', InProgress(e)', vm'[d] = w, vm'[e] = w
               PROVE  d = e
    BY DEF OneCall
  <2>1. InProgress(d) /\ InProgress(e)
    BY DEF InProgress, LocalStep
  <2> QED BY <2>1 DEF GuardInv, OneCall, LocalStep
<1>2. RecordInv'
  <2> SUFFICES ASSUME NEW w \in Guarded PROVE RecordOK(w)'
    BY DEF RecordInv, RecordOK
  <2>1. CASE w = v
    BY <2>1
  <2>2. CASE w # v
    BY <1>0, <2>2 DEF GuardInv, RecordInv, RecordOK, LocalStep
  <2> QED BY <2>1, <2>2
<1>3. CallRecordInv'
  <2> SUFFICES ASSUME NEW w \in Guarded, NEW d \in Calls, vm'[d] = w
               PROVE  CallRecordOK(w, d)'
    BY DEF CallRecordInv, CallRecordOK
  <2>1. CASE d = c
    BY <2>1 DEF LocalStep
  <2>2. CASE d # c /\ w # v
    BY <1>0, <2>2 DEF GuardInv, CallRecordInv, CallRecordOK, LocalStep
  <2>3. CASE d # c /\ w = v
    <3>1. pc'[d] = pc[d] /\ ~InProgress(d)
      BY <2>3 DEF GuardInv, OneCall, LocalStep
    <3> QED BY <3>1 DEF CallRecordOK, InProgress, NewTapLabels
  <2> QED BY <2>1, <2>2, <2>3
<1> QED BY <1>1, <1>2, <1>3 DEF GuardInv

LEMMA BeginGuard ==
  ASSUME SlotInv, GuardInv, NEW c \in Calls, NEW o \in Ops, NEW v \in VMs, Begin(c, o, v)
  PROVE  GuardInv'
<1>1. pc[c] = "begin" /\ pc \in [Calls -> Labels] /\ vm \in [Calls -> VMs \cup {NoVM}]
  BY DEF SlotInv, TypeOK, Begin, At
<1>2. PICK l \in {"failed", "check", "untap", "ok"} : pc' = [pc EXCEPT ![c] = l]
  BY DEF Begin, Goto, Ops
<1>3. /\ vm' = [vm EXCEPT ![c] = v]
      /\ v \in Guarded => \A d \in Calls : InProgress(d) => vm[d] # v
      /\ UNCHANGED <<vmMap, createdTaps, links, slot>>
  BY DEF Begin, tapVars
<1>4. OneCall'
  <2> SUFFICES ASSUME NEW w \in Guarded, NEW d \in Calls, NEW e \in Calls,
                      InProgress(d)', InProgress(e)', vm'[d] = w, vm'[e] = w
               PROVE  d = e
    BY DEF OneCall
  <2>1. ASSUME NEW x \in Calls, x # c, InProgress(x)', vm'[x] = w
        PROVE  InProgress(x) /\ vm[x] = w
    BY <1>1, <1>2, <1>3, <2>1 DEF InProgress
  <2>2. vm'[c] = v
    BY <1>1, <1>3
  <2> QED BY <1>3, <2>1, <2>2 DEF GuardInv, OneCall
<1>5. RecordInv'
  BY <1>3 DEF GuardInv, RecordInv
<1>6. CallRecordInv'
  <2> SUFFICES ASSUME NEW w \in Guarded, NEW d \in Calls, vm'[d] = w
               PROVE  CallRecordOK(w, d)'
    BY DEF CallRecordInv, CallRecordOK
  <2>1. CASE d = c
    BY <1>1, <1>2, <2>1 DEF CallRecordOK, NewTapLabels
  <2>2. CASE d # c
    BY <1>1, <1>2, <1>3, <2>2 DEF GuardInv, CallRecordInv, CallRecordOK
  <2> QED BY <2>1, <2>2
<1> QED BY <1>4, <1>5, <1>6 DEF GuardInv

\* What is known of the VM of a call in progress.
LEMMA CallKnows ==
  ASSUME SlotInv, GuardInv, NEW c \in Calls, InProgress(c)
  PROVE  /\ TypeOK /\ vm[c] \in VMs
         /\ vm[c] \in Guarded => RecordOK(vm[c]) /\ CallRecordOK(vm[c], c)
BY DEF SlotInv, CallInv, GuardInv, RecordInv, CallRecordInv, RecordOK, CallRecordOK

LEMMA StepGuard ==
  ASSUME SlotInv, GuardInv, NEW c \in Calls, Step(c)
  PROVE  GuardInv'
<1>0. /\ TypeOK /\ vm[c] \in VMs /\ InProgress(c)
      /\ vm[c] \in Guarded => RecordOK(vm[c]) /\ CallRecordOK(vm[c], c)
  <2>1. InProgress(c)
    BY DEF Step, Store, Delete, RemoveTap, AddTapStep, Check, Draw, Link, Record, IPtables,
           Reconnect, At, InProgress
  <2> QED BY <2>1, CallKnows
<1>t. /\ pc \in [Calls -> Labels] /\ slot \in [Calls -> Slots \cup {NoSlot}]
      /\ vmMap \in [VMs -> Slots \cup {NoSlot}] /\ createdTaps \in [VMs -> Slots \cup {NoSlot}]
      /\ links \in [VMs -> Slots \cup {NoSlot}]
  BY <1>0 DEF TypeOK
<1>1. CASE Store(c)
  <2>1. LocalStep(c, vm[c]) /\ pc'[c] = "ok" /\ pc[c] = "store"
    BY <1>0, <1>t, <1>1 DEF Store, At, Goto, tapVars, callVars, LocalStep
  <2>2. vm[c] \in Guarded => RecordOK(vm[c])' /\ CallRecordOK(vm[c], c)'
    BY <1>0, <1>t, <1>1, <2>1 DEF Store, tapVars, callVars, RecordOK, CallRecordOK, NewTapLabels
  <2> QED BY <1>0, <2>1, <2>2, LocalGuard DEF LocalStep, RecordOK, CallRecordOK
<1>2. CASE Delete(c)
  <2>1. LocalStep(c, vm[c]) /\ pc'[c] = "ok"
    BY <1>0, <1>t, <1>2 DEF Delete, At, Goto, tapVars, callVars, LocalStep
  <2>2. vm[c] \in Guarded => RecordOK(vm[c])' /\ CallRecordOK(vm[c], c)'
    BY <1>0, <1>t, <1>2, <2>1 DEF Delete, tapVars, callVars, RecordOK, CallRecordOK, NewTapLabels
  <2> QED BY <1>0, <2>1, <2>2, LocalGuard DEF LocalStep, RecordOK, CallRecordOK
<1>3. CASE RemoveTap(c)
  <2>1. LocalStep(c, vm[c]) /\ pc'[c] \in {"delete", "check", "failed"}
    BY <1>0, <1>t, <1>3 DEF RemoveTap, AfterUntap, At, Goto, callVars, LocalStep
  <2>2. vm[c] \in Guarded => RecordOK(vm[c])' /\ CallRecordOK(vm[c], c)'
    BY <1>0, <1>t, <1>3, <2>1 DEF RemoveTap, callVars, RecordOK, CallRecordOK, NewTapLabels
  <2> QED BY <1>0, <2>1, <2>2, LocalGuard DEF LocalStep, RecordOK, CallRecordOK
<1>4. CASE Check(c)
  <2>1. /\ LocalStep(c, vm[c]) /\ slot'[c] = createdTaps[vm[c]]
        /\ pc'[c] = IF createdTaps[vm[c]] # NoSlot THEN "reconnect" ELSE "draw"
    BY <1>0, <1>t, <1>4 DEF Check, Known, At, Goto, tapVars, LocalStep
  <2>2. vm[c] \in Guarded => RecordOK(vm[c])' /\ CallRecordOK(vm[c], c)'
    BY <1>0, <1>t, <1>4, <2>1 DEF Check, tapVars, RecordOK, CallRecordOK, NewTapLabels
  <2> QED BY <1>0, <2>1, <2>2, LocalGuard DEF LocalStep, RecordOK, CallRecordOK
<1>5. CASE Draw(c)
  <2>0. /\ UNCHANGED <<vmMap, createdTaps, links, vm>> /\ pc[c] = "draw"
        /\ Room(c) \/ NoRoom(c)
    BY <1>5, DrawCases
  <2>1. LocalStep(c, vm[c]) /\ pc'[c] \in {"link", "draw", "nospace"}
    BY <1>0, <1>t, <2>0 DEF Room, NoRoom, LocalStep
  <2>2. vm[c] \in Guarded => RecordOK(vm[c])' /\ CallRecordOK(vm[c], c)'
    BY <1>0, <1>t, <2>0, <2>1 DEF RecordOK, CallRecordOK, NewTapLabels
  <2> QED BY <1>0, <2>1, <2>2, LocalGuard DEF LocalStep, RecordOK, CallRecordOK
<1>6. CASE Link(c)
  <2>1. /\ LocalStep(c, vm[c]) /\ pc'[c] \in {"record", "failed"} /\ pc[c] = "link"
        /\ pc'[c] = "record" => links'[vm[c]] = slot'[c]
    BY <1>0, <1>t, <1>6 DEF Link, MakeLink, At, Goto, callVars, LocalStep
  <2>2. vm[c] \in Guarded => RecordOK(vm[c])' /\ CallRecordOK(vm[c], c)'
    BY <1>0, <1>t, <1>6, <2>1 DEF Link, callVars, RecordOK, CallRecordOK, NewTapLabels
  <2> QED BY <1>0, <2>1, <2>2, LocalGuard DEF LocalStep, RecordOK, CallRecordOK
<1>7. CASE Record(c)
  <2>1. LocalStep(c, vm[c]) /\ pc'[c] = "iptables" /\ pc[c] = "record"
    BY <1>0, <1>t, <1>7 DEF Record, At, Goto, callVars, LocalStep
  <2>2. vm[c] \in Guarded => RecordOK(vm[c])' /\ CallRecordOK(vm[c], c)'
    BY <1>0, <1>t, <1>7, <2>1 DEF Record, callVars, RecordOK, CallRecordOK, NewTapLabels
  <2> QED BY <1>0, <2>1, <2>2, LocalGuard DEF LocalStep, RecordOK, CallRecordOK
<1>8. CASE IPtables(c)
  <2>1. LocalStep(c, vm[c]) /\ pc'[c] \in {"store", "ok", "failed"} /\ pc[c] = "iptables"
    BY <1>0, <1>t, <1>8 DEF IPtables, AfterAdd, At, Goto, callVars, tapVars, LocalStep
  <2>2. vm[c] \in Guarded => RecordOK(vm[c])' /\ CallRecordOK(vm[c], c)'
    BY <1>0, <1>t, <1>8, <2>1 DEF IPtables, callVars, tapVars, RecordOK, CallRecordOK, NewTapLabels
  <2> QED BY <1>0, <2>1, <2>2, LocalGuard DEF LocalStep, RecordOK, CallRecordOK
<1>9. CASE Reconnect(c)
  <2>1. /\ LocalStep(c, vm[c]) /\ pc'[c] \in {"store", "ok", "failed"} /\ pc[c] = "reconnect"
        /\ links'[vm[c]] \in {links[vm[c]], slot[c]}
    BY <1>0, <1>t, <1>9 DEF Reconnect, MakeLink, AfterAdd, At, Goto, callVars, LocalStep
  <2>2. vm[c] \in Guarded => RecordOK(vm[c])' /\ CallRecordOK(vm[c], c)'
    BY <1>0, <1>t, <1>9, <2>1 DEF Reconnect, callVars, RecordOK, CallRecordOK, NewTapLabels
  <2> QED BY <1>0, <2>1, <2>2, LocalGuard DEF LocalStep, RecordOK, CallRecordOK
<1> QED BY <1>1, <1>2, <1>3, <1>4, <1>5, <1>6, <1>7, <1>8, <1>9 DEF Step, AddTapStep

LEMMA NextGuard == SlotInv /\ GuardInv /\ [Next]_vars => GuardInv'
<1> SUFFICES ASSUME SlotInv, GuardInv, [Next]_vars PROVE GuardInv'
  OBVIOUS
<1>1. CASE UNCHANGED vars
  BY <1>1 DEF vars, tapVars, callVars, GuardInv, OneCall, InProgress, RecordInv, CallRecordInv
<1>2. CASE Next
  BY <1>2, BeginGuard, StepGuard DEF Next
<1> QED BY <1>1, <1>2

\* The conjunction IInv is inductive.
THEOREM PoolInductive == Spec => []IInv
<1>1. Init => FullBehind /\ GuardInv
  <2> SUFFICES ASSUME Init PROVE FullBehind /\ GuardInv
    OBVIOUS
  <2>1. Guarded \subseteq VMs
    BY PoolAssumption
  <2> QED BY <2>1 DEF Init, FullBehind, GuardInv, OneCall, InProgress, RecordInv,
                      CallRecordInv, NewTapLabels
<1> QED BY <1>1, InitSlots, NextSlots, NextBehind, NextGuard, PTL DEF Spec, IInv

\* A VM whose callers run one operation at a time keeps the interface it was given
\* (vm_pool.go 39-110): neither errors nor the calls on other VMs make the map, the
\* record and the device disagree.
THEOREM InterfaceCorrect == Spec => []InterfaceStable
<1>1. IInv => InterfaceStable
  BY DEF IInv, GuardInv, RecordInv, InterfaceStable
<1> QED BY <1>1, PoolInductive, PTL

\* Such a VM's record of its tap is never replaced (tapManager.go 165-168).
THEOREM AddressKept == Spec => AddressForGood
<1> DEFINE Kept == \A v \in Guarded : createdTaps[v] # NoSlot => createdTaps'[v] = createdTaps[v]
<1>1. IInv /\ [Next]_vars => [Kept]_vars
  <2> SUFFICES ASSUME IInv, [Next]_vars, NEW v \in Guarded, createdTaps[v] # NoSlot
               PROVE  createdTaps'[v] = createdTaps[v]
    OBVIOUS
  <2>1. ASSUME NEW c \in Calls, Record(c) PROVE createdTaps'[v] = createdTaps[v]
    <3>1. pc[c] = "record" /\ createdTaps' = [createdTaps EXCEPT ![vm[c]] = slot[c]]
      BY <2>1 DEF Record, At
    <3>2. vm[c] # v
      BY <3>1 DEF IInv, GuardInv, CallRecordInv, NewTapLabels
    <3>3. createdTaps \in [VMs -> Slots \cup {NoSlot}] /\ v \in VMs
      BY PoolAssumption DEF IInv, SlotInv, TypeOK
    <3> QED BY <3>1, <3>2, <3>3
  <2>2. ASSUME NEW c \in Calls, Step(c) PROVE createdTaps'[v] = createdTaps[v]
    BY <2>1, <2>2 DEF Step, AddTapStep, Store, Delete, RemoveTap, Check, Draw, Link,
                      IPtables, Reconnect, tapVars
  <2> QED BY <2>2 DEF Next, Begin, vars, tapVars
<1> QED BY <1>1, PoolInductive, PTL DEF Spec, AddressForGood
=============================================================================
