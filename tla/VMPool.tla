------------------------------- MODULE VMPool -------------------------------
(***************************************************************************)
(* The pool of VMs (misc/vm_pool.go) over the tap manager                  *)
(* (taps/tapManager.go): Allocate, Free and RecreateTap of concurrent      *)
(* callers, each of them several steps on the VM map, on the counters of   *)
(* the bridges, on the map of taps ever created and on the host's links.   *)
(*                                                                         *)
(* A tap is named after its VM, so a VM names its tap as well.             *)
(***************************************************************************)
EXTENDS Integers, FiniteSets

CONSTANTS
  Calls,          \* calls of the pool's operations
  VMs,            \* vmIDs
  NumBridges,
  TapsPerBridge,
  NoSlot,
  NoVM,
  NetMayFail,     \* netlink and iptables may return errors
  Guarded         \* the VMs whose callers run one operation at a time

\* The third octet of an address and the two low octets of a MAC are formatted from
\* these products, and a bridge gets one digit of the first octet.
ASSUME RangeAssumption ==
  /\ NumBridges \in 1..10
  /\ TapsPerBridge \in Nat \ {0}
  /\ NumBridges * TapsPerBridge <= 65534

ASSUME PoolAssumption ==
  /\ NoVM \notin VMs
  /\ NoSlot \notin [bridge: 0..(NumBridges - 1), index: 0..(TapsPerBridge - 1)]
  /\ NetMayFail \in BOOLEAN /\ Guarded \subseteq VMs

Bridges == 0..(NumBridges - 1)

\* A place on a bridge: the argument pair of addTap.
Slots == [bridge: Bridges, index: 0..(TapsPerBridge - 1)]

\* getPrimaryAddress, getGatewayAddr and addTap's MAC, octet by octet.
PrimaryAddress(s) == <<190 + s.bridge, 128, (s.index + 2) \div 256, (s.index + 2) % 256>>
GatewayAddress(b) == <<190 + b, 128, 0, 1>>
MacIndex(s) == s.bridge * TapsPerBridge + s.index
MacAddress(s) == <<MacIndex(s) \div 256, MacIndex(s) % 256>>

VARIABLES
  vmMap,        \* VM -> the slot of its network interface, NoSlot if not in the map
  TapCountsPerBridge,
  createdTaps,  \* VM -> the slot its tap was first given
  links,        \* VM -> the slot of its tap device on the host
  pc, op, vm,   \* call: where it is, what it does, to which VM
  bridge,       \* call: the bridge AddTap tries next
  slot,         \* call: the slot it works with
  crashed       \* a call panicked

tapVars == <<TapCountsPerBridge, createdTaps, links>>
callVars == <<op, vm, bridge, slot>>
vars == <<vmMap, tapVars, pc, callVars, crashed>>

Ops == {"Allocate", "Free", "RecreateTap"}
Labels == {"begin", "check", "draw", "link", "record", "iptables", "reconnect",
           "store", "untap", "delete", "ok", "failed", "nospace"}

Init ==
  /\ vmMap = [v \in VMs |-> NoSlot]
  /\ TapCountsPerBridge = [b \in Bridges |-> 0]
  /\ createdTaps = [v \in VMs |-> NoSlot]
  /\ links = [v \in VMs |-> NoSlot]
  /\ pc = [c \in Calls |-> "begin"]
  /\ op = [c \in Calls |-> "Allocate"]
  /\ vm = [c \in Calls |-> NoVM]
  /\ bridge = [c \in Calls |-> 0]
  /\ slot = [c \in Calls |-> NoSlot]
  /\ crashed = FALSE

At(c, l) == ~crashed /\ pc[c] = l
Goto(c, l) == pc' = [pc EXCEPT ![c] = l]
InProgress(c) == pc[c] \notin {"begin", "ok", "failed", "nospace"}

-----------------------------------------------------------------------------
(* misc.VMPool *)

\* The first test of each operation: Allocate panics on a VM in the map, Free
\* ignores a VM that is not, RecreateTap panics on it.
Begin(c, o, v) ==
  /\ At(c, "begin")
  /\ v \in Guarded => \A d \in Calls : InProgress(d) => vm[d] # v
  /\ op' = [op EXCEPT ![c] = o]
  /\ vm' = [vm EXCEPT ![c] = v]
  /\ LET present == vmMap[v] # NoSlot IN
       /\ Goto(c, CASE o = "Allocate" -> IF present THEN "failed" ELSE "check"
                    [] o = "Free" -> IF present THEN "untap" ELSE "ok"
                    [] o = "RecreateTap" -> IF present THEN "untap" ELSE "failed")
       /\ crashed' = \/ o = "Allocate" /\ present
                     \/ o = "RecreateTap" /\ ~present
  /\ UNCHANGED <<vmMap, tapVars, bridge, slot>>

\* Allocate puts the VM into the map when its tap is up.
Store(c) ==
  /\ At(c, "store")
  /\ vmMap' = [vmMap EXCEPT ![vm[c]] = slot[c]]
  /\ Goto(c, "ok")
  /\ UNCHANGED <<tapVars, callVars, crashed>>

Delete(c) ==
  /\ At(c, "delete")
  /\ vmMap' = [vmMap EXCEPT ![vm[c]] = NoSlot]
  /\ Goto(c, "ok")
  /\ UNCHANGED <<tapVars, callVars, crashed>>

AfterAdd(c) == IF op[c] = "Allocate" THEN "store" ELSE "ok"
AfterUntap(c) == IF op[c] = "Free" THEN "delete" ELSE "check"

-----------------------------------------------------------------------------
(* taps.TapManager.AddTap *)

\* Mutant: taps are always created anew.
NeverKnown(c) == FALSE

Known(c) == createdTaps[vm[c]] # NoSlot

Check(c) ==
  /\ At(c, "check")
  /\ bridge' = [bridge EXCEPT ![c] = 0]
  /\ slot' = [slot EXCEPT ![c] = createdTaps[vm[c]]]
  /\ Goto(c, IF Known(c) THEN "reconnect" ELSE "draw")
  /\ UNCHANGED <<vmMap, tapVars, op, vm, crashed>>

\* Mutants: the counter is only read; every bridge but the last is skipped.
CounterOnlyRead(b) == UNCHANGED TapCountsPerBridge
LastBridgeOnly(c) == NumBridges - 1

IndexDrawn(b) == TapCountsPerBridge[b]
IncrementCounter(b) == TapCountsPerBridge' = [TapCountsPerBridge EXCEPT ![b] = @ + 1]

\* The loop's index: bridges are tried in order.
BridgeToTry(c) == bridge[c]

\* One round of the loop: an atomic increment, and the slot if there is room.
Draw(c) ==
  /\ At(c, "draw")
  /\ LET b == BridgeToTry(c) IN
       /\ IncrementCounter(b)
       /\ \/ /\ TapCountsPerBridge[b] < TapsPerBridge
             /\ slot' = [slot EXCEPT ![c] = [bridge |-> b, index |-> IndexDrawn(b)]]
             /\ Goto(c, "link")
             /\ UNCHANGED bridge
          \/ /\ TapCountsPerBridge[b] >= TapsPerBridge
             /\ bridge' = [bridge EXCEPT ![c] = b + 1]
             /\ Goto(c, IF b + 1 = NumBridges THEN "nospace" ELSE "draw")
             /\ UNCHANGED slot
  /\ UNCHANGED <<vmMap, createdTaps, links, op, vm, crashed>>

\* addTap and reconnectTap: netlink.LinkAdd refuses a name that exists; a later
\* error of the same function leaves the device behind.
MakeLink(c, next) ==
  \/ /\ links[vm[c]] = NoSlot
     /\ links' = [links EXCEPT ![vm[c]] = slot[c]]
     /\ Goto(c, next) \/ (NetMayFail /\ Goto(c, "failed"))
  \/ /\ links[vm[c]] # NoSlot \/ NetMayFail
     /\ UNCHANGED links
     /\ Goto(c, "failed")

Link(c) ==
  /\ At(c, "link")
  /\ MakeLink(c, "record")
  /\ UNCHANGED <<vmMap, TapCountsPerBridge, createdTaps, callVars, crashed>>

Reconnect(c) ==
  /\ At(c, "reconnect")
  /\ MakeLink(c, AfterAdd(c))
  /\ UNCHANGED <<vmMap, TapCountsPerBridge, createdTaps, callVars, crashed>>

Record(c) ==
  /\ At(c, "record")
  /\ createdTaps' = [createdTaps EXCEPT ![vm[c]] = slot[c]]
  /\ Goto(c, "iptables")
  /\ UNCHANGED <<vmMap, TapCountsPerBridge, links, callVars, crashed>>

\* ConfigIPtables: an error is returned with the tap created and recorded.
IPtables(c) ==
  /\ At(c, "iptables")
  /\ Goto(c, AfterAdd(c)) \/ (NetMayFail /\ Goto(c, "failed"))
  /\ UNCHANGED <<vmMap, tapVars, callVars, crashed>>

\* taps.TapManager.RemoveTap: neither the counter nor the record is touched, and a
\* missing device is no error.
RemoveTap(c) ==
  /\ At(c, "untap")
  /\ \/ /\ links' = [links EXCEPT ![vm[c]] = NoSlot]
        /\ Goto(c, AfterUntap(c))
     \/ /\ NetMayFail /\ links[vm[c]] # NoSlot
        /\ UNCHANGED links
        /\ Goto(c, "failed")
  /\ UNCHANGED <<vmMap, TapCountsPerBridge, createdTaps, callVars, crashed>>

AddTapStep(c) == Check(c) \/ Draw(c) \/ Link(c) \/ Record(c) \/ IPtables(c) \/ Reconnect(c)

Step(c) == Store(c) \/ Delete(c) \/ RemoveTap(c) \/ AddTapStep(c)

Next == \E c \in Calls : Step(c) \/ \E o \in Ops, v \in VMs : Begin(c, o, v)

Spec == Init /\ [][Next]_vars

-----------------------------------------------------------------------------
(* Properties. *)

\* Every variable keeps the shape of the field or local variable it stands for.
TypeOK ==
  /\ vmMap \in [VMs -> Slots \cup {NoSlot}]
  /\ TapCountsPerBridge \in [Bridges -> Nat]
  /\ createdTaps \in [VMs -> Slots \cup {NoSlot}]
  /\ links \in [VMs -> Slots \cup {NoSlot}]
  /\ pc \in [Calls -> Labels]
  /\ op \in [Calls -> Ops]
  /\ vm \in [Calls -> VMs \cup {NoVM}]
  /\ bridge \in [Calls -> 0..NumBridges]
  /\ slot \in [Calls -> Slots \cup {NoSlot}]
  /\ crashed \in BOOLEAN

\* Two VMs never share an IP or a MAC address, neither on the host's links nor in
\* the interfaces handed to the VMs, and no VM has a gateway's address, whatever
\* calls run together and however often slots were lost to errors
\* (tapManager.go 52-54, 162-192, 270-271).
UniqueAddresses ==
  \A v, w \in VMs :
    /\ \A s \in {links[v], vmMap[v]} \ {NoSlot}, t \in {links[w], vmMap[w]} \ {NoSlot} :
         v # w => PrimaryAddress(s) # PrimaryAddress(t) /\ MacAddress(s) # MacAddress(t)
    /\ \A s \in {links[v], vmMap[v]} \ {NoSlot}, b \in Bridges :
         PrimaryAddress(s) # GatewayAddress(b)

\* For a VM whose callers keep to one operation at a time, the interface it was given
\* is the one the tap manager would reconnect, and the device on the host, if there is
\* one, is that one (vm_pool.go 40-62, 87-110), whatever happens to the other VMs.
InterfaceStable ==
  \A v \in Guarded : vmMap[v] # NoSlot =>
    createdTaps[v] = vmMap[v] /\ links[v] \in {vmMap[v], NoSlot}

\* "No space for creating taps" (tapManager.go 190) is returned only when every slot
\* of every bridge has been given out.
NoSpaceOnlyWhenFull ==
  \A c \in Calls : pc[c] = "nospace" =>
    \A b \in Bridges : TapCountsPerBridge[b] >= TapsPerBridge

\* Such a VM keeps its address for good: the record of its tap is never replaced
\* (tapManager.go 165-168), so a snapshot finds its network again after an offload.
AddressForGood ==
  [][\A v \in Guarded : createdTaps[v] # NoSlot => createdTaps'[v] = createdTaps[v]]_vars
=============================================================================
