------------------------- MODULE Coordinator_proofs -------------------------
(***************************************************************************)
(* Proofs about Coordinator, for any number of calls, images and pods and  *)
(* any set of failing calls.                                               *)
(*                                                                         *)
(* Everything rests on one fact: at any time an instance has at most one   *)
(* owner, and every step hands at most one instance from one owner to the  *)
(* next.  What an owner may rely on (Good) is then a matter of the step    *)
(* that owner takes, because no other step can touch its instance.         *)
(***************************************************************************)
EXTENDS Coordinator, SequenceTheorems, TLAPS

CreatingLabels == {"start", "load", "config", "wait", "insert"}
StoppingLabels == {"snapshot", "offload", "setIdle", "stop"}

\* A create call has the instance in hand, or had it when it failed: nobody else ever gets
\* an instance that a failed call left behind.
Holds(c, i) == instOf[c] = i /\ pc[c] \in CreatingLabels \cup {"failed"}

\* The owners: a create call, the active entry of a container, a stopping goroutine,
\* the idle list of an image.
Owns(t, x, i) ==
  \/ t = "C" /\ x \in Creates /\ Holds(x, i)
  \/ t = "A" /\ x \in Creates /\ Active(x, i)
  \/ t = "S" /\ x \in Removes /\ Stopping(x, i)
  \/ t = "I" /\ x \in Images /\ \E k \in DOMAIN idleInstances[x] : idleInstances[x][k] = i

OneOwner ==
  \A i \in 1..Len(insts) : \A t, x, u, y : Owns(t, x, i) /\ Owns(u, y, i) => t = u /\ x = y

\* No idle list names an instance twice.
NoDuplicates ==
  \A img \in Images : \A k, l \in DOMAIN idleInstances[img] :
    idleInstances[img][k] = idleInstances[img][l] => k = l

\* What an owner knows of its instance.
Offloaded(i) == ~MayFail("offload") => insts[i].vm = "offloaded"

Good(t, x, i) ==
  /\ insts[i].once => insts[i].snap
  /\ t = "C" => /\ insts[i].image = ImageOf[x]
                /\ pc[x] = "load" => Offloaded(i)
                /\ pc[x] \in {"config", "wait", "insert"} => insts[i].vm = "running"
  /\ t = "A" => insts[i].image = ImageOf[x] /\ insts[i].vm = "running"
  /\ t = "S" => /\ rpc[x] \in {"offload", "setIdle"} => insts[i].snap
                /\ rpc[x] = "setIdle" => Offloaded(i)
  /\ t = "I" => insts[i].image = x /\ insts[i].snap /\ Offloaded(i)

AllGood == \A i \in 1..Len(insts) : \A t, x : Owns(t, x, i) => Good(t, x, i)

\* The calls have what they work on.
CreateInv ==
  \A c \in Creates :
    /\ pc[c] \notin {"begin", "failed"} => ImageOf[c] \in Images
    /\ pc[c] \in CreatingLabels => instOf[c] # 0
    /\ pc[c] \in {"begin", "pick"} => instOf[c] = 0

StopInv ==
  \A r \in Removes :
    /\ rpc[r] # "begin" => rmOf[r] \in Creates
    /\ rpc[r] \in StoppingLabels => rmInst[r] # 0

CallInv == CreateInv /\ StopInv

IInv == TypeOK /\ CallInv /\ OneOwner /\ NoDuplicates /\ AllGood

-----------------------------------------------------------------------------
(* The invariant implies the properties. *)

LEMMA Exclusive == IInv => ExclusiveOwner
<1> SUFFICES ASSUME IInv, NEW i \in 1..Len(insts)
             PROVE
               /\ \A c, d \in Creates : Creating(c, i) /\ Creating(d, i) => c = d
               /\ \A c, d \in Creates : Active(c, i) /\ Active(d, i) => c = d
               /\ \A r, s \in Removes : Stopping(r, i) /\ Stopping(s, i) => r = s
               /\ \A img, jmg \in Images :
                    \A k \in DOMAIN idleInstances[img], l \in DOMAIN idleInstances[jmg] :
                       IdleAt(img, k, i) /\ IdleAt(jmg, l, i) => img = jmg /\ k = l
               /\ \A c, d \in Creates : ~(Creating(c, i) /\ Active(d, i))
               /\ \A c \in Creates, r \in Removes : ~(Creating(c, i) /\ Stopping(r, i))
               /\ \A c \in Creates, r \in Removes : ~(Active(c, i) /\ Stopping(r, i))
               /\ Idle(i) => /\ \A c \in Creates : ~Creating(c, i) /\ ~Active(c, i)
                             /\ \A r \in Removes : ~Stopping(r, i)
  BY DEF ExclusiveOwner
<1>1. \A t, x, u, y : Owns(t, x, i) /\ Owns(u, y, i) => t = u /\ x = y
  BY DEF IInv, OneOwner
<1>2. \A c \in Creates : Creating(c, i) => Owns("C", c, i)
  BY DEF Owns, Holds, Creating, CreatingLabels
<1>3. \A c \in Creates : Active(c, i) => Owns("A", c, i)
  BY DEF Owns
<1>4. \A r \in Removes : Stopping(r, i) => Owns("S", r, i)
  BY DEF Owns
<1>5. ASSUME NEW img \in Images, NEW k \in DOMAIN idleInstances[img], IdleAt(img, k, i)
      PROVE  Owns("I", img, i)
  BY <1>5 DEF Owns, IdleAt
<1>6. ASSUME NEW img \in Images, NEW jmg \in Images, NEW k \in DOMAIN idleInstances[img],
             NEW l \in DOMAIN idleInstances[jmg], IdleAt(img, k, i), IdleAt(jmg, l, i)
      PROVE  img = jmg /\ k = l
  <2>1. img = jmg
    BY <1>1, <1>5, <1>6
  <2>2. idleInstances[img][k] = idleInstances[img][l] /\ l \in DOMAIN idleInstances[img]
    BY <1>6, <2>1 DEF IdleAt
  <2> QED BY <2>1, <2>2 DEF IInv, NoDuplicates
<1>7. Idle(i) => \E img \in Images : Owns("I", img, i)
  BY <1>5 DEF Idle
<1>8. "C" # "A" /\ "C" # "S" /\ "A" # "S" /\ "I" # "C" /\ "I" # "A" /\ "I" # "S"
  OBVIOUS
<1> QED BY <1>1, <1>2, <1>3, <1>4, <1>6, <1>7, <1>8, Zenon

LEMMA Running == IInv => ActiveRuns
<1> SUFFICES ASSUME IInv, NEW c \in Creates, activeInstances[c] # 0
             PROVE  /\ insts[activeInstances[c]].vm = "running"
                    /\ insts[activeInstances[c]].image = ImageOf[c]
  BY DEF ActiveRuns
<1>1. activeInstances[c] \in 1..Len(insts)
  BY DEF IInv, TypeOK
<1>2. Owns("A", c, activeInstances[c])
  BY DEF Owns, Active
<1>3. Good("A", c, activeInstances[c])
  BY <1>1, <1>2 DEF IInv, AllGood
<1> QED BY <1>3 DEF Good

LEMMA Loadable == IInv => IdleLoadable
<1> SUFFICES ASSUME IInv, NEW img \in Images, NEW k \in DOMAIN idleInstances[img]
             PROVE  LET fi == insts[idleInstances[img][k]]
                    IN  /\ fi.image = img /\ fi.snap
                        /\ ~MayFail("offload") => fi.vm = "offloaded"
  BY DEF IdleLoadable
<1>1. idleInstances[img][k] \in 1..Len(insts)
  BY DEF IInv, TypeOK
<1>2. Owns("I", img, idleInstances[img][k])
  BY DEF Owns
<1>3. Good("I", img, idleInstances[img][k])
  BY <1>1, <1>2 DEF IInv, AllGood
<1> QED BY <1>3 DEF Good, Offloaded

-----------------------------------------------------------------------------
(* One instance changes hands. *)

\* After the step only (t0, x0) owns i0; the other owners keep theirs and what they know.
LEMMA Transfer ==
  ASSUME OneOwner, AllGood, NEW i0, NEW t0, NEW x0,
         \A i \in 1..Len(insts') : \A t, x : Owns(t, x, i)' =>
            \/ i # i0 /\ i \in 1..Len(insts) /\ Owns(t, x, i) /\ (Good(t, x, i) => Good(t, x, i)')
            \/ i = i0 /\ t = t0 /\ x = x0 /\ Good(t0, x0, i0)'
  PROVE  OneOwner' /\ AllGood'
<1>1. OneOwner'
  <2> SUFFICES ASSUME NEW i \in 1..Len(insts'), NEW t, NEW x, NEW u, NEW y,
                      Owns(t, x, i)', Owns(u, y, i)'
               PROVE  t = u /\ x = y
    BY DEF OneOwner
  <2> QED BY DEF OneOwner
<1>2. AllGood'
  <2> SUFFICES ASSUME NEW i \in 1..Len(insts'), NEW t, NEW x, Owns(t, x, i)'
               PROVE  Good(t, x, i)'
    BY DEF AllGood
  <2> QED BY DEF AllGood
<1> QED BY <1>1, <1>2

\* A step of create call c that leaves the maps and the stopping goroutines alone and
\* changes no instance but i0, which nobody but c can own.
LEMMA CreateFrame ==
  ASSUME OneOwner, AllGood, NEW c \in Creates, NEW i0,
         \A d \in Creates : d # c => pc'[d] = pc[d] /\ instOf'[d] = instOf[d],
         UNCHANGED <<activeInstances, idleInstances, rpc, rmInst>>,
         \A i \in 1..Len(insts') : i # i0 => i \in 1..Len(insts) /\ insts'[i] = insts[i],
         \A i \in 1..Len(insts') : Holds(c, i)' => i = i0,
         i0 \in 1..Len(insts') => \A t, x : Owns(t, x, i0) => t = "C" /\ x = c,
         i0 \in 1..Len(insts') /\ Holds(c, i0)' => Good("C", c, i0)'
  PROVE  OneOwner' /\ AllGood'
<1> SUFFICES ASSUME NEW i \in 1..Len(insts'), NEW t, NEW x, Owns(t, x, i)'
             PROVE  \/ i # i0 /\ i \in 1..Len(insts) /\ Owns(t, x, i)
                       /\ (Good(t, x, i) => Good(t, x, i)')
                    \/ i = i0 /\ t = "C" /\ x = c /\ Good("C", c, i0)'
  BY Transfer, Zenon
<1>1. CASE t = "C" /\ x = c
  <2>1. Holds(c, i)'
    BY <1>1 DEF Owns
  <2> QED BY <1>1, <2>1
<1>2. CASE ~(t = "C" /\ x = c)
  <2>1. Owns(t, x, i)
    BY <1>2 DEF Owns, Holds, Active, Stopping
  <2>2. i # i0
    BY <1>2, <2>1
  <2>3. Good(t, x, i) => Good(t, x, i)'
    <3>1. insts'[i] = insts[i]
      BY <2>2
    <3>2. CASE t = "C"
      BY <1>2, <2>1, <3>1, <3>2 DEF Good, Offloaded, Owns
    <3>3. CASE t # "C"
      BY <3>1, <3>3 DEF Good, Offloaded
    <3> QED BY <3>2, <3>3
  <2> QED BY <2>1, <2>2, <2>3
<1> QED BY <1>1, <1>2

\* The same for a stopping goroutine.
LEMMA StopFrame ==
  ASSUME OneOwner, AllGood, NEW r \in Removes, NEW i0,
         \A s \in Removes : s # r => rpc'[s] = rpc[s] /\ rmInst'[s] = rmInst[s],
         UNCHANGED <<activeInstances, idleInstances, pc, instOf>>,
         Len(insts') = Len(insts),
         \A i \in 1..Len(insts) : i # i0 => insts'[i] = insts[i],
         \A i \in 1..Len(insts) : Stopping(r, i)' => i = i0,
         i0 \in 1..Len(insts) => \A t, x : Owns(t, x, i0) => t = "S" /\ x = r,
         i0 \in 1..Len(insts) /\ Stopping(r, i0)' => Good("S", r, i0)'
  PROVE  OneOwner' /\ AllGood'
<1> SUFFICES ASSUME NEW i \in 1..Len(insts'), NEW t, NEW x, Owns(t, x, i)'
             PROVE  \/ i # i0 /\ i \in 1..Len(insts) /\ Owns(t, x, i)
                       /\ (Good(t, x, i) => Good(t, x, i)')
                    \/ i = i0 /\ t = "S" /\ x = r /\ Good("S", r, i0)'
  BY Transfer, Zenon
<1>0. i \in 1..Len(insts)
  OBVIOUS
<1>1. CASE t = "S" /\ x = r
  <2>1. Stopping(r, i)'
    BY <1>1 DEF Owns
  <2> QED BY <1>0, <1>1, <2>1
<1>2. CASE ~(t = "S" /\ x = r)
  <2>1. Owns(t, x, i)
    BY <1>2 DEF Owns, Holds, Active, Stopping
  <2>2. i # i0
    BY <1>0, <1>2, <2>1
  <2>3. Good(t, x, i) => Good(t, x, i)'
    <3>1. insts'[i] = insts[i]
      BY <1>0, <2>2
    <3>2. CASE t = "S"
      BY <1>2, <2>1, <3>1, <3>2 DEF Good, Offloaded, Owns
    <3>3. CASE t # "S"
      BY <3>1, <3>3 DEF Good, Offloaded
    <3> QED BY <3>2, <3>3
  <2> QED BY <1>0, <2>1, <2>2, <2>3
<1> QED BY <1>1, <1>2

\* A step that changes one instance in place.
LEMMA SetVMFacts ==
  ASSUME NEW i \in 1..Len(insts), insts \in Seq(Instance), NEW v \in VMStates, SetVM(i, v)
  PROVE  /\ insts' \in Seq(Instance) /\ Len(insts') = Len(insts)
         /\ insts'[i].vm = v /\ insts'[i].image = insts[i].image
         /\ insts'[i].snap = insts[i].snap /\ insts'[i].once = insts[i].once
         /\ \A j \in 1..Len(insts) : j # i => insts'[j] = insts[j]
<1>1. insts[i] \in Instance
  OBVIOUS
<1>2. [insts[i] EXCEPT !.vm = v] \in Instance
  BY <1>1 DEF Instance
<1>3. insts' = [insts EXCEPT ![i] = [insts[i] EXCEPT !.vm = v]]
  BY DEF SetVM
<1>4. insts' \in Seq(Instance) /\ Len(insts') = Len(insts)
  BY <1>2, <1>3
<1>5. insts'[i] = [insts[i] EXCEPT !.vm = v]
  BY <1>3
<1>6. /\ insts'[i].vm = v /\ insts'[i].image = insts[i].image
      /\ insts'[i].snap = insts[i].snap /\ insts'[i].once = insts[i].once
  BY <1>1, <1>5 DEF Instance
<1> QED BY <1>3, <1>4, <1>6

\* The owner of an instance is the only one.
LEMMA HolderOwns ==
  ASSUME IInv, NEW c \in Creates, pc[c] \in CreatingLabels \cup {"failed"}, instOf[c] # 0
  PROVE  /\ instOf[c] \in 1..Len(insts) /\ Owns("C", c, instOf[c])
         /\ \A t, x : Owns(t, x, instOf[c]) => t = "C" /\ x = c
         /\ Good("C", c, instOf[c])
<1>1. instOf[c] \in 1..Len(insts)
  BY DEF IInv, TypeOK
<1>2. Owns("C", c, instOf[c])
  BY DEF Owns, Holds
<1> QED BY <1>1, <1>2, Zenon DEF IInv, OneOwner, AllGood

LEMMA CreatorOwns ==
  ASSUME IInv, NEW c \in Creates, pc[c] \in CreatingLabels
  PROVE  /\ instOf[c] \in 1..Len(insts) /\ Owns("C", c, instOf[c])
         /\ \A t, x : Owns(t, x, instOf[c]) => t = "C" /\ x = c
         /\ Good("C", c, instOf[c])
<1>1. instOf[c] # 0
  BY DEF IInv, CallInv, CreateInv
<1> QED BY <1>1, HolderOwns

LEMMA StopperOwns ==
  ASSUME IInv, NEW r \in Removes, rpc[r] \in StoppingLabels
  PROVE  /\ rmInst[r] \in 1..Len(insts) /\ Owns("S", r, rmInst[r])
         /\ \A t, x : Owns(t, x, rmInst[r]) => t = "S" /\ x = r
         /\ Good("S", r, rmInst[r])
<1>1. rmInst[r] \in 1..Len(insts)
  BY DEF IInv, TypeOK, CallInv, StopInv
<1>2. Owns("S", r, rmInst[r])
  BY DEF Owns, Stopping, StoppingLabels
<1> QED BY <1>1, <1>2, Zenon DEF IInv, OneOwner, AllGood

-----------------------------------------------------------------------------
(* Create calls. *)

\* Steps of a create call that change nothing but where it is and its placeholder.
LEMMA QuietCreate ==
  ASSUME IInv, NEW c \in Creates, CreateBegin(c) \/ StockWait(c) \/ StockCreate(c)
  PROVE  IInv'
<1> USE DEF IInv
<1>1. PICK l \in CreateLabels : pc' = [pc EXCEPT ![c] = l] /\
        \/ l = pc[c]
        \/ pc[c] = "begin" /\ l = "failed"
        \/ pc[c] = "begin" /\ l = "pick" /\ ImageOf[c] # NoImage
        \/ pc[c] = "wait" /\ l \in {"insert", "failed"}
  <2>1. pc \in [Creates -> CreateLabels]
    BY DEF TypeOK
  <2>2. CASE StockCreate(c)
    BY <2>1, <2>2 DEF StockCreate
  <2>3. CASE CreateBegin(c)
    BY <2>1, <2>3 DEF CreateBegin, HasImage, GotoC, CreateLabels
  <2>4. CASE StockWait(c)
    BY <2>1, <2>4 DEF StockWait, GotoC, CreateLabels
  <2> QED BY <2>2, <2>3, <2>4
<1>2. /\ UNCHANGED <<instOf, coordVars, podVMConfigs, removeVars, proxyVars>>
      /\ stock' \in [Creates -> {"none", "pending", "created", "error"}]
  BY DEF CreateBegin, StockWait, StockCreate, TypeOK
<1>3. TypeOK'
  BY <1>1, <1>2 DEF TypeOK, coordVars, removeVars, proxyVars
<1>4. CallInv'
  <2>1. ImageOf[c] # NoImage => ImageOf[c] \in Images
    BY CallsAssumption
  <2>2. CreateInv'
    BY <1>1, <1>2, <2>1 DEF TypeOK, CallInv, CreateInv, CreatingLabels
  <2>3. StopInv'
    BY <1>2 DEF CallInv, StopInv, removeVars
  <2> QED BY <2>2, <2>3 DEF CallInv
<1>5. NoDuplicates'
  BY <1>2 DEF NoDuplicates, coordVars
<1>6. OneOwner' /\ AllGood'
  <2>1. \A d \in Creates : d # c => pc'[d] = pc[d] /\ instOf'[d] = instOf[d]
    BY <1>1, <1>2 DEF TypeOK
  <2>2. UNCHANGED <<activeInstances, idleInstances, rpc, rmInst, insts>>
    BY <1>2 DEF coordVars, removeVars
  <2>3. CASE pc[c] \in CreatingLabels \cup {"failed"} /\ instOf[c] # 0
    <3>0. PICK i0 : i0 = instOf[c]
      OBVIOUS
    <3>1. /\ \A t, x : Owns(t, x, i0) => t = "C" /\ x = c
          /\ Good("C", c, i0) /\ i0 \in 1..Len(insts)
      BY <2>3, <3>0, HolderOwns
    <3>2. \A i \in 1..Len(insts') : Holds(c, i)' => i = i0
      BY <1>2, <3>0 DEF Holds
    <3>3. pc'[c] = l
      BY <1>1 DEF TypeOK
    <3>4. Holds(c, i0)' => Good("C", c, i0)'
      BY <1>1, <2>2, <2>3, <3>1, <3>3 DEF Good, Holds, Offloaded, CreatingLabels
    <3> QED BY <2>1, <2>2, <3>1, <3>2, <3>4, CreateFrame
  <2>4. CASE ~(pc[c] \in CreatingLabels \cup {"failed"} /\ instOf[c] # 0)
    <3>1. \A i \in 1..Len(insts') : i # 0
      OBVIOUS
    <3>2. \A i \in 1..Len(insts') : ~Holds(c, i)'
      <4>1. (pc[c] = "begin" => instOf[c] = 0) /\ (pc[c] \in CreatingLabels => instOf[c] # 0)
        BY DEF CallInv, CreateInv
      <4>2. pc'[c] = l
        BY <1>1 DEF TypeOK
      <4> QED BY <1>1, <1>2, <2>4, <3>1, <4>1, <4>2 DEF Holds, CreatingLabels
    <3>3. 0 \notin 1..Len(insts')
      OBVIOUS
    <3> QED BY <2>1, <2>2, <3>1, <3>2, <3>3, CreateFrame
  <2> QED BY <2>3, <2>4
<1> QED BY <1>3, <1>4, <1>5, <1>6

\* Starting and loading: the instance of the call becomes a running VM, or the call
\* gives it up.
LEMMA StartLoad ==
  ASSUME IInv, NEW c \in Creates, StartVM(c) \/ LoadInstance(c)
  PROVE  IInv'
<1> USE DEF IInv
<1>1. pc[c] \in {"start", "load"}
  BY DEF StartVM, LoadInstance
<1>0. PICK i0 : i0 = instOf[c]
  OBVIOUS
<1>2. /\ i0 \in 1..Len(insts) /\ Good("C", c, i0)
      /\ \A t, x : Owns(t, x, i0) => t = "C" /\ x = c
  BY <1>0, <1>1, CreatorOwns DEF CreatingLabels
<1>3. /\ UNCHANGED <<stock, instOf, activeInstances, idleInstances, podVMConfigs, removeVars,
                     proxyVars>>
      /\ \/ SetVM(i0, "running") /\ pc' = [pc EXCEPT ![c] = "config"]
         \/ insts' = insts /\ pc' = [pc EXCEPT ![c] = "failed"]
         \/ SetVM(i0, "paused") /\ pc' = [pc EXCEPT ![c] = "failed"]
  BY <1>0 DEF StartVM, LoadInstance, GotoC
<1>4. insts \in Seq(Instance) /\ pc \in [Creates -> CreateLabels]
  BY DEF TypeOK
<1>5. /\ insts' \in Seq(Instance) /\ Len(insts') = Len(insts)
      /\ \A j \in 1..Len(insts) : j # i0 => insts'[j] = insts[j]
  BY <1>2, <1>3, <1>4, SetVMFacts DEF VMStates
<1>6. PICK l \in {"config", "failed"} : pc' = [pc EXCEPT ![c] = l]
  BY <1>3
<1>7. TypeOK'
  BY <1>3, <1>5, <1>6 DEF TypeOK, CreateLabels, removeVars, proxyVars
<1>8. CallInv'
  <2>1. CreateInv'
    BY <1>1, <1>3, <1>4, <1>6 DEF CallInv, CreateInv, CreatingLabels
  <2>2. StopInv'
    BY <1>3 DEF CallInv, StopInv, removeVars
  <2> QED BY <2>1, <2>2 DEF CallInv
<1>9. NoDuplicates'
  BY <1>3 DEF NoDuplicates
<1>10. OneOwner' /\ AllGood'
  <2>1. \A d \in Creates : d # c => pc'[d] = pc[d] /\ instOf'[d] = instOf[d]
    BY <1>3, <1>4, <1>6
  <2>2. UNCHANGED <<activeInstances, idleInstances, rpc, rmInst>>
    BY <1>3 DEF removeVars
  <2>3. \A i \in 1..Len(insts') : Holds(c, i)' => i = i0
    BY <1>0, <1>3 DEF Holds
  <2>4. Holds(c, i0)' => Good("C", c, i0)'
    <3>1. CASE SetVM(i0, "running") /\ pc' = [pc EXCEPT ![c] = "config"]
      <4>1. /\ insts'[i0].vm = "running" /\ insts'[i0].image = insts[i0].image
            /\ insts'[i0].snap = insts[i0].snap
            /\ insts'[i0].once = insts[i0].once
        BY <1>2, <1>4, <3>1, SetVMFacts DEF VMStates
      <4>2. pc'[c] = "config"
        BY <1>4, <3>1
      <4> QED BY <1>2, <4>1, <4>2 DEF Good
    <3>2. CASE pc' = [pc EXCEPT ![c] = "failed"] /\ (insts' = insts \/ SetVM(i0, "paused"))
      <4>1. /\ insts'[i0].image = insts[i0].image /\ insts'[i0].snap = insts[i0].snap
            /\ insts'[i0].once = insts[i0].once
        BY <1>2, <1>4, <3>2, SetVMFacts DEF VMStates
      <4>2. pc'[c] = "failed"
        BY <1>4, <3>2
      <4> QED BY <1>2, <4>1, <4>2 DEF Good
    <3> QED BY <1>3, <3>1, <3>2
  <2> QED BY <1>2, <1>5, <2>1, <2>2, <2>3, <2>4, CreateFrame
<1> QED BY <1>7, <1>8, <1>9, <1>10

LEMMA PodConfig ==
  ASSUME IInv, NEW c \in Creates, InsertPodVMConfig(c)
  PROVE  IInv'
<1> USE DEF IInv
<1>1. /\ pc[c] = "config" /\ pc' = [pc EXCEPT ![c] = "wait"]
      /\ podVMConfigs' = [podVMConfigs EXCEPT ![PodOf[c]] = instOf[c]]
      /\ UNCHANGED <<stock, instOf, coordVars, removeVars, proxyVars>>
  BY DEF InsertPodVMConfig, GotoC, FileUnderPod
<1>2. TypeOK'
  BY <1>1 DEF TypeOK, CreateLabels, coordVars, removeVars, proxyVars
<1>3. CallInv'
  BY <1>1 DEF TypeOK, CallInv, CreateInv, StopInv, CreatingLabels, removeVars
<1>4. NoDuplicates'
  BY <1>1 DEF NoDuplicates, coordVars
<1>5. OneOwner' /\ AllGood'
  <2>1. \A d \in Creates : d # c => pc'[d] = pc[d] /\ instOf'[d] = instOf[d]
    BY <1>1 DEF TypeOK
  <2>2. UNCHANGED <<activeInstances, idleInstances, rpc, rmInst, insts, instOf>>
    BY <1>1 DEF coordVars, removeVars
  <2>3. /\ \A t, x : Owns(t, x, instOf[c]) => t = "C" /\ x = c
        /\ Good("C", c, instOf[c]) /\ instOf[c] \in 1..Len(insts)
    BY <1>1, CreatorOwns DEF CreatingLabels
  <2>4. \A i \in 1..Len(insts') : Holds(c, i)' => i = instOf[c]
    BY <2>2 DEF Holds
  <2>5. pc'[c] = "wait"
    BY <1>1 DEF TypeOK
  <2>6. Good("C", c, instOf[c])'
    BY <1>1, <2>2, <2>3, <2>5 DEF Good
  <2> QED BY <2>1, <2>2, <2>3, <2>4, <2>6, CreateFrame
<1> QED BY <1>2, <1>3, <1>4, <1>5

\* A new instance has no owner but the call that drew its id.
LEMMA DrawNew ==
  ASSUME IInv, NEW c \in Creates, DrawID(c)
  PROVE  IInv'
<1> USE DEF IInv
<1>0. PICK i0 : i0 = Len(insts) + 1
  OBVIOUS
<1>1. PICK new : new = [image |-> ImageOf[c], vm |-> "none", snap |-> FALSE, once |-> FALSE]
  OBVIOUS
<1>2. /\ pc[c] = "pick" /\ pc' = [pc EXCEPT ![c] = "start"]
      /\ insts' = Append(insts, new) /\ instOf' = [instOf EXCEPT ![c] = i0]
      /\ UNCHANGED <<stock, activeInstances, idleInstances, podVMConfigs, removeVars, proxyVars>>
  BY <1>0, <1>1 DEF DrawID, GotoC, FreshID
<1>3. ImageOf[c] \in Images
  BY <1>2 DEF CallInv, CreateInv
<1>4. new \in Instance
  BY <1>1, <1>3 DEF Instance, VMStates
<1>5. insts \in Seq(Instance) /\ Len(insts) \in Nat
  BY DEF TypeOK
<1>6. /\ insts' \in Seq(Instance) /\ Len(insts') = Len(insts) + 1 /\ insts'[i0] = new
      /\ \A j \in 1..Len(insts) : insts'[j] = insts[j]
  BY <1>0, <1>2, <1>4, <1>5
<1>7. TypeOK'
  <2>1. 0..Len(insts) \subseteq 0..Len(insts') /\ i0 \in 0..Len(insts')
    BY <1>0, <1>5, <1>6
  <2>2. idleInstances' \in [Images -> Seq(1..Len(insts'))]
    <3>1. ASSUME NEW q \in Seq(1..Len(insts)) PROVE q \in Seq(1..Len(insts'))
      BY <1>5, <1>6
    <3> QED BY <1>2, <3>1 DEF TypeOK
  <2>3. pc' \in [Creates -> CreateLabels]
    BY <1>2 DEF TypeOK, CreateLabels
  <2>4. instOf' \in [Creates -> 0..Len(insts')]
    BY <1>2, <2>1 DEF TypeOK
  <2>5. /\ activeInstances' \in [Creates -> 0..Len(insts')]
        /\ podVMConfigs' \in [Pods -> 0..Len(insts')]
        /\ rmInst' \in [Removes -> 0..Len(insts')]
        /\ qVM' \in [Proxies -> 0..Len(insts')]
    BY <1>2, <2>1 DEF TypeOK, removeVars, proxyVars
  <2> QED BY <1>2, <1>6, <2>2, <2>3, <2>4, <2>5 DEF TypeOK, removeVars, proxyVars
<1>8. CallInv'
  <2>1. i0 # 0
    BY <1>0, <1>5
  <2> QED BY <1>2, <1>3, <2>1 DEF TypeOK, CallInv, CreateInv, StopInv, CreatingLabels, removeVars
<1>9. NoDuplicates'
  BY <1>2 DEF NoDuplicates
<1>10. OneOwner' /\ AllGood'
  <2>1. \A d \in Creates : d # c => pc'[d] = pc[d] /\ instOf'[d] = instOf[d]
    BY <1>2 DEF TypeOK
  <2>2. UNCHANGED <<activeInstances, idleInstances, rpc, rmInst>>
    BY <1>2 DEF removeVars
  <2>3. \A i \in 1..Len(insts') : i # i0 => i \in 1..Len(insts) /\ insts'[i] = insts[i]
    BY <1>0, <1>5, <1>6
  <2>4. instOf'[c] = i0 /\ pc'[c] = "start"
    BY <1>2 DEF TypeOK
  <2>5. \A i \in 1..Len(insts') : Holds(c, i)' => i = i0
    BY <2>4 DEF Holds
  <2>6. \A t, x : ~Owns(t, x, i0)
    <3>1. i0 \notin 0..Len(insts)
      BY <1>0, <1>5
    <3>2. \A d \in Creates : instOf[d] # i0 /\ activeInstances[d] # i0
      BY <3>1 DEF TypeOK
    <3>3. \A r \in Removes : rmInst[r] # i0
      BY <3>1 DEF TypeOK
    <3>4. \A img \in Images : \A k \in DOMAIN idleInstances[img] : idleInstances[img][k] # i0
      BY <3>1 DEF TypeOK
    <3> QED BY <3>2, <3>3, <3>4 DEF Owns, Holds, Active, Stopping
  <2>7. Good("C", c, i0)'
    BY <1>1, <1>6, <2>4 DEF Good
  <2> QED BY <2>1, <2>2, <2>3, <2>5, <2>6, <2>7, CreateFrame
<1> QED BY <1>7, <1>8, <1>9, <1>10

\* The head of an idle list leaves it for good: the list names it once.
LEMMA TakeFirst ==
  ASSUME IInv, NEW c \in Creates, TakeIdle(c)
  PROVE  IInv'
<1> USE DEF IInv
<1>0. PICK img : img = ImageOf[c]
  OBVIOUS
<1>1. PICK list : list = idleInstances[img]
  OBVIOUS
<1>2. PICK i0 : i0 = Head(list)
  OBVIOUS
<1>3. /\ pc[c] = "pick" /\ pc' = [pc EXCEPT ![c] = "load"] /\ list # <<>>
      /\ instOf' = [instOf EXCEPT ![c] = i0]
      /\ idleInstances' = [idleInstances EXCEPT ![img] = Tail(list)]
      /\ UNCHANGED <<stock, insts, activeInstances, podVMConfigs, removeVars, proxyVars>>
  BY <1>0, <1>1, <1>2 DEF TakeIdle, GotoC, PopIdle
<1>4. img \in Images
  BY <1>0, <1>3 DEF CallInv, CreateInv
<1>5. list \in Seq(1..Len(insts)) /\ insts \in Seq(Instance)
  BY <1>1, <1>4 DEF TypeOK
<1>6. /\ i0 \in 1..Len(insts) /\ Tail(list) \in Seq(1..Len(insts)) /\ 1 \in DOMAIN list
      /\ i0 = list[1] /\ \A k \in DOMAIN Tail(list) : k + 1 \in DOMAIN list /\ Tail(list)[k] = list[k + 1]
  BY <1>2, <1>3, <1>5
<1>7. /\ idleInstances'[img] = Tail(list)
      /\ \A j \in Images : j # img => idleInstances'[j] = idleInstances[j]
  BY <1>3, <1>4 DEF TypeOK
<1>8. TypeOK'
  <2>1. idleInstances' \in [Images -> Seq(1..Len(insts))]
    BY <1>3, <1>4, <1>6 DEF TypeOK
  <2>2. instOf' \in [Creates -> 0..Len(insts)] /\ pc' \in [Creates -> CreateLabels]
    BY <1>3, <1>6 DEF TypeOK, CreateLabels
  <2> QED BY <1>3, <2>1, <2>2 DEF TypeOK, removeVars, proxyVars
<1>9. CallInv'
  <2>1. i0 # 0
    BY <1>6
  <2> QED BY <1>0, <1>3, <1>4, <2>1 DEF TypeOK, CallInv, CreateInv, StopInv, CreatingLabels, removeVars
<1>10. \A k \in DOMAIN Tail(list) : Tail(list)[k] # i0
  <2> SUFFICES ASSUME NEW k \in DOMAIN Tail(list), Tail(list)[k] = i0 PROVE FALSE
    OBVIOUS
  <2>1. k + 1 \in DOMAIN list /\ list[k + 1] = list[1]
    BY <1>6
  <2>2. k + 1 = 1
    BY <1>1, <1>4, <1>6, <2>1 DEF NoDuplicates
  <2>3. k \in 1..Len(Tail(list))
    BY <1>6
  <2> QED BY <2>2, <2>3
<1>11. NoDuplicates'
  <2> SUFFICES ASSUME NEW j \in Images, NEW k \in DOMAIN idleInstances'[j],
                      NEW l \in DOMAIN idleInstances'[j],
                      idleInstances'[j][k] = idleInstances'[j][l]
               PROVE  k = l
    BY DEF NoDuplicates
  <2>1. CASE j # img
    BY <1>7, <2>1 DEF NoDuplicates
  <2>2. CASE j = img
    <3>1. k \in DOMAIN Tail(list) /\ l \in DOMAIN Tail(list) /\ Tail(list)[k] = Tail(list)[l]
      BY <1>7, <2>2
    <3>2. k + 1 \in DOMAIN list /\ l + 1 \in DOMAIN list /\ list[k + 1] = list[l + 1]
      BY <1>6, <3>1
    <3>3. k + 1 = l + 1
      BY <1>1, <1>4, <3>2 DEF NoDuplicates
    <3>4. k \in Int /\ l \in Int
      BY <1>6, <3>1
    <3> QED BY <3>3, <3>4
  <2> QED BY <2>1, <2>2
<1>12. Owns("I", img, i0)
  BY <1>1, <1>4, <1>6 DEF Owns
<1>13. /\ \A t, x : Owns(t, x, i0) => t = "I" /\ x = img
       /\ Good("I", img, i0)
  BY <1>6, <1>12, Zenon DEF OneOwner, AllGood
<1>14. OneOwner' /\ AllGood'
  <2>0. pc'[c] = "load" /\ instOf'[c] = i0 /\ \A d \in Creates : d # c => pc'[d] = pc[d] /\ instOf'[d] = instOf[d]
    BY <1>3 DEF TypeOK
  <2> SUFFICES ASSUME NEW i \in 1..Len(insts'), NEW t, NEW x, Owns(t, x, i)'
               PROVE  \/ i # i0 /\ i \in 1..Len(insts) /\ Owns(t, x, i)
                         /\ (Good(t, x, i) => Good(t, x, i)')
                      \/ i = i0 /\ t = "C" /\ x = c /\ Good("C", c, i0)'
    BY Transfer, Zenon
  <2>1. CASE t = "C" /\ x = c
    <3>1. i = i0
      BY <2>0, <2>1 DEF Owns, Holds
    <3>2. Good("C", c, i0)'
      BY <1>0, <1>3, <1>13, <2>0 DEF Good, Offloaded
    <3> QED BY <2>1, <3>1, <3>2
  <2>2. CASE ~(t = "C" /\ x = c)
    <3>1. Owns(t, x, i)
      <4>1. CASE t = "I" /\ x = img
        <5>1. PICK k \in DOMAIN Tail(list) : Tail(list)[k] = i
          BY <1>7, <4>1 DEF Owns
        <5>2. k + 1 \in DOMAIN idleInstances[img] /\ idleInstances[img][k + 1] = i
          BY <1>1, <1>6, <5>1
        <5> QED BY <1>4, <4>1, <5>2 DEF Owns
      <4>2. CASE ~(t = "I" /\ x = img)
        BY <1>3, <1>7, <2>0, <2>2, <4>2 DEF Owns, Holds, Active, Stopping, removeVars
      <4> QED BY <4>1, <4>2
    <3>2. i # i0
      <4> SUFFICES ASSUME i = i0 PROVE FALSE
        OBVIOUS
      <4>1. t = "I" /\ x = img
        BY <1>13, <3>1
      <4>2. \E k \in DOMAIN Tail(list) : Tail(list)[k] = i0
        BY <1>7, <4>1 DEF Owns
      <4> QED BY <1>10, <4>2
    <3>3. Good(t, x, i) => Good(t, x, i)'
      <4>1. CASE t = "C"
        BY <1>3, <2>0, <2>2, <3>1, <4>1 DEF Good, Offloaded, Owns
      <4>2. CASE t # "C"
        BY <1>3, <4>2 DEF Good, Offloaded, removeVars
      <4> QED BY <4>1, <4>2
    <3> QED BY <1>3, <3>1, <3>2, <3>3
  <2> QED BY <2>1, <2>2
<1> QED BY <1>8, <1>9, <1>11, <1>14

\* The create call hands its instance to the active map, or gives it up.
LEMMA Insert ==
  ASSUME IInv, NEW c \in Creates, InsertActive(c)
  PROVE  IInv'
<1> USE DEF IInv
<1>0. PICK i0 : i0 = instOf[c]
  OBVIOUS
<1>1. /\ pc[c] = "insert"
      /\ UNCHANGED <<stock, instOf, insts, idleInstances, podVMConfigs, removeVars, proxyVars>>
      /\ \/ pc' = [pc EXCEPT ![c] = "failed"] /\ activeInstances' = activeInstances
         \/ pc' = [pc EXCEPT ![c] = "ok"] /\ activeInstances' = [activeInstances EXCEPT ![c] = i0]
  BY <1>0 DEF InsertActive, GotoC
<1>2. /\ \A t, x : Owns(t, x, i0) => t = "C" /\ x = c
      /\ Good("C", c, i0) /\ i0 \in 1..Len(insts)
  <2>1. pc[c] \in CreatingLabels
    BY <1>1 DEF CreatingLabels
  <2> QED BY <1>0, <2>1, CreatorOwns
<1>3. PICK l \in {"failed", "ok"} : pc' = [pc EXCEPT ![c] = l]
  BY <1>1
<1>4. TypeOK'
  <2>1. activeInstances' \in [Creates -> 0..Len(insts)]
    <3>1. i0 \in 0..Len(insts) /\ activeInstances \in [Creates -> 0..Len(insts)]
      BY <1>0 DEF TypeOK
    <3> QED BY <1>1, <3>1
  <2>2. pc' \in [Creates -> CreateLabels]
    BY <1>3 DEF TypeOK, CreateLabels
  <2> QED BY <1>1, <2>1, <2>2 DEF TypeOK, removeVars, proxyVars
<1>5. CallInv'
  BY <1>1, <1>3 DEF TypeOK, CallInv, CreateInv, StopInv, CreatingLabels, removeVars
<1>6. NoDuplicates'
  BY <1>1 DEF NoDuplicates
<1>7. OneOwner' /\ AllGood'
  <2>0. CASE pc' = [pc EXCEPT ![c] = "failed"] /\ activeInstances' = activeInstances
    <3>1. /\ pc'[c] = "failed" /\ \A d \in Creates : d # c => pc'[d] = pc[d] /\ instOf'[d] = instOf[d]
      BY <1>1, <2>0 DEF TypeOK
    <3>2. UNCHANGED <<activeInstances, idleInstances, rpc, rmInst, insts>>
      BY <1>1, <2>0 DEF removeVars
    <3>3. \A i \in 1..Len(insts') : Holds(c, i)' => i = i0
      BY <1>0, <1>1 DEF Holds
    <3>4. Good("C", c, i0)'
      BY <1>1, <1>2, <3>1 DEF Good
    <3> QED BY <1>2, <3>1, <3>2, <3>3, <3>4, CreateFrame
  <2>1. CASE pc' = [pc EXCEPT ![c] = "ok"] /\ activeInstances' = [activeInstances EXCEPT ![c] = i0]
    <3>0. /\ pc'[c] = "ok" /\ \A d \in Creates : d # c => pc'[d] = pc[d]
          /\ \A d \in Creates : activeInstances'[d] # activeInstances[d] => d = c /\ activeInstances'[d] = i0
      BY <2>1 DEF TypeOK
    <3> SUFFICES ASSUME NEW i \in 1..Len(insts'), NEW t, NEW x, Owns(t, x, i)'
                 PROVE  \/ i # i0 /\ i \in 1..Len(insts) /\ Owns(t, x, i)
                           /\ (Good(t, x, i) => Good(t, x, i)')
                        \/ i = i0 /\ t = "A" /\ x = c /\ Good("A", c, i0)'
      BY Transfer, Zenon
    <3>1. t # "C" \/ x # c
      BY <3>0 DEF Owns, Holds, CreatingLabels
    <3>2. Good(t, x, i) => Good(t, x, i)'
      <4>1. CASE t = "C"
        BY <1>1, <3>0, <3>1, <4>1 DEF Good, Offloaded, Owns
      <4>2. CASE t # "C"
        BY <1>1, <4>2 DEF Good, Offloaded, removeVars
      <4> QED BY <4>1, <4>2
    <3>3. CASE Owns(t, x, i)
      <4>1. i # i0
        BY <1>2, <3>1, <3>3
      <4> QED BY <1>1, <3>2, <3>3, <4>1
    <3>4. CASE ~Owns(t, x, i)
      <4>1. t = "A" /\ x = c /\ i = i0
        BY <1>1, <3>0, <3>1, <3>4 DEF Owns, Holds, Active, Stopping, removeVars
      <4>2. Good("A", c, i0)'
        BY <1>1, <1>2 DEF Good
      <4> QED BY <4>1, <4>2
    <3> QED BY <3>3, <3>4
  <2> QED BY <1>1, <2>0, <2>1
<1> QED BY <1>4, <1>5, <1>6, <1>7

-----------------------------------------------------------------------------
(* Remove calls and stopping goroutines. *)

LEMMA BeginRemove ==
  ASSUME IInv, NEW r \in Removes, NEW c \in Creates, RemoveBegin(r, c)
  PROVE  IInv'
<1> USE DEF IInv
<1>1. /\ rpc' = [rpc EXCEPT ![r] = "look"] /\ rmOf' = [rmOf EXCEPT ![r] = c]
      /\ UNCHANGED <<createVars, coordVars, podVMConfigs, rmInst, proxyVars>>
  BY DEF RemoveBegin, GotoR
<1>2. TypeOK'
  BY <1>1 DEF TypeOK, RemoveLabels, createVars, coordVars, proxyVars
<1>3. CallInv'
  BY <1>1 DEF TypeOK, CallInv, CreateInv, StopInv, StoppingLabels, createVars
<1>4. NoDuplicates'
  BY <1>1 DEF NoDuplicates, coordVars
<1>5. OneOwner' /\ AllGood'
  <2>1. \A s \in Removes : s # r => rpc'[s] = rpc[s] /\ rmInst'[s] = rmInst[s]
    BY <1>1 DEF TypeOK
  <2>2. UNCHANGED <<activeInstances, idleInstances, pc, instOf, insts>>
    BY <1>1 DEF createVars, coordVars
  <2>3. \A i : ~Stopping(r, i)'
    BY <1>1 DEF Stopping, TypeOK
  <2>4. 0 \notin 1..Len(insts)
    OBVIOUS
  <2> QED BY <2>1, <2>2, <2>3, <2>4, StopFrame
<1> QED BY <1>2, <1>3, <1>4, <1>5

\* The entry of the active map goes to the goroutine that deletes it.
LEMMA Take ==
  ASSUME IInv, NEW r \in Removes, TakeActive(r)
  PROVE  IInv'
<1> USE DEF IInv
<1>0. PICK c, i0 : c = rmOf[r] /\ i0 = activeInstances[c]
  OBVIOUS
<1>1. /\ rpc[r] = "look" /\ rmInst' = [rmInst EXCEPT ![r] = i0]
      /\ activeInstances' = [activeInstances EXCEPT ![c] = 0]
      /\ UNCHANGED <<createVars, insts, idleInstances, podVMConfigs, rmOf, proxyVars>>
  BY <1>0 DEF TakeActive, DeleteActive
<1>2. PICK l \in {"done", "snapshot", "stop"} :
        rpc' = [rpc EXCEPT ![r] = l] /\ (i0 = 0 <=> l = "done")
  BY <1>0 DEF TakeActive, GotoR
<1>3. c \in Creates
  BY <1>0, <1>1 DEF CallInv, StopInv
<1>4. i0 \in 0..Len(insts)
  BY <1>0, <1>3 DEF TypeOK
<1>5. TypeOK'
  <2>1. rmInst' \in [Removes -> 0..Len(insts)] /\ rpc' \in [Removes -> RemoveLabels]
    BY <1>1, <1>2, <1>4 DEF TypeOK, RemoveLabels
  <2>2. activeInstances' \in [Creates -> 0..Len(insts)]
    <3>1. 0 \in 0..Len(insts)
      BY DEF TypeOK
    <3> QED BY <1>1, <3>1 DEF TypeOK
  <2> QED BY <1>1, <2>1, <2>2 DEF TypeOK, createVars, proxyVars
<1>6. CallInv'
  BY <1>1, <1>2 DEF TypeOK, CallInv, CreateInv, StopInv, StoppingLabels, createVars
<1>7. NoDuplicates'
  BY <1>1 DEF NoDuplicates
<1>8. OneOwner' /\ AllGood'
  <2>0. /\ rpc'[r] = l /\ rmInst'[r] = i0 /\ activeInstances'[c] = 0
        /\ \A s \in Removes : s # r => rpc'[s] = rpc[s] /\ rmInst'[s] = rmInst[s]
        /\ \A d \in Creates : d # c => activeInstances'[d] = activeInstances[d]
    BY <1>1, <1>2, <1>3 DEF TypeOK
  <2>1. i0 \in 1..Len(insts) => /\ \A t, x : Owns(t, x, i0) => t = "A" /\ x = c
                               /\ Good("A", c, i0)
    <3>1. Owns("A", c, i0)
      BY <1>0, <1>3 DEF Owns, Active
    <3> QED BY <3>1, Zenon DEF OneOwner, AllGood
  <2> SUFFICES ASSUME NEW i \in 1..Len(insts'), NEW t, NEW x, Owns(t, x, i)'
               PROVE  \/ i # i0 /\ i \in 1..Len(insts) /\ Owns(t, x, i)
                         /\ (Good(t, x, i) => Good(t, x, i)')
                      \/ i = i0 /\ t = "S" /\ x = r /\ Good("S", r, i0)'
    BY Transfer, Zenon
  <2>2. i # 0 /\ i \in 1..Len(insts) /\ insts' = insts /\ pc' = pc
    BY <1>1 DEF createVars
  <2>3. CASE t = "S" /\ x = r
    <3>1. i = i0 /\ l # "done"
      BY <2>0, <2>3 DEF Owns, Stopping
    <3>2. Good("A", c, i0)
      BY <2>1, <2>2, <3>1
    <3>3. Good("S", r, i0)'
      BY <2>0, <2>2, <3>2 DEF Good
    <3> QED BY <2>3, <3>1, <3>3
  <2>4. CASE ~(t = "S" /\ x = r)
    <3>1. Owns(t, x, i) /\ ~(t = "A" /\ x = c)
      BY <1>1, <2>0, <2>2, <2>4 DEF Owns, Holds, Active, Stopping, createVars
    <3>2. i # i0
      BY <2>1, <2>2, <3>1
    <3>3. Good(t, x, i) => Good(t, x, i)'
      <4>1. CASE t = "S"
        BY <2>0, <2>2, <2>4, <3>1, <4>1 DEF Good, Offloaded, Owns
      <4>2. CASE t # "S"
        BY <2>2, <4>2 DEF Good, Offloaded
      <4> QED BY <4>1, <4>2
    <3> QED BY <2>2, <3>1, <3>2, <3>3
  <2> QED BY <2>3, <2>4
<1> QED BY <1>5, <1>6, <1>7, <1>8

\* A stopping goroutine works on its own instance and goes on to l.
LEMMA StopperWorks ==
  ASSUME IInv, NEW r \in Removes, rpc[r] \in StoppingLabels, NEW i0, i0 = rmInst[r],
         NEW l \in RemoveLabels \ {"begin", "look"}, rpc' = [rpc EXCEPT ![r] = l],
         insts' \in Seq(Instance), Len(insts') = Len(insts),
         \A j \in 1..Len(insts) : j # i0 => insts'[j] = insts[j],
         l \in StoppingLabels => Good("S", r, i0)',
         UNCHANGED <<createVars, activeInstances, idleInstances, podVMConfigs, rmOf, rmInst,
                     proxyVars>>
  PROVE  IInv'
<1> USE DEF IInv
<1>1. TypeOK'
  BY DEF TypeOK, createVars, proxyVars
<1>2. CallInv'
  BY DEF TypeOK, CallInv, CreateInv, StopInv, StoppingLabels, createVars
<1>3. NoDuplicates'
  BY DEF NoDuplicates
<1>4. OneOwner' /\ AllGood'
  <2>1. \A s \in Removes : s # r => rpc'[s] = rpc[s] /\ rmInst'[s] = rmInst[s]
    BY DEF TypeOK
  <2>2. UNCHANGED <<activeInstances, idleInstances, pc, instOf>>
    BY DEF createVars
  <2>3. \A i \in 1..Len(insts) : Stopping(r, i)' => i = i0
    BY DEF Stopping
  <2>4. \A t, x : Owns(t, x, i0) => t = "S" /\ x = r
    BY StopperOwns
  <2>5. Stopping(r, i0)' => Good("S", r, i0)'
    BY DEF Stopping, StoppingLabels, TypeOK
  <2> QED BY <2>1, <2>2, <2>3, <2>4, <2>5, StopFrame
<1> QED BY <1>1, <1>2, <1>3, <1>4

LEMMA Snapshot ==
  ASSUME IInv, NEW r \in Removes, CreateSnapshot(r)
  PROVE  IInv'
<1>0. PICK i0 : i0 = rmInst[r]
  OBVIOUS
<1>1. /\ rpc[r] \in StoppingLabels /\ i0 \in 1..Len(insts) /\ Good("S", r, i0)
      /\ insts \in Seq(Instance) /\ rpc \in [Removes -> RemoveLabels]
  <2>1. rpc[r] \in StoppingLabels
    BY DEF CreateSnapshot, StoppingLabels
  <2> QED BY <1>0, <2>1, StopperOwns DEF IInv, TypeOK
<1>2. UNCHANGED <<createVars, activeInstances, idleInstances, podVMConfigs, rmOf, rmInst, proxyVars>>
  BY DEF CreateSnapshot
<1>3. CASE insts[i0].once /\ insts' = insts /\ rpc' = [rpc EXCEPT ![r] = "offload"]
  <2>1. Good("S", r, i0)'
    BY <1>1, <1>3 DEF Good
  <2> QED BY <1>0, <1>1, <1>2, <1>3, <2>1, StopperWorks DEF RemoveLabels
<1>4. ASSUME NEW fi \in Instance, NEW l \in {"offload", "failed"}, fi.snap \/ l = "failed",
             insts' = [insts EXCEPT ![i0] = fi], rpc' = [rpc EXCEPT ![r] = l]
      PROVE  IInv'
  <2>1. /\ insts' \in Seq(Instance) /\ Len(insts') = Len(insts) /\ insts'[i0] = fi
        /\ \A j \in 1..Len(insts) : j # i0 => insts'[j] = insts[j]
    BY <1>1, <1>4
  <2>2. l \in StoppingLabels => Good("S", r, i0)'
    BY <1>1, <1>4, <2>1 DEF StoppingLabels, Good
  <2>3. l \in RemoveLabels \ {"begin", "look"}
    BY DEF RemoveLabels
  <2> QED BY <1>0, <1>1, <1>2, <1>4, <2>1, <2>2, <2>3, StopperWorks
<1>5. insts[i0] \in Instance
  BY <1>1
<1>6. CASE insts' = [insts EXCEPT ![i0] = [@ EXCEPT !.vm = "paused", !.snap = TRUE, !.once = TRUE]]
           /\ rpc' = [rpc EXCEPT ![r] = "offload"]
  <2>1. PICK fi : fi = [insts[i0] EXCEPT !.vm = "paused", !.snap = TRUE, !.once = TRUE]
    OBVIOUS
  <2>2. fi \in Instance /\ fi.snap
    BY <1>5, <2>1 DEF Instance, VMStates
  <2>3. insts' = [insts EXCEPT ![i0] = fi]
    BY <1>6, <2>1
  <2> QED BY <1>4, <1>6, <2>2, <2>3
<1>7. CASE (\E v \in {"running", "paused"} :
              insts' = [insts EXCEPT ![i0] = [@ EXCEPT !.vm = v, !.once = TRUE]])
           /\ rpc' = [rpc EXCEPT ![r] = "failed"]
  <2>1. PICK v \in {"running", "paused"} :
          insts' = [insts EXCEPT ![i0] = [@ EXCEPT !.vm = v, !.once = TRUE]]
    BY <1>7
  <2>2. PICK fi : fi = [insts[i0] EXCEPT !.vm = v, !.once = TRUE]
    OBVIOUS
  <2>3. fi \in Instance
    BY <1>5, <2>2 DEF Instance, VMStates
  <2>4. insts' = [insts EXCEPT ![i0] = fi]
    BY <2>1, <2>2
  <2> QED BY <1>4, <1>7, <2>3, <2>4
<1> QED BY <1>0, <1>3, <1>6, <1>7 DEF CreateSnapshot, GotoR, AfterSnapshotError

LEMMA OffloadStop ==
  ASSUME IInv, NEW r \in Removes, Offload(r) \/ StopVM(r)
  PROVE  IInv'
<1>0. PICK i0 : i0 = rmInst[r]
  OBVIOUS
<1>1. /\ rpc[r] \in StoppingLabels /\ i0 \in 1..Len(insts) /\ Good("S", r, i0)
      /\ insts \in Seq(Instance) /\ rpc \in [Removes -> RemoveLabels]
  <2>1. rpc[r] \in StoppingLabels
    BY DEF Offload, StopVM, StoppingLabels
  <2> QED BY <1>0, <2>1, StopperOwns DEF IInv, TypeOK
<1>2. UNCHANGED <<createVars, activeInstances, idleInstances, podVMConfigs, rmOf, rmInst, proxyVars>>
  BY DEF Offload, StopVM
<1>3. CASE Offload(r)
  <2>1. /\ rpc[r] = "offload" /\ rpc' = [rpc EXCEPT ![r] = "setIdle"]
        /\ SetVM(i0, "offloaded") \/ (MayFail("offload") /\ insts' = insts)
    BY <1>0, <1>3 DEF Offload, OffloadVM, GotoR
  <2>2. /\ insts' \in Seq(Instance) /\ Len(insts') = Len(insts)
        /\ \A j \in 1..Len(insts) : j # i0 => insts'[j] = insts[j]
        /\ insts'[i0].snap = insts[i0].snap /\ insts'[i0].once = insts[i0].once
        /\ Offloaded(i0)'
    BY <1>1, <2>1, SetVMFacts DEF VMStates, Offloaded, MayFail
  <2>3. Good("S", r, i0)'
    BY <1>1, <2>1, <2>2 DEF Good
  <2> QED BY <1>0, <1>1, <1>2, <2>1, <2>2, <2>3, StopperWorks DEF RemoveLabels
<1>4. CASE StopVM(r)
  <2>1. PICK l \in {"done", "failed"} : rpc' = [rpc EXCEPT ![r] = l]
    BY <1>4 DEF StopVM, GotoR, AfterStopError
  <2>2. SetVM(i0, "stopped") \/ insts' = insts
    BY <1>0, <1>4 DEF StopVM
  <2>3. /\ insts' \in Seq(Instance) /\ Len(insts') = Len(insts)
        /\ \A j \in 1..Len(insts) : j # i0 => insts'[j] = insts[j]
    BY <1>1, <2>2, SetVMFacts DEF VMStates
  <2>4. l \in RemoveLabels \ {"begin", "look"} /\ l \notin StoppingLabels
    BY DEF RemoveLabels, StoppingLabels
  <2> QED BY <1>0, <1>1, <1>2, <2>1, <2>3, <2>4, StopperWorks
<1> QED BY <1>3, <1>4

\* The goroutine hands its instance to the idle list of its image.
LEMMA SetIdle ==
  ASSUME IInv, NEW r \in Removes, SetIdleInstance(r)
  PROVE  IInv'
<1> USE DEF IInv
<1>0. PICK i0, img, list : i0 = rmInst[r] /\ img = insts[i0].image /\ list = idleInstances[img]
  OBVIOUS
<1>1. /\ rpc[r] = "setIdle" /\ rpc' = [rpc EXCEPT ![r] = "done"]
      /\ idleInstances' = [idleInstances EXCEPT ![img] = Append(list, i0)]
      /\ UNCHANGED <<createVars, insts, activeInstances, podVMConfigs, rmOf, rmInst, proxyVars>>
  BY <1>0 DEF SetIdleInstance, GotoR
<1>2. /\ i0 \in 1..Len(insts) /\ Good("S", r, i0)
      /\ \A t, x : Owns(t, x, i0) => t = "S" /\ x = r
  <2>1. rpc[r] \in StoppingLabels
    BY <1>1 DEF StoppingLabels
  <2> QED BY <1>0, <2>1, StopperOwns
<1>3. img \in Images
  <2>1. insts[i0] \in Instance
    BY <1>2 DEF TypeOK
  <2> QED BY <1>0, <2>1 DEF Instance
<1>4. list \in Seq(1..Len(insts))
  BY <1>0, <1>3 DEF TypeOK
<1>5. PICK longer : longer = Append(list, i0)
  OBVIOUS
<1>6. /\ longer \in Seq(1..Len(insts)) /\ Len(list) \in Nat
      /\ DOMAIN longer = 1..(Len(list) + 1) /\ DOMAIN list = 1..Len(list)
      /\ longer[Len(list) + 1] = i0 /\ \A k \in DOMAIN list : longer[k] = list[k]
  BY <1>2, <1>4, <1>5
<1>7. /\ idleInstances'[img] = longer
      /\ \A j \in Images : j # img => idleInstances'[j] = idleInstances[j]
  BY <1>1, <1>3, <1>5 DEF TypeOK
<1>8. TypeOK'
  <2>1. idleInstances' \in [Images -> Seq(1..Len(insts))]
    BY <1>1, <1>3, <1>5, <1>6 DEF TypeOK
  <2> QED BY <1>1, <2>1 DEF TypeOK, RemoveLabels, createVars, proxyVars
<1>9. CallInv'
  BY <1>1 DEF TypeOK, CallInv, CreateInv, StopInv, StoppingLabels, createVars
<1>10. \A k \in DOMAIN list : list[k] # i0
  <2> SUFFICES ASSUME NEW k \in DOMAIN list, list[k] = i0 PROVE FALSE
    OBVIOUS
  <2>1. Owns("I", img, i0)
    BY <1>0, <1>3 DEF Owns
  <2> QED BY <1>2, <2>1
<1>11. \A k \in DOMAIN longer : k \in DOMAIN list \/ (k = Len(list) + 1 /\ longer[k] = i0)
  BY <1>6
<1>12. NoDuplicates'
  <2> SUFFICES ASSUME NEW j \in Images, NEW k \in DOMAIN idleInstances'[j],
                      NEW l \in DOMAIN idleInstances'[j],
                      idleInstances'[j][k] = idleInstances'[j][l]
               PROVE  k = l
    BY DEF NoDuplicates
  <2>1. CASE j # img
    BY <1>7, <2>1 DEF NoDuplicates
  <2>2. CASE j = img
    <3>1. k \in DOMAIN longer /\ l \in DOMAIN longer /\ longer[k] = longer[l]
      BY <1>7, <2>2
    <3>2. CASE k \in DOMAIN list /\ l \in DOMAIN list
      <4>1. list[k] = list[l]
        BY <1>6, <3>1, <3>2
      <4> QED BY <1>0, <1>3, <3>2, <4>1, Zenon DEF NoDuplicates
    <3>3. CASE ~(k \in DOMAIN list /\ l \in DOMAIN list)
      BY <1>6, <1>10, <1>11, <3>1, <3>3
    <3> QED BY <3>2, <3>3
  <2> QED BY <2>1, <2>2
<1>13. OneOwner' /\ AllGood'
  <2>0. rpc'[r] = "done" /\ \A s \in Removes : s # r => rpc'[s] = rpc[s]
    BY <1>1 DEF TypeOK
  <2> SUFFICES ASSUME NEW i \in 1..Len(insts'), NEW t, NEW x, Owns(t, x, i)'
               PROVE  \/ i # i0 /\ i \in 1..Len(insts) /\ Owns(t, x, i)
                         /\ (Good(t, x, i) => Good(t, x, i)')
                      \/ i = i0 /\ t = "I" /\ x = img /\ Good("I", img, i0)'
    BY Transfer, Zenon
  <2>1. i \in 1..Len(insts) /\ insts' = insts /\ pc' = pc
    BY <1>1 DEF createVars
  <2>2. ~(t = "S" /\ x = r)
    BY <2>0 DEF Owns, Stopping
  <2>3. CASE Owns(t, x, i)
    <3>1. i # i0
      BY <1>2, <2>2, <2>3
    <3>2. Good(t, x, i) => Good(t, x, i)'
      <4>1. CASE t = "S"
        BY <2>0, <2>1, <2>2, <2>3, <4>1 DEF Good, Offloaded, Owns
      <4>2. CASE t # "S"
        BY <2>1, <4>2 DEF Good, Offloaded
      <4> QED BY <4>1, <4>2
    <3> QED BY <2>1, <2>3, <3>1, <3>2
  <2>4. CASE ~Owns(t, x, i)
    <3>1. t = "I" /\ x = img
      BY <1>1, <1>7, <2>0, <2>2, <2>4 DEF Owns, Holds, Active, Stopping, createVars
    <3>2. PICK k \in DOMAIN longer : longer[k] = i
      BY <1>7, <3>1 DEF Owns
    <3>3. i = i0
      <4>1. CASE k \in DOMAIN list
        BY <1>0, <1>3, <1>6, <2>4, <3>1, <3>2, <4>1 DEF Owns
      <4>2. CASE k \notin DOMAIN list
        BY <1>11, <3>2, <4>2
      <4> QED BY <4>1, <4>2
    <3>4. Good("I", img, i0)'
      BY <1>0, <1>1, <1>2, <2>1 DEF Good, Offloaded
    <3> QED BY <3>1, <3>3, <3>4
  <2> QED BY <2>3, <2>4
<1> QED BY <1>8, <1>9, <1>12, <1>13

\* Steps of a proxy call, and steps that change nothing, leave the instances alone.
LEMMA Elsewhere ==
  ASSUME IInv, UNCHANGED <<createVars, coordVars, removeVars>>, TypeOK'
  PROVE  IInv'
<1>0. UNCHANGED <<pc, instOf, insts, activeInstances, idleInstances, rpc, rmOf, rmInst>>
  BY DEF createVars, coordVars, removeVars
<1>1. CallInv' /\ NoDuplicates'
  BY <1>0 DEF IInv, CallInv, CreateInv, StopInv, NoDuplicates
<1>2. \A t, x, i : Owns(t, x, i)' <=> Owns(t, x, i)
  BY <1>0 DEF Owns, Holds, Active, Stopping
<1>3. \A t, x, i : Good(t, x, i)' <=> Good(t, x, i)
  BY <1>0 DEF Good, Offloaded
<1>4. OneOwner' /\ AllGood'
  BY <1>0, <1>2, <1>3 DEF IInv, OneOwner, AllGood
<1> QED BY <1>1, <1>4 DEF IInv

LEMMA ProxyQuiet ==
  ASSUME IInv, NEW q \in Proxies, ProxyStep(q)
  PROVE  IInv'
<1>1. UNCHANGED <<createVars, coordVars, removeVars>>
  BY DEF ProxyStep, GetPodVMConfig, RemovePodVMConfig, CreateProxy
<1>2. PICK l \in ProxyLabels : qpc' = [qpc EXCEPT ![q] = l]
  BY DEF ProxyStep, GetPodVMConfig, RemovePodVMConfig, CreateProxy, GotoQ, ProxyLabels
<1>3. PodOf[q] \in Pods
  BY DEF Pods
<1>4. qVM' \in [Proxies -> 0..Len(insts)] /\ podVMConfigs' \in [Pods -> 0..Len(insts)]
  <2>1. /\ qVM \in [Proxies -> 0..Len(insts)] /\ podVMConfigs \in [Pods -> 0..Len(insts)]
        /\ 0 \in 0..Len(insts)
    BY DEF IInv, TypeOK
  <2> QED BY <1>3, <2>1 DEF ProxyStep, GetPodVMConfig, RemovePodVMConfig, CreateProxy
<1>5. TypeOK'
  BY <1>1, <1>2, <1>4 DEF IInv, TypeOK, createVars, coordVars, removeVars
<1> QED BY <1>1, <1>5, Elsewhere

-----------------------------------------------------------------------------
(* The theorems. *)

\* The ownership invariant is inductive.
THEOREM CoordInductive == Spec => []IInv
<1>1. Init => IInv
  <2> SUFFICES ASSUME Init PROVE IInv
    OBVIOUS
  <2>1. TypeOK
    <3>1. insts = <<>> /\ Len(insts) = 0
      BY DEF Init
    <3>2. insts \in Seq(Instance) /\ 0 \in 0..Len(insts) /\ <<>> \in Seq(1..Len(insts))
      BY <3>1
    <3> QED BY <3>2 DEF Init, TypeOK, CreateLabels, RemoveLabels, ProxyLabels
  <2>2. CallInv
    BY DEF Init, CallInv, CreateInv, StopInv, CreatingLabels, StoppingLabels
  <2>3. NoDuplicates
    BY DEF Init, NoDuplicates
  <2>4. 1..Len(insts) = {}
    BY DEF Init
  <2> QED BY <2>1, <2>2, <2>3, <2>4 DEF IInv, OneOwner, AllGood
<1>2. IInv /\ [Next]_vars => IInv'
  <2> SUFFICES ASSUME IInv, [Next]_vars PROVE IInv'
    OBVIOUS
  <2>1. CASE UNCHANGED vars
    <3>1. TypeOK'
      BY <2>1 DEF IInv, TypeOK, vars, createVars, coordVars, removeVars, proxyVars
    <3> QED BY <2>1, <3>1, Elsewhere DEF vars
  <2>2. ASSUME NEW c \in Creates, CreateStep(c) \/ StockCreate(c) PROVE IInv'
    BY <2>2, QuietCreate, StartLoad, PodConfig, DrawNew, TakeFirst, Insert DEF CreateStep
  <2>3. ASSUME NEW r \in Removes, StopStep(r) PROVE IInv'
    BY <2>3, Take, Snapshot, OffloadStop, SetIdle DEF StopStep
  <2> QED BY <2>1, <2>2, <2>3, BeginRemove, ProxyQuiet DEF Next
<1> QED BY <1>1, <1>2, PTL DEF Spec

\* The service's and the coordinator's state is well-formed (coordinator.go 35-68,
\* service.go): every vmID found in a map is one that was drawn.
THEOREM CoordTypeCorrect == Spec => []TypeOK
<1>1. IInv => TypeOK
  BY DEF IInv
<1> QED BY <1>1, CoordInductive, PTL

\* An instance never has two owners, whatever create and remove calls run together
\* and whichever of their steps fail (coordinator.go 70-151).
THEOREM OwnerUnique == Spec => []ExclusiveOwner
BY Exclusive, CoordInductive, PTL

\* A container in the active map has a running VM of its image behind it
\* (coordinator.go 138-151, 204-261).
THEOREM ActiveCorrect == Spec => []ActiveRuns
BY Running, CoordInductive, PTL

\* What startVM finds in an idle list can be loaded (coordinator.go 101-105, 231-248).
THEOREM IdleCorrect == Spec => []IdleLoadable
BY Loadable, CoordInductive, PTL
-----------------------------------------------------------------------------
(* Guest addresses.  A create call draws at most one instance, so what it filed under *)
(* its pod stays what it has; a proxy call reads its own pod's entry only.            *)

\* The address filed under a pod is that of an instance of a create call of the pod.
FiledByOwnPod ==
  \A p \in Pods : podVMConfigs[p] # 0 =>
     \E c \in Creates : PodOf[c] = p /\ instOf[c] = podVMConfigs[p]

\* A call keeps the instance it got.
LEMMA InstanceKept ==
  ASSUME IInv, [Next]_vars, NEW c \in Creates, instOf[c] # 0
  PROVE  instOf'[c] = instOf[c]
<1> USE DEF IInv
<1>1. ASSUME NEW d \in Creates, NEW i, pc[d] = "pick", instOf' = [instOf EXCEPT ![d] = i]
      PROVE  instOf'[c] = instOf[c]
  <2>1. instOf[d] = 0
    BY <1>1 DEF CallInv, CreateInv
  <2> QED BY <1>1, <2>1 DEF TypeOK
<1>2. CASE instOf' = instOf
  BY <1>2
<1>3. ASSUME NEW d \in Creates, CreateStep(d) \/ StockCreate(d)
      PROVE  instOf'[c] = instOf[c]
  <2>1. CASE TakeIdle(d) \/ DrawID(d)
    BY <1>1, <2>1 DEF TakeIdle, DrawID
  <2>2. CASE ~(TakeIdle(d) \/ DrawID(d))
    <3>1. instOf' = instOf
      BY <1>3, <2>2 DEF CreateStep, StockCreate, CreateBegin, StartVM, LoadInstance,
         InsertPodVMConfig, StockWait, InsertActive
    <3> QED BY <3>1
  <2> QED BY <2>1, <2>2
<1>4. ASSUME NEW r \in Removes, StopStep(r) \/ \E d \in Creates : RemoveBegin(r, d)
      PROVE  instOf' = instOf
  BY <1>4 DEF StopStep, TakeActive, CreateSnapshot, Offload, SetIdleInstance, StopVM,
     RemoveBegin, createVars
<1>5. ASSUME NEW q \in Proxies, ProxyStep(q)
      PROVE  instOf' = instOf
  BY <1>5 DEF ProxyStep, GetPodVMConfig, RemovePodVMConfig, CreateProxy, createVars
<1>6. CASE UNCHANGED vars
  BY <1>2, <1>6 DEF vars, createVars
<1> QED BY <1>2, <1>3, <1>4, <1>5, <1>6 DEF Next

\* What a step does to the addresses: a create call files its own, a proxy call takes
\* its pod's.
LEMMA AddressSteps ==
  ASSUME IInv, [Next]_vars
  PROVE  \/ podVMConfigs' = podVMConfigs /\ qVM' = qVM
         \/ \E c \in Creates : /\ qVM' = qVM /\ instOf[c] # 0
                               /\ podVMConfigs' = [podVMConfigs EXCEPT ![PodOf[c]] = instOf[c]]
         \/ \E q \in Proxies : /\ podVMConfigs' = podVMConfigs /\ podVMConfigs[PodOf[q]] # 0
                               /\ qVM' = [qVM EXCEPT ![q] = podVMConfigs[PodOf[q]]]
         \/ \E q \in Proxies : qVM' = qVM /\ podVMConfigs' = [podVMConfigs EXCEPT ![PodOf[q]] = 0]
<1> USE DEF IInv
<1>1. ASSUME NEW c \in Creates, InsertPodVMConfig(c)
      PROVE  /\ qVM' = qVM /\ instOf[c] # 0
             /\ podVMConfigs' = [podVMConfigs EXCEPT ![PodOf[c]] = instOf[c]]
  BY <1>1 DEF InsertPodVMConfig, FileUnderPod, proxyVars, CallInv, CreateInv, CreatingLabels
<1>2. ASSUME NEW c \in Creates, CreateStep(c) \/ StockCreate(c), ~InsertPodVMConfig(c)
      PROVE  podVMConfigs' = podVMConfigs /\ qVM' = qVM
  BY <1>2 DEF CreateStep, StockCreate, CreateBegin, TakeIdle, DrawID, StartVM, LoadInstance,
     StockWait, InsertActive, proxyVars
<1>3. ASSUME NEW r \in Removes, StopStep(r) \/ \E d \in Creates : RemoveBegin(r, d)
      PROVE  podVMConfigs' = podVMConfigs /\ qVM' = qVM
  BY <1>3 DEF StopStep, TakeActive, CreateSnapshot, Offload, SetIdleInstance, StopVM,
     RemoveBegin, proxyVars
<1>4. ASSUME NEW q \in Proxies, ProxyStep(q)
      PROVE  \/ podVMConfigs' = podVMConfigs /\ qVM' = qVM
             \/ /\ podVMConfigs' = podVMConfigs /\ podVMConfigs[PodOf[q]] # 0
                /\ qVM' = [qVM EXCEPT ![q] = podVMConfigs[PodOf[q]]]
             \/ qVM' = qVM /\ podVMConfigs' = [podVMConfigs EXCEPT ![PodOf[q]] = 0]
  BY <1>4 DEF ProxyStep, GetPodVMConfig, RemovePodVMConfig, CreateProxy
<1>5. CASE UNCHANGED vars
  BY <1>5 DEF vars, proxyVars
<1> QED BY <1>1, <1>2, <1>3, <1>4, <1>5 DEF Next

\* The address a proxy call read is one that a create call of its pod filed.
ReadFromOwnPod ==
  \A q \in Proxies : qVM[q] # 0 =>
     \E c \in Creates : PodOf[c] = PodOf[q] /\ instOf[c] = qVM[q]

LEMMA AddressStep ==
  ASSUME IInv, FiledByOwnPod, ReadFromOwnPod, [Next]_vars
  PROVE  FiledByOwnPod' /\ ReadFromOwnPod'
<1>1. \A c \in Creates : instOf[c] # 0 => instOf'[c] = instOf[c]
  BY InstanceKept
<1>2. /\ podVMConfigs \in [Pods -> 0..Len(insts)] /\ qVM \in [Proxies -> 0..Len(insts)]
      /\ \A x \in Creates \cup Proxies : PodOf[x] \in Pods
  BY DEF IInv, TypeOK, Pods
\* Who has filed v for pod p still has it.
<1>3. ASSUME NEW p \in Pods, NEW v, v # 0, \E c \in Creates : PodOf[c] = p /\ instOf[c] = v
      PROVE  \E c \in Creates : PodOf[c] = p /\ instOf'[c] = v
  BY <1>1, <1>3
<1>4. FiledByOwnPod'
  <2> SUFFICES ASSUME NEW p \in Pods, podVMConfigs'[p] # 0
               PROVE  \E c \in Creates : PodOf[c] = p /\ instOf'[c] = podVMConfigs'[p]
    BY DEF FiledByOwnPod
  <2>1. CASE podVMConfigs'[p] = podVMConfigs[p]
    BY <1>3, <2>1 DEF FiledByOwnPod
  <2>2. CASE podVMConfigs'[p] # podVMConfigs[p]
    <3>1. PICK c \in Creates : /\ instOf[c] # 0
                               /\ podVMConfigs' = [podVMConfigs EXCEPT ![PodOf[c]] = instOf[c]]
      BY <1>2, <2>2, AddressSteps
    <3>2. PodOf[c] = p /\ podVMConfigs'[p] = instOf[c]
      BY <1>2, <2>2, <3>1
    <3> QED BY <1>1, <3>1, <3>2
  <2> QED BY <2>1, <2>2
<1>5. ReadFromOwnPod'
  <2> SUFFICES ASSUME NEW q \in Proxies, qVM'[q] # 0
               PROVE  \E c \in Creates : PodOf[c] = PodOf[q] /\ instOf'[c] = qVM'[q]
    BY DEF ReadFromOwnPod
  <2>1. PodOf[q] \in Pods
    BY <1>2
  <2>2. CASE qVM'[q] = qVM[q]
    BY <1>3, <2>1, <2>2 DEF ReadFromOwnPod
  <2>3. CASE qVM'[q] # qVM[q]
    <3>1. PICK k \in Proxies : /\ podVMConfigs[PodOf[k]] # 0
                               /\ qVM' = [qVM EXCEPT ![k] = podVMConfigs[PodOf[k]]]
      BY <2>3, AddressSteps
    <3>2. k = q /\ qVM'[q] = podVMConfigs[PodOf[q]]
      BY <1>2, <2>3, <3>1
    <3> QED BY <1>3, <2>1, <3>1, <3>2 DEF FiledByOwnPod
  <2> QED BY <2>2, <2>3
<1> QED BY <1>4, <1>5

\* Where the instance of a create call went: the call has it or failed with it, its
\* container is active with it, or a removal of the container took it.
Removed(c, i) == \E r \in Removes : rmOf[r] = c /\ rmInst[r] = i
TracedOf(c) == \/ Holds(c, instOf[c]) \/ Active(c, instOf[c]) \/ Removed(c, instOf[c])
Traced ==
  /\ \A c \in Creates : instOf[c] # 0 => TracedOf(c)
  /\ \A r \in Removes : rpc[r] \in {"begin", "look"} => rmInst[r] = 0

LEMMA TracedCreate ==
  ASSUME IInv, Traced, NEW c0 \in Creates, CreateStep(c0) \/ StockCreate(c0)
  PROVE  Traced'
<1>0. /\ pc \in [Creates -> CreateLabels] /\ instOf \in [Creates -> 0..Len(insts)]
      /\ activeInstances \in [Creates -> 0..Len(insts)]
  BY DEF IInv, TypeOK
<1>1. UNCHANGED <<rpc, rmOf, rmInst>>
  BY DEF CreateStep, StockCreate, CreateBegin, TakeIdle, DrawID, StartVM, LoadInstance,
     InsertPodVMConfig, StockWait, InsertActive, removeVars
<1>2. \A c, i : Removed(c, i) => Removed(c, i)'
  BY <1>1 DEF Removed
<1>3. CASE TakeIdle(c0) \/ DrawID(c0)
  <2>1. /\ pc[c0] = "pick" /\ pc'[c0] \in CreatingLabels /\ UNCHANGED activeInstances
        /\ \A d \in Creates : d # c0 => pc'[d] = pc[d] /\ instOf'[d] = instOf[d]
    BY <1>0, <1>3 DEF TakeIdle, DrawID, GotoC, CreatingLabels
  <2> QED BY <1>1, <1>2, <2>1 DEF Traced, TracedOf, Holds, Active
<1>4. CASE InsertActive(c0)
  <2>1. /\ UNCHANGED instOf /\ pc[c0] = "insert"
        /\ \A d \in Creates : d # c0 => pc'[d] = pc[d] /\ activeInstances'[d] = activeInstances[d]
        /\ \/ pc'[c0] = "failed"
           \/ activeInstances'[c0] = instOf[c0]
    BY <1>0, <1>4 DEF InsertActive, GotoC
  <2> QED BY <1>1, <1>2, <2>1 DEF Traced, TracedOf, Holds, Active
<1>5. CASE ~(TakeIdle(c0) \/ DrawID(c0) \/ InsertActive(c0))
  <2>1. /\ UNCHANGED <<instOf, activeInstances>>
        /\ \A d \in Creates : d # c0 => pc'[d] = pc[d]
        /\ pc[c0] \in CreatingLabels \cup {"failed"} => pc'[c0] \in CreatingLabels \cup {"failed"}
    BY <1>0, <1>5 DEF CreateStep, StockCreate, CreateBegin, StartVM, LoadInstance,
       InsertPodVMConfig, StockWait, GotoC, coordVars, CreatingLabels
  <2> QED BY <1>1, <1>2, <2>1 DEF Traced, TracedOf, Holds, Active
<1> QED BY <1>3, <1>4, <1>5

LEMMA TracedStop ==
  ASSUME IInv, Traced, NEW r \in Removes, StopStep(r) \/ \E c \in Creates : RemoveBegin(r, c)
  PROVE  Traced'
<1>0. /\ rpc \in [Removes -> RemoveLabels] /\ rmInst \in [Removes -> 0..Len(insts)]
      /\ rmOf \in [Removes -> Creates \cup {NoContainer}]
      /\ activeInstances \in [Creates -> 0..Len(insts)]
  BY DEF IInv, TypeOK
<1>1. UNCHANGED <<pc, instOf>>
  BY DEF StopStep, TakeActive, CreateSnapshot, Offload, SetIdleInstance, StopVM, RemoveBegin,
     createVars
<1>2. \A c \in Creates : Holds(c, instOf[c]) => Holds(c, instOf[c])'
  BY <1>1 DEF Holds
<1>3. CASE TakeActive(r)
  <2>0. PICK c0 : c0 = rmOf[r]
    OBVIOUS
  <2>1. /\ rpc[r] = "look" /\ rmOf' = rmOf /\ rmInst' = [rmInst EXCEPT ![r] = activeInstances[c0]]
        /\ activeInstances' = [activeInstances EXCEPT ![c0] = 0]
        /\ \A s \in Removes : s # r => rpc'[s] = rpc[s]
        /\ rpc'[r] \notin {"begin", "look"}
    BY <1>0, <1>3, <2>0 DEF TakeActive, DeleteActive, GotoR
  <2>2. rmInst[r] = 0
    BY <2>1 DEF Traced
  <2>3. ASSUME NEW c \in Creates, NEW i, i # 0, Removed(c, i) PROVE Removed(c, i)'
    BY <1>0, <2>1, <2>2, <2>3 DEF Removed
  <2>4. ASSUME NEW c \in Creates, NEW i, Active(c, i) PROVE Active(c, i)' \/ Removed(c, i)'
    BY <1>0, <2>0, <2>1, <2>4 DEF Active, Removed
  <2>5. \A s \in Removes : rpc'[s] \in {"begin", "look"} => rmInst'[s] = 0
    BY <1>0, <2>1 DEF Traced
  <2>6. ASSUME NEW c \in Creates, instOf'[c] # 0 PROVE TracedOf(c)'
    BY <1>1, <1>2, <2>3, <2>4, <2>6 DEF Traced, TracedOf
  <2> QED BY <2>5, <2>6 DEF Traced
<1>4. ASSUME NEW c0 \in Creates, RemoveBegin(r, c0) PROVE Traced'
  <2>1. /\ rpc[r] = "begin" /\ rmOf' = [rmOf EXCEPT ![r] = c0]
        /\ \A s \in Removes : s # r => rpc'[s] = rpc[s]
        /\ UNCHANGED <<activeInstances, rmInst>>
    BY <1>0, <1>4 DEF RemoveBegin, GotoR, coordVars
  <2>2. rmInst[r] = 0
    BY <2>1 DEF Traced
  <2>3. ASSUME NEW c \in Creates, NEW i, i # 0, Removed(c, i) PROVE Removed(c, i)'
    BY <1>0, <2>1, <2>2, <2>3 DEF Removed
  <2>4. \A s \in Removes : rpc'[s] \in {"begin", "look"} => rmInst'[s] = 0
    BY <1>0, <2>1, <2>2 DEF Traced
  <2>5. ASSUME NEW c \in Creates, instOf'[c] # 0 PROVE TracedOf(c)'
    BY <1>1, <1>2, <2>1, <2>3, <2>5 DEF Traced, TracedOf, Active
  <2> QED BY <2>4, <2>5 DEF Traced
<1>5. CASE StopStep(r) /\ ~TakeActive(r)
  <2>1. /\ UNCHANGED <<activeInstances, rmOf, rmInst>>
        /\ \A s \in Removes : rpc'[s] \in {"begin", "look"} => rpc'[s] = rpc[s]
    BY <1>0, <1>5 DEF StopStep, CreateSnapshot, Offload, SetIdleInstance, StopVM, GotoR,
       AfterSnapshotError, AfterStopError
  <2> QED BY <1>1, <1>2, <2>1 DEF Traced, TracedOf, Active, Removed
<1> QED BY <1>3, <1>4, <1>5

\* A queue proxy holds the address of a VM active in another pod only after a container of
\* its own pod was removed with that VM, for any number of pods and containers, any
\* interleaving and any failing calls (container_create.go 88-89, 111-121, coordinator.go
\* 70-99, 231-248).  An instance has one owner, and the trace of a create call's instance
\* says who that can be.
THEOREM ProxyAddressCorrect == Spec => []ProxyAddressMoves
<1>1. Init => FiledByOwnPod /\ ReadFromOwnPod /\ Traced
  BY DEF Init, FiledByOwnPod, ReadFromOwnPod, Traced
<1>2. IInv /\ (FiledByOwnPod /\ ReadFromOwnPod /\ Traced) /\ [Next]_vars
        => (FiledByOwnPod /\ ReadFromOwnPod /\ Traced)'
  <2> SUFFICES ASSUME IInv, FiledByOwnPod, ReadFromOwnPod, Traced, [Next]_vars
               PROVE  FiledByOwnPod' /\ ReadFromOwnPod' /\ Traced'
    OBVIOUS
  <2>1. Traced'
    <3>1. CASE UNCHANGED <<createVars, activeInstances, removeVars>>
      BY <3>1 DEF Traced, TracedOf, Holds, Active, Removed, createVars, removeVars
    <3>2. ASSUME NEW q \in Proxies, ProxyStep(q) PROVE UNCHANGED <<createVars, activeInstances, removeVars>>
      BY <3>2 DEF ProxyStep, GetPodVMConfig, RemovePodVMConfig, CreateProxy, coordVars
    <3>3. CASE UNCHANGED vars
      BY <3>1, <3>3 DEF vars, coordVars
    <3> QED BY <3>1, <3>2, <3>3, TracedCreate, TracedStop DEF Next
  <2> QED BY <2>1, AddressStep
<1>3. IInv /\ ReadFromOwnPod /\ Traced => ProxyAddressMoves
  <2> SUFFICES ASSUME IInv, ReadFromOwnPod, Traced, NEW q \in Proxies, NEW d \in Creates,
                      qVM[q] # 0, Active(d, qVM[q]), PodOf[d] # PodOf[q]
               PROVE  \E c \in Creates, r \in Removes :
                         PodOf[c] = PodOf[q] /\ rmOf[r] = c /\ rmInst[r] = qVM[q]
    BY DEF ProxyAddressMoves
  <2>0. PICK i : i = qVM[q]
    OBVIOUS
  <2>1. PICK c \in Creates : PodOf[c] = PodOf[q] /\ instOf[c] = i
    BY <2>0 DEF ReadFromOwnPod
  <2>2. i \in 1..Len(insts) /\ c # d
    BY <2>0, <2>1 DEF IInv, TypeOK
  <2>3. Owns("A", d, i)
    BY <2>0 DEF Owns
  <2>4. ~Holds(c, i)
    <3>1. Holds(c, i) => Owns("C", c, i)
      BY DEF Owns
    <3> QED BY <2>2, <2>3, <3>1 DEF IInv, OneOwner
  <2>5. ~Active(c, i)
    <3>1. Active(c, i) => Owns("A", c, i)
      BY DEF Owns
    <3> QED BY <2>2, <2>3, <3>1 DEF IInv, OneOwner
  <2>6. Removed(c, i)
    BY <2>0, <2>1, <2>4, <2>5 DEF Traced, TracedOf
  <2> QED BY <2>0, <2>1, <2>6 DEF Removed
<1> QED BY <1>1, <1>2, <1>3, CoordInductive, PTL DEF Spec

-----------------------------------------------------------------------------
(* No VM is lost. *)

\* (t, x) answers for instance i: it owns it, or is the call that reported an error.
Keeps(t, x, i) ==
  \/ t = "C" /\ x \in Creates /\ instOf[x] = i /\ pc[x] \in CreatingLabels \cup {"failed"}
  \/ t = "A" /\ x \in Creates /\ activeInstances[x] = i
  \/ t = "S" /\ x \in Removes /\ rmInst[x] = i /\ rpc[x] \in StoppingLabels \cup {"failed"}
  \/ t = "I" /\ x \in Images /\ MayFail("offload") /\ \E k \in DOMAIN idleInstances[x] : idleInstances[x][k] = i

Alive(i) == insts[i].vm \in {"running", "paused"}
Kept(i) == \E t, x : Keeps(t, x, i)
AllKept == \A i \in 1..Len(insts) : Alive(i) => Kept(i)

\* Without early removals, a removal starts after its create call has returned: it finds the
\* entry, or an earlier removal has taken it for good.
MissInv ==
  ~EarlyRemove =>
     /\ \A r \in Removes : rpc[r] # "begin" => pc[rmOf[r]] = "ok"
     /\ \A c \in Creates : Missed(c) => activeInstances[c] = 0

LEMMA MissStep ==
  ASSUME IInv, MissInv, [Next]_vars
  PROVE  MissInv'
<1> SUFFICES ASSUME ~EarlyRemove
             PROVE  /\ \A r \in Removes : rpc'[r] # "begin" => pc'[rmOf'[r]] = "ok"
                    /\ \A c \in Creates : Missed(c)' => activeInstances'[c] = 0
  BY DEF MissInv
<1>0. /\ pc \in [Creates -> CreateLabels] /\ rpc \in [Removes -> RemoveLabels]
      /\ rmInst \in [Removes -> 0..Len(insts)] /\ rmOf \in [Removes -> Creates \cup {NoContainer}]
      /\ activeInstances \in [Creates -> 0..Len(insts)]
      /\ \A r \in Removes : rpc[r] # "begin" => rmOf[r] \in Creates
      /\ \A r \in Removes : rpc[r] \in StoppingLabels => rmInst[r] # 0
  BY DEF IInv, TypeOK, CallInv, StopInv
<1>1. /\ \A r \in Removes : rpc[r] # "begin" => pc[rmOf[r]] = "ok"
      /\ \A c \in Creates : Missed(c) => activeInstances[c] = 0
  BY DEF MissInv
<1>2. CASE UNCHANGED <<createVars, activeInstances, removeVars>>
  BY <1>1, <1>2 DEF Missed, createVars, removeVars
<1>3. ASSUME NEW c \in Creates, CreateStep(c) \/ StockCreate(c)
      PROVE  /\ \A r \in Removes : rpc'[r] # "begin" => pc'[rmOf'[r]] = "ok"
             /\ \A d \in Creates : Missed(d)' => activeInstances'[d] = 0
  <2>1. UNCHANGED <<rpc, rmOf, rmInst>>
    BY <1>3 DEF CreateStep, StockCreate, CreateBegin, TakeIdle, DrawID, StartVM, LoadInstance,
       InsertPodVMConfig, StockWait, InsertActive, removeVars
  <2>2. \A d \in Creates : pc[d] = "ok" => pc'[d] = "ok" /\ activeInstances'[d] = activeInstances[d]
    BY <1>0, <1>3 DEF CreateStep, StockCreate, CreateBegin, TakeIdle, DrawID, StartVM, LoadInstance,
       InsertPodVMConfig, StockWait, InsertActive, GotoC, coordVars
  <2>3. \A d \in Creates : Missed(d) => pc[d] = "ok"
    BY <1>1 DEF Missed
  <2>4. \A d \in Creates : Missed(d)' => Missed(d)
    BY <2>1 DEF Missed
  <2>5. \A r \in Removes : rpc'[r] # "begin" => pc'[rmOf'[r]] = "ok"
    BY <1>0, <1>1, <2>1, <2>2
  <2> QED BY <1>1, <2>2, <2>3, <2>4, <2>5
<1>4. ASSUME NEW r \in Removes, TakeActive(r)
      PROVE  /\ \A s \in Removes : rpc'[s] # "begin" => pc'[rmOf'[s]] = "ok"
             /\ \A d \in Creates : Missed(d)' => activeInstances'[d] = 0
  <2>0. PICK c0 : c0 = rmOf[r]
    OBVIOUS
  <2>1. /\ rpc[r] = "look" /\ UNCHANGED <<rmOf, pc>> /\ rmInst' = [rmInst EXCEPT ![r] = activeInstances[c0]]
        /\ activeInstances' = [activeInstances EXCEPT ![c0] = 0]
        /\ \A s \in Removes : s # r => rpc'[s] = rpc[s]
    BY <1>0, <1>4, <2>0 DEF TakeActive, DeleteActive, GotoR, createVars
  <2>2. \A d \in Creates : d # c0 => (Missed(d)' => Missed(d))
    BY <1>0, <2>0, <2>1 DEF Missed
  <2>3. \A s \in Removes : rpc'[s] # "begin" => pc'[rmOf'[s]] = "ok"
    BY <1>1, <2>1
  <2> QED BY <1>0, <1>1, <2>1, <2>2, <2>3
<1>5. ASSUME NEW r \in Removes, StopStep(r), ~TakeActive(r)
      PROVE  /\ \A s \in Removes : rpc'[s] # "begin" => pc'[rmOf'[s]] = "ok"
             /\ \A d \in Creates : Missed(d)' => activeInstances'[d] = 0
  <2>1. /\ rpc[r] \in StoppingLabels /\ UNCHANGED <<activeInstances, rmOf, rmInst, pc>>
        /\ \A s \in Removes : s # r => rpc'[s] = rpc[s]
    BY <1>0, <1>5 DEF StopStep, CreateSnapshot, Offload, SetIdleInstance, StopVM, GotoR, createVars,
       StoppingLabels
  <2>2. \A d \in Creates : Missed(d)' => Missed(d)
    BY <1>0, <2>1 DEF Missed
  <2>3. \A s \in Removes : rpc'[s] # "begin" => pc'[rmOf'[s]] = "ok"
    BY <1>1, <2>1 DEF StoppingLabels
  <2> QED BY <1>1, <2>1, <2>2, <2>3
<1>6. ASSUME NEW r \in Removes, NEW c \in Creates, RemoveBegin(r, c)
      PROVE  /\ \A s \in Removes : rpc'[s] # "begin" => pc'[rmOf'[s]] = "ok"
             /\ \A d \in Creates : Missed(d)' => activeInstances'[d] = 0
  <2>1. /\ pc[c] = "ok" /\ rmOf' = [rmOf EXCEPT ![r] = c] /\ rpc' = [rpc EXCEPT ![r] = "look"]
        /\ UNCHANGED <<activeInstances, rmInst, pc>>
    BY <1>6 DEF RemoveBegin, GotoR, createVars, coordVars
  <2>2. \A d \in Creates : Missed(d)' => Missed(d)
    BY <1>0, <2>1 DEF Missed
  <2>3. \A s \in Removes : rpc'[s] # "begin" => pc'[rmOf'[s]] = "ok"
    BY <1>0, <1>1, <2>1
  <2> QED BY <1>1, <2>1, <2>2, <2>3
<1>7. ASSUME NEW q \in Proxies, ProxyStep(q) PROVE UNCHANGED <<createVars, activeInstances, removeVars>>
  BY <1>7 DEF ProxyStep, GetPodVMConfig, RemovePodVMConfig, CreateProxy, coordVars
<1>8. CASE UNCHANGED vars
  BY <1>2, <1>8 DEF vars, coordVars
<1>9. ASSUME NEW r \in Removes, StopStep(r) \/ \E c \in Creates : RemoveBegin(r, c)
      PROVE  /\ \A s \in Removes : rpc'[s] # "begin" => pc'[rmOf'[s]] = "ok"
             /\ \A d \in Creates : Missed(d)' => activeInstances'[d] = 0
  BY <1>4, <1>5, <1>6, <1>9
<1>10. CASE Next
  BY <1>2, <1>3, <1>7, <1>9, <1>10 DEF Next
<1> QED BY <1>8, <1>10

LEMMA KeptIsNotLost == IInv /\ AllKept /\ MissInv => NoLostVM
<1> SUFFICES ASSUME IInv, AllKept, MissInv, NEW i \in 1..Len(insts), Alive(i)
             PROVE  \/ \E c \in Creates : Creating(c, i)
                    \/ \E c \in Creates : Active(c, i) /\ (Missed(c) => EarlyRemove)
                    \/ \E r \in Removes : Stopping(r, i)
                    \/ GivenUp(i)
                    \/ MayFail("offload") /\ Idle(i)
  BY DEF NoLostVM, Alive
<1>1. PICK t, x : Keeps(t, x, i)
  BY DEF AllKept, Kept
<1>2. CASE t = "C"
  BY <1>1, <1>2 DEF Keeps, Creating, CreatingLabels, GivenUp
<1>3. CASE t = "A"
  <2>1. x \in Creates /\ Active(x, i)
    BY <1>1, <1>3 DEF Keeps, Active
  <2>2. activeInstances[x] # 0
    BY <2>1 DEF Active
  <2>3. Missed(x) => EarlyRemove
    BY <2>1, <2>2 DEF MissInv
  <2> QED BY <2>1, <2>3
<1>4. CASE t = "S"
  BY <1>1, <1>4 DEF Keeps, Stopping, StoppingLabels, GivenUp
<1>5. CASE t = "I"
  BY <1>1, <1>5 DEF Keeps, Idle, IdleAt
<1> QED BY <1>1, <1>2, <1>3, <1>4, <1>5 DEF Keeps

\* A step may concern itself with one instance; all others stay with who has them.
LEMMA KeepFrame ==
  ASSUME AllKept, NEW i0,
         \A i \in 1..Len(insts') : i # i0 => i \in 1..Len(insts) /\ insts'[i] = insts[i],
         \A i \in 1..Len(insts') : i # i0 => (Kept(i) => Kept(i)'),
         i0 \in 1..Len(insts') => (Alive(i0)' => Kept(i0)')
  PROVE  AllKept'
<1> SUFFICES ASSUME NEW i \in 1..Len(insts'), Alive(i)' PROVE Kept(i)'
  BY DEF AllKept
<1>1. CASE i # i0
  BY <1>1 DEF AllKept, Alive
<1>2. CASE i = i0
  BY <1>2
<1> QED BY <1>1, <1>2

LEMMA KeepCreate ==
  ASSUME IInv, AllKept, NEW c \in Creates, CreateStep(c) \/ StockCreate(c)
  PROVE  AllKept'
<1> USE DEF IInv
<1>0. /\ pc \in [Creates -> CreateLabels] /\ instOf \in [Creates -> 0..Len(insts)]
      /\ insts \in Seq(Instance) /\ Len(insts) \in Nat
      /\ activeInstances \in [Creates -> 0..Len(insts)]
      /\ idleInstances \in [Images -> Seq(1..Len(insts))]
  BY DEF TypeOK
\* A quiet step, or one that ends with the VM of the call running or given up.
<1>1. ASSUME NEW l \in CreatingLabels \cup {"failed"}, pc[c] \in CreatingLabels,
             pc' = [pc EXCEPT ![c] = l], Len(insts') = Len(insts),
             \A j \in 1..Len(insts) : j # instOf[c] => insts'[j] = insts[j],
             UNCHANGED <<instOf, activeInstances, idleInstances, rpc, rmInst>>
      PROVE  AllKept'
  <2>1. \A t, x, i : Keeps(t, x, i) => Keeps(t, x, i)'
    BY <1>0, <1>1 DEF Keeps
  <2>2. PICK i0 : i0 = instOf[c]
    OBVIOUS
  <2>3. \A i : Kept(i) => Kept(i)'
    BY <2>1 DEF Kept
  <2>4. Keeps("C", c, i0)'
    BY <1>0, <1>1, <2>2 DEF Keeps
  <2>5. Alive(i0)' => Kept(i0)'
    BY <2>4 DEF Kept
  <2>6. \A i : i # i0 => (Kept(i) => Kept(i)')
    BY <2>3
  <2>7. \A i \in 1..Len(insts') : i # i0 => i \in 1..Len(insts) /\ insts'[i] = insts[i]
    BY <1>0, <1>1, <2>2
  <2> QED BY ONLY AllKept, <2>5, <2>6, <2>7, KeepFrame
<1>2. CASE StockCreate(c)
  <2>1. UNCHANGED <<pc, instOf, activeInstances, idleInstances, rpc, rmInst, insts>>
    BY <1>2 DEF StockCreate, coordVars, removeVars
  <2> QED BY <2>1 DEF AllKept, Alive, Kept, Keeps
<1>3. CASE CreateBegin(c)
  <2>1. UNCHANGED <<instOf, activeInstances, idleInstances, rpc, rmInst, insts>>
    BY <1>3 DEF CreateBegin, coordVars, removeVars
  <2>2. pc[c] = "begin" /\ \A d \in Creates : d # c => pc'[d] = pc[d]
    BY <1>0, <1>3 DEF CreateBegin, GotoC
  <2>3. \A t, x, i : Keeps(t, x, i) => Keeps(t, x, i)'
    BY <2>1, <2>2 DEF Keeps, CreatingLabels
  <2> QED BY <2>1, <2>3 DEF AllKept, Alive, Kept
<1>4. CASE StockWait(c) \/ InsertPodVMConfig(c)
  <2>1. /\ UNCHANGED <<instOf, activeInstances, idleInstances, rpc, rmInst, insts>>
        /\ pc[c] \in CreatingLabels
    BY <1>4 DEF StockWait, InsertPodVMConfig, coordVars, removeVars, CreatingLabels
  <2>2. PICK l \in CreatingLabels \cup {"failed"} : pc' = [pc EXCEPT ![c] = l]
    BY <1>4 DEF StockWait, InsertPodVMConfig, GotoC, CreatingLabels
  <2> QED BY <1>1, <2>1, <2>2
<1>5. CASE StartVM(c) \/ LoadInstance(c)
  <2>1. pc[c] \in CreatingLabels
    BY <1>5 DEF StartVM, LoadInstance, CreatingLabels
  <2>2. instOf[c] \in 1..Len(insts)
    BY <2>1, CreatorOwns
  <2>3. UNCHANGED <<instOf, activeInstances, idleInstances, rpc, rmInst>>
    BY <1>5 DEF StartVM, LoadInstance, removeVars
  <2>4. PICK l \in CreatingLabels \cup {"failed"} : pc' = [pc EXCEPT ![c] = l]
    BY <1>5 DEF StartVM, LoadInstance, GotoC, CreatingLabels
  <2>5. insts' = insts \/ \E v \in VMStates : SetVM(instOf[c], v)
    BY <1>5 DEF StartVM, LoadInstance, VMStates
  <2>6. Len(insts') = Len(insts) /\ \A j \in 1..Len(insts) : j # instOf[c] => insts'[j] = insts[j]
    BY <1>0, <2>2, <2>5, SetVMFacts
  <2> QED BY <1>1, <2>1, <2>3, <2>4, <2>6
<1>6. CASE DrawID(c)
  <2>0. PICK i0 : i0 = Len(insts) + 1
    OBVIOUS
  <2>1. PICK fi : insts' = Append(insts, fi) /\ fi.vm = "none"
    BY <1>6 DEF DrawID
  <2>2. /\ Len(insts') = Len(insts) + 1 /\ insts'[i0].vm = "none"
        /\ \A i \in 1..Len(insts') : i # i0 => i \in 1..Len(insts) /\ insts'[i] = insts[i]
    BY <1>0, <2>0, <2>1
  <2>3. /\ pc[c] = "pick" /\ \A d \in Creates : d # c => pc'[d] = pc[d] /\ instOf'[d] = instOf[d]
        /\ UNCHANGED <<activeInstances, idleInstances, rpc, rmInst>>
    BY <1>0, <1>6 DEF DrawID, GotoC, removeVars
  <2>4. \A t, x, i : Keeps(t, x, i) => Keeps(t, x, i)'
    BY <2>3 DEF Keeps, CreatingLabels
  <2>5. ~Alive(i0)'
    BY <2>2 DEF Alive
  <2>6. \A i : Kept(i) => Kept(i)'
    BY <2>4 DEF Kept
  <2> QED BY <1>0, <2>2, <2>5, <2>6, KeepFrame
<1>7. CASE TakeIdle(c)
  <2>0. PICK img, list, i0 : img = ImageOf[c] /\ list = idleInstances[img] /\ i0 = Head(list)
    OBVIOUS
  <2>1. /\ pc[c] = "pick" /\ pc' = [pc EXCEPT ![c] = "load"] /\ list # <<>>
        /\ instOf' = [instOf EXCEPT ![c] = i0]
        /\ idleInstances' = [idleInstances EXCEPT ![img] = Tail(list)]
        /\ UNCHANGED <<activeInstances, rpc, rmInst, insts>>
    BY <1>7, <2>0 DEF TakeIdle, GotoC, PopIdle, removeVars
  <2>2. img \in Images
    BY <2>0, <2>1 DEF CallInv, CreateInv
  <2>3. list \in Seq(1..Len(insts))
    BY <1>0, <2>0, <2>2
  <2>4. \A k \in DOMAIN list : list[k] # i0 => k - 1 \in DOMAIN Tail(list) /\ Tail(list)[k - 1] = list[k]
    BY <2>0, <2>1, <2>3, SMTT(60)
  <2>5. /\ idleInstances'[img] = Tail(list)
        /\ \A j \in Images : j # img => idleInstances'[j] = idleInstances[j]
    BY <1>0, <2>1, <2>2
  <2>6. /\ pc'[c] = "load" /\ instOf'[c] = i0
        /\ \A d \in Creates : d # c => pc'[d] = pc[d] /\ instOf'[d] = instOf[d]
    BY <1>0, <2>1
  <2>7. ASSUME NEW t, NEW x, NEW i, i # i0, Keeps(t, x, i) PROVE Keeps(t, x, i)'
    <3>1. CASE t = "I"
      <4>1. PICK k \in DOMAIN idleInstances[x] : idleInstances[x][k] = i
        BY <2>7, <3>1 DEF Keeps
      <4>2. \E j \in DOMAIN idleInstances'[x] : idleInstances'[x][j] = i
        <5>1. CASE x = img
          <6>1. k \in DOMAIN list /\ list[k] = i
            BY <2>0, <4>1, <5>1
          <6>2. k - 1 \in DOMAIN Tail(list) /\ Tail(list)[k - 1] = i
            BY <2>4, <2>7, <6>1
          <6> QED BY <2>5, <5>1, <6>2
        <5>2. CASE x # img
          <6>1. x \in Images
            BY <2>7, <3>1 DEF Keeps
          <6> QED BY <2>5, <4>1, <5>2, <6>1
        <5> QED BY <5>1, <5>2
      <4> QED BY <2>7, <3>1, <4>2 DEF Keeps, MayFail
    <3>2. CASE t # "I"
      BY <2>1, <2>6, <2>7, <3>2 DEF Keeps, CreatingLabels
    <3> QED BY <3>1, <3>2
  <2>8. Keeps("C", c, i0)'
    BY <2>6 DEF Keeps, CreatingLabels
  <2>9. \A i : i # i0 => (Kept(i) => Kept(i)')
    BY <2>7 DEF Kept
  <2>10. Kept(i0)'
    BY <2>8 DEF Kept
  <2> QED BY <1>0, <2>1, <2>9, <2>10, KeepFrame
<1>8. CASE InsertActive(c)
  <2>0. PICK i0 : i0 = instOf[c]
    OBVIOUS
  <2>1. /\ pc[c] = "insert" /\ UNCHANGED <<instOf, insts, idleInstances, rpc, rmInst>>
        /\ \/ pc' = [pc EXCEPT ![c] = "failed"] /\ activeInstances' = activeInstances
           \/ /\ pc' = [pc EXCEPT ![c] = "ok"] /\ activeInstances[c] = 0
              /\ activeInstances' = [activeInstances EXCEPT ![c] = i0]
    BY <1>8, <2>0 DEF InsertActive, GotoC, removeVars
  <2>2. ASSUME NEW t, NEW x, NEW i \in 1..Len(insts), i # i0, Keeps(t, x, i) PROVE Keeps(t, x, i)'
    <3>1. /\ \A d \in Creates : d # c => pc'[d] = pc[d]
          /\ \A d \in Creates : activeInstances'[d] # activeInstances[d] => activeInstances[d] = 0
      BY <1>0, <2>1
    <3>2. i # 0
      OBVIOUS
    <3> QED BY <2>0, <2>1, <2>2, <3>1, <3>2 DEF Keeps
  <2>3. Kept(i0)'
    <3>1. CASE pc' = [pc EXCEPT ![c] = "failed"]
      <4>1. Keeps("C", c, i0)'
        BY <1>0, <2>0, <2>1, <3>1 DEF Keeps
      <4> QED BY <4>1 DEF Kept
    <3>2. CASE activeInstances' = [activeInstances EXCEPT ![c] = i0]
      <4>1. Keeps("A", c, i0)'
        BY <1>0, <3>2 DEF Keeps
      <4> QED BY <4>1 DEF Kept
    <3> QED BY <2>1, <3>1, <3>2
  <2>4. \A i \in 1..Len(insts) : i # i0 => (Kept(i) => Kept(i)')
    BY <2>2 DEF Kept
  <2> QED BY <1>0, <2>1, <2>3, <2>4, KeepFrame
<1> QED BY <1>2, <1>3, <1>4, <1>5, <1>6, <1>7, <1>8 DEF CreateStep

LEMMA KeepStop ==
  ASSUME IInv, AllKept, NEW r \in Removes, StopStep(r)
  PROVE  AllKept'
<1> USE DEF IInv
<1>0. /\ rpc \in [Removes -> RemoveLabels] /\ rmInst \in [Removes -> 0..Len(insts)]
      /\ insts \in Seq(Instance) /\ Len(insts) \in Nat
      /\ activeInstances \in [Creates -> 0..Len(insts)]
      /\ idleInstances \in [Images -> Seq(1..Len(insts))]
  BY DEF TypeOK
\* The goroutine works on its instance i0 and goes on to l.
<1>1. ASSUME NEW i0, NEW l \in RemoveLabels, i0 = rmInst[r], rpc' = [rpc EXCEPT ![r] = l],
             Len(insts') = Len(insts),
             \A j \in 1..Len(insts) : j # i0 => insts'[j] = insts[j],
             l \in StoppingLabels \cup {"failed"} \/ ~Alive(i0)',
             UNCHANGED <<pc, instOf, activeInstances, idleInstances, rmInst>>
      PROVE  AllKept'
  <2>1. ASSUME NEW t, NEW x, NEW i, i # i0, Keeps(t, x, i) PROVE Keeps(t, x, i)'
    BY <1>0, <1>1, <2>1 DEF Keeps
  <2>2. l \in StoppingLabels \cup {"failed"} => Keeps("S", r, i0)'
    BY <1>0, <1>1 DEF Keeps
  <2>3. Alive(i0)' => Kept(i0)'
    BY <1>1, <2>2 DEF Kept
  <2>4. \A i : i # i0 => (Kept(i) => Kept(i)')
    BY <2>1 DEF Kept
  <2>5. \A i \in 1..Len(insts') : i # i0 => i \in 1..Len(insts) /\ insts'[i] = insts[i]
    BY <1>1
  <2> QED BY ONLY AllKept, <2>3, <2>4, <2>5, KeepFrame
<1>2. CASE TakeActive(r)
  <2>0. PICK c, i0 : c = rmOf[r] /\ i0 = activeInstances[c]
    OBVIOUS
  <2>1. /\ rpc[r] = "look" /\ rmInst' = [rmInst EXCEPT ![r] = i0]
        /\ activeInstances' = [activeInstances EXCEPT ![c] = 0]
        /\ UNCHANGED <<pc, instOf, insts, idleInstances>>
    BY <1>2, <2>0 DEF TakeActive, DeleteActive, createVars
  <2>2. PICK l \in {"done", "snapshot", "stop"} :
          rpc' = [rpc EXCEPT ![r] = l] /\ (i0 = 0 <=> l = "done")
    BY <1>2, <2>0 DEF TakeActive, GotoR
  <2>3. c \in Creates
    BY <2>0, <2>1 DEF CallInv, StopInv
  <2>4. ASSUME NEW t, NEW x, NEW i \in 1..Len(insts), i # i0, Keeps(t, x, i) PROVE Keeps(t, x, i)'
    BY <1>0, <2>0, <2>1, <2>2, <2>3, <2>4 DEF Keeps, StoppingLabels
  <2>5. i0 \in 1..Len(insts) => Keeps("S", r, i0)'
    BY <1>0, <2>1, <2>2 DEF Keeps, StoppingLabels
  <2>6. \A i \in 1..Len(insts) : i # i0 => (Kept(i) => Kept(i)')
    BY <2>4 DEF Kept
  <2>7. i0 \in 1..Len(insts) => Kept(i0)'
    BY <2>5 DEF Kept
  <2> QED BY <1>0, <2>1, <2>6, <2>7, KeepFrame
<1>3. CASE CreateSnapshot(r)
  <2>0. PICK i0 : i0 = rmInst[r]
    OBVIOUS
  <2>1. UNCHANGED <<pc, instOf, activeInstances, idleInstances, rmInst>>
    BY <1>3 DEF CreateSnapshot, createVars
  <2>2. PICK l \in {"offload", "failed"} : rpc' = [rpc EXCEPT ![r] = l]
    BY <1>3 DEF CreateSnapshot, GotoR, AfterSnapshotError
  <2>3. insts' = insts \/ \E fi : insts' = [insts EXCEPT ![i0] = fi]
    BY <1>3, <2>0 DEF CreateSnapshot
  <2>4. Len(insts') = Len(insts) /\ \A j \in 1..Len(insts) : j # i0 => insts'[j] = insts[j]
    BY <1>0, <2>3
  <2>5. l \in RemoveLabels /\ l \in StoppingLabels \cup {"failed"}
    BY DEF RemoveLabels, StoppingLabels
  <2> QED BY <1>1, <2>0, <2>1, <2>2, <2>4, <2>5
<1>4. CASE Offload(r) \/ StopVM(r)
  <2>0. PICK i0 : i0 = rmInst[r]
    OBVIOUS
  <2>1. UNCHANGED <<pc, instOf, activeInstances, idleInstances, rmInst>>
    BY <1>4 DEF Offload, StopVM, createVars
  <2>2. i0 \in 1..Len(insts)
    BY <1>4, <2>0, StopperOwns DEF Offload, StopVM, StoppingLabels
  <2>3. PICK l \in {"setIdle", "done", "failed"} : rpc' = [rpc EXCEPT ![r] = l]
    BY <1>4 DEF Offload, StopVM, GotoR, AfterStopError
  <2>4. insts' = insts \/ \E v \in VMStates : SetVM(i0, v)
    BY <1>4, <2>0 DEF Offload, StopVM, OffloadVM, VMStates
  <2>5. Len(insts') = Len(insts) /\ \A j \in 1..Len(insts) : j # i0 => insts'[j] = insts[j]
    BY <1>0, <2>2, <2>4, SetVMFacts
  <2>6. l = "done" => SetVM(i0, "stopped")
    BY <1>0, <1>4, <2>0, <2>3 DEF Offload, StopVM, GotoR, AfterStopError
  <2>7. l \in StoppingLabels \cup {"failed"} \/ ~Alive(i0)'
    BY <1>0, <2>2, <2>6, SetVMFacts DEF StoppingLabels, Alive, VMStates
  <2>8. l \in RemoveLabels
    BY DEF RemoveLabels
  <2> QED BY <1>1, <2>0, <2>1, <2>3, <2>5, <2>7, <2>8
<1>5. CASE SetIdleInstance(r)
  <2>0. PICK i0, img, list : i0 = rmInst[r] /\ img = insts[i0].image /\ list = idleInstances[img]
    OBVIOUS
  <2>1. /\ rpc[r] = "setIdle" /\ rpc' = [rpc EXCEPT ![r] = "done"]
        /\ idleInstances' = [idleInstances EXCEPT ![img] = Append(list, i0)]
        /\ UNCHANGED <<pc, instOf, insts, activeInstances, rmInst>>
    BY <1>5, <2>0 DEF SetIdleInstance, GotoR, createVars
  <2>2. i0 \in 1..Len(insts) /\ Good("S", r, i0)
    BY <2>0, <2>1, StopperOwns DEF StoppingLabels
  <2>3. img \in Images
    <3>1. insts[i0] \in Instance
      BY <1>0, <2>2
    <3> QED BY <2>0, <3>1 DEF Instance
  <2>4. list \in Seq(1..Len(insts))
    BY <1>0, <2>0, <2>3
  <2>5. PICK longer : longer = Append(list, i0)
    OBVIOUS
  <2>6. /\ \A k \in DOMAIN list : k \in DOMAIN longer /\ longer[k] = list[k]
        /\ Len(list) + 1 \in DOMAIN longer /\ longer[Len(list) + 1] = i0
    BY <2>2, <2>4, <2>5
  <2>7. /\ idleInstances'[img] = longer
        /\ \A j \in Images : j # img => idleInstances'[j] = idleInstances[j]
    BY <1>0, <2>1, <2>3, <2>5
  <2>8. ASSUME NEW t, NEW x, NEW i, i # i0, Keeps(t, x, i) PROVE Keeps(t, x, i)'
    <3>1. CASE t = "I"
      <4>1. PICK k \in DOMAIN idleInstances[x] : idleInstances[x][k] = i
        BY <2>8, <3>1 DEF Keeps
      <4>2. k \in DOMAIN idleInstances'[x] /\ idleInstances'[x][k] = i
        BY <2>0, <2>6, <2>7, <2>8, <3>1, <4>1 DEF Keeps
      <4> QED BY <2>8, <3>1, <4>2 DEF Keeps, MayFail
    <3>2. CASE t # "I"
      BY <1>0, <2>0, <2>1, <2>8, <3>2 DEF Keeps
    <3> QED BY <3>1, <3>2
  <2>9. Alive(i0)' => Kept(i0)'
    <3> SUFFICES ASSUME Alive(i0)' PROVE Keeps("I", img, i0)'
      BY DEF Kept
    <3>1. MayFail("offload")
      BY <2>1, <2>2 DEF Alive, Good, Offloaded
    <3> QED BY <2>3, <2>6, <2>7, <3>1 DEF Keeps, MayFail
  <2>10. \A i : i # i0 => (Kept(i) => Kept(i)')
    BY <2>8 DEF Kept
  <2> QED BY <1>0, <2>1, <2>9, <2>10, KeepFrame
<1> QED BY <1>2, <1>3, <1>4, <1>5 DEF StopStep

LEMMA KeepElsewhere ==
  ASSUME IInv, AllKept, UNCHANGED <<createVars, coordVars, rmInst>>,
         \A r \in Removes : rpc'[r] = rpc[r] \/ rpc[r] = "begin"
  PROVE  AllKept'
<1>0. UNCHANGED <<pc, instOf, insts, activeInstances, idleInstances, rmInst>>
  BY DEF createVars, coordVars
<1>1. \A t, x, i : Keeps(t, x, i) => Keeps(t, x, i)'
  BY <1>0 DEF Keeps, StoppingLabels
<1> QED BY <1>0, <1>1 DEF AllKept, Alive, Kept

\* A VM that runs or is paused is in the hands of a call that has not ended, or behind a
\* container that a RemoveContainer can still stop, or a call reported an error for it, or
\* it is idle after an Offload that failed; only a container removed before its create call
\* entered it in the active map leaves a VM that nobody will stop and no error tells of
\* (container_create.go 82-101, coordinator.go 110-127, 204-261).
THEOREM NoVMLost == Spec => []NoLostVM
<1>1. Init => AllKept /\ MissInv
  <2>1. Init => 1..Len(insts) = {}
    BY DEF Init
  <2> QED BY <2>1 DEF AllKept, MissInv, Missed, Init
<1>2. IInv /\ AllKept /\ [Next]_vars => AllKept'
  <2> SUFFICES ASSUME IInv, AllKept, [Next]_vars PROVE AllKept'
    OBVIOUS
  <2>1. CASE UNCHANGED vars
    BY <2>1, KeepElsewhere DEF vars, removeVars
  <2>2. ASSUME NEW q \in Proxies, ProxyStep(q) PROVE AllKept'
    BY <2>2, KeepElsewhere
       DEF ProxyStep, GetPodVMConfig, RemovePodVMConfig, CreateProxy, removeVars
  <2>3. ASSUME NEW r \in Removes, NEW c \in Creates, RemoveBegin(r, c) PROVE AllKept'
    <3>1. \A s \in Removes : rpc'[s] = rpc[s] \/ rpc[s] = "begin"
      BY <2>3 DEF RemoveBegin, GotoR, IInv, TypeOK
    <3> QED BY <2>3, <3>1, KeepElsewhere DEF RemoveBegin
  <2> QED BY <2>1, <2>2, <2>3, KeepCreate, KeepStop DEF Next
<1>3. IInv /\ MissInv /\ [Next]_vars => MissInv'
  BY MissStep
<1> QED BY <1>1, <1>2, <1>3, KeptIsNotLost, CoordInductive, PTL DEF Spec
=============================================================================
