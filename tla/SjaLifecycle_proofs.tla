------------------------ MODULE SjaLifecycle_proofs ------------------------
(***************************************************************************)
(* What SjaLifecycle guarantees for any number of devices, of users and    *)
(* of probes.                                                              *)
(*                                                                         *)
(* The core of the invariant is CountInv: the reference count of an        *)
(* instance is the number of its users and one for its poll thread.        *)
(* Whatever a probe without buffers cannot disturb (it unlocks minor_lock  *)
(* for somebody else) is in CoreInv, the rest in ServedInv.                *)
(* EndsInv says who ends the waits of a probe and of a remove.             *)
(***************************************************************************)
EXTENDS SjaLifecycle, FiniteSetTheorems, TLAPS

Served == {"bound", "stopping", "closing", "closed"}

FoundType == [dev : Devs \cup {NoDev}, minor : Minors, of : Instances \cup {Null}]

\* A device that is bound or being bound has an instance of its own.
OwnInv ==
  /\ \A d \in Devs : own[d] = Null <=> pc[d] = "unbound"
  /\ \A d, e \in Devs : (own[d] = own[e] /\ own[d] # Null) => d = e
  /\ \A d \in Devs : own[d] # Null =>
       /\ dev[own[d]] = IF pc[d] = "closed" THEN NoDev ELSE d
       /\ pc[d] # "closed" => mem[own[d]] = "live"

\* Nobody knows an instance before it is allocated.
FreshInv ==
  /\ \A d \in Devs : own[d] <= allocs
  /\ \A u \in Users : ref[u] <= allocs
  /\ \A m \in Minors : sjaByMinor[m] <= allocs

FoundFresh == \A u \in Users : found[u].of <= allocs

\* The driver's threads belong to a bound device.
ThreadInv ==
  \A o \in Instances :
    /\ poller[o] \in {"run", "poll"} =>
         \E d \in Devs : own[d] = o /\ pc[d] \in {"bound", "stopping"}
    /\ phyCon[o] => \E d \in Devs : own[d] = o /\ pc[d] \in {"run", "bound", "stopping"}

\* The table has room for those who are being probed.
RoomInv == sjaCount + Cardinality(Probing) <= MaxChardevs

CoreInv == /\ TypeOK /\ OwnInv /\ FreshInv /\ FoundFresh
           /\ ThreadInv /\ RoomInv /\ PhyBalanced

-----------------------------------------------------------------------------
(* What a probe that unlocks minor_lock under another one disturbs         *)

\* The probe that holds minor_lock has the next slot.
LockInv ==
  \A d \in Devs : pc[d] \in {"phy", "run"} =>
    minorLock = d /\ devnum[own[d]] = sjaCount /\ sjaByMinor[sjaCount] = own[d]

MinorInv ==
  \A d \in Devs : pc[d] \in Served => devnum[own[d]] < sjaCount

TableInv ==
  \A m \in Minors : sjaByMinor[m] # Null =>
    \/ \E d \in Devs : own[d] = sjaByMinor[m] /\ pc[d] # "alloc" /\ devnum[own[d]] = m
    \/ mem[sjaByMinor[m]] = "failed" /\ m = sjaCount

\* What a user holds is not being probed.
RefInv ==
  \A u \in Users :
    /\ ref[u] # Null <=> upc[u] \in {"open", "checked", "oops"}
    /\ ref[u] # Null => /\ mem[ref[u]] \in {"live", "failed"}
                        /\ \A d \in Devs : own[d] = ref[u] => pc[d] \in Served

MemInv ==
  /\ \A d \in Devs : own[d] # Null => mem[own[d]] = "live"
  /\ \A o \in Instances : mem[o] = "failed" => dev[o] # NoDev
  /\ \A o \in Instances :
       mem[o] = "live" /\ (\A d \in Devs : own[d] # o) => dev[o] = NoDev

Refs(o) == {u \in Users : ref[u] = o}
Owned(o) == \E d \in Devs : own[d] = o

\* The reference count, once probe has set it.
CountInv ==
  \A o \in Instances :
    (mem[o] = "live" /\ \A d \in Devs : own[d] = o => pc[d] \notin {"alloc", "phy"}) =>
      users[o] = Cardinality(Refs(o)) + (IF Owned(o) THEN 1 ELSE 0)

HeldInv == \A o \in Instances : (mem[o] = "live" => Held(o)) /\ (mem[o] = "freed" => ~Held(o))

FoundInv ==
  \A u \in Users : found[u] # NotFound =>
    /\ found[u].of \in Instances
    /\ mem[found[u].of] # "failed" =>
         /\ found[u].minor < sjaCount
         /\ sjaByMinor[found[u].minor] \in {found[u].of, Null}
         /\ dev[found[u].of] \in {found[u].dev, NoDev}

SafeInv == /\ LockInv /\ MinorInv /\ TableInv /\ RefInv
           /\ MemInv /\ CountInv /\ HeldInv /\ FoundInv

ServedInv == ~unlocked => SafeInv

IInv == CoreInv /\ ServedInv

-----------------------------------------------------------------------------
(* Facts                                                                   *)

Early == {"alloc", "phy", "run"}

LEMMA Constants ==
  /\ Null \notin Instances /\ \A o \in Instances : o \in Nat /\ o >= 1
  /\ Instances = 1..MaxProbes /\ MaxProbes \in Nat /\ MaxChardevs \in Nat \ {0}
  /\ \A d \in Devs : d # NoDev /\ d # Free
  /\ \A u \in Users : u # Free /\ u \notin Devs
  BY ValuesAssumption, BoundsAssumption DEF Instances, Null

\* The devices being probed are finitely many.
LEMMA ProbingFinite == IsFiniteSet(Probing) /\ Cardinality(Probing) \in Nat
<1>1. Probing \subseteq Devs
  BY DEF Probing
<1>2. QED
  BY <1>1, UsersAssumption, FS_Subset, FS_CardinalityType

\* While a device is probed, the next slot is in the table.
LEMMA NextSlot ==
  ASSUME TypeOK, RoomInv, NEW d \in Devs, pc[d] \in Early
  PROVE  sjaCount \in Minors /\ sjaCount + 1 \in 0..MaxChardevs
<1>1. d \in Probing
  BY DEF Probing, Early
<1>2. Cardinality(Probing) # 0
  BY <1>1, ProbingFinite, FS_EmptySet
<1>3. sjaCount \in Nat /\ MaxChardevs \in Nat
  BY Constants DEF TypeOK
<1>4. QED
  BY <1>2, <1>3, ProbingFinite DEF RoomInv, Minors

-----------------------------------------------------------------------------
(* Types                                                                   *)

LEMMA InitType == Init => TypeOK
<1> SUFFICES ASSUME Init PROVE TypeOK
  OBVIOUS
<1>1. phyCon \in [Instances -> BOOLEAN] /\ unlocked \in BOOLEAN
  BY Zenon DEF Init
<1>2. 0 \in Minors
  BY Constants DEF Minors
<1>3. found \in [Users -> FoundType]
  <2>1. NotFound \in FoundType
    BY <1>2 DEF NotFound, FoundType
  <2>2. QED
    BY <2>1, Zenon DEF Init
<1>4. QED
  BY <1>1, <1>2, <1>3, Constants DEF Init, TypeOK, FoundType

\* The driver core's steps keep the types.
LEMMA CoreType ==
  ASSUME CoreInv, CoreStep PROVE TypeOK'
<1> USE DEF table, inst, core, user
<1>1. TypeOK /\ OwnInv /\ RoomInv
  BY DEF CoreInv
<1>2. ASSUME NEW d \in Devs, ProbeAlloc(d) PROVE TypeOK'
  <2>1. allocs + 1 \in Instances /\ allocs' \in 0..MaxProbes
    BY <1>1, <1>2, Constants DEF TypeOK, ProbeAlloc
  <2>2. phyRefs' \in [Devs -> Int]
    BY <1>1, <1>2 DEF TypeOK, ProbeAlloc, EarlySetup
  <2>3. phyCon' \in [Instances -> BOOLEAN] /\ unlocked' \in BOOLEAN
    BY <1>1, <1>2, Zenon DEF TypeOK, ProbeAlloc
  <2>4. QED
    BY <1>1, <1>2, <2>1, <2>2, <2>3 DEF TypeOK, ProbeAlloc
<1>3. ASSUME NEW d \in Devs, ProbeNoBuffers(d) PROVE TypeOK'
  <2>1. phyCon' \in [Instances -> BOOLEAN] /\ unlocked' \in BOOLEAN
    BY <1>1, <1>3, Zenon DEF TypeOK, ProbeNoBuffers
  <2>2. QED
    BY <1>1, <1>3, <2>1 DEF TypeOK, ProbeNoBuffers
<1>4. ASSUME NEW d \in Devs, pc[d] # "unbound" PROVE own[d] \in Instances
  BY <1>1, <1>4 DEF TypeOK, OwnInv
<1>5. ASSUME NEW d \in Devs, ProbeFails(d), own[d] \in Instances
      PROVE  /\ mem' \in [Instances -> {"none", "live", "freed", "failed"}]
             /\ own' \in [Devs -> Instances \cup {Null}] /\ phyRefs' \in [Devs -> Int]
             /\ pc' \in [Devs -> {"unbound", "alloc", "phy", "run", "bound",
                                  "stopping", "closing", "closed"}]
             /\ minorLock' = Free
  BY <1>1, <1>5 DEF TypeOK, ProbeFails, PutPhy
<1>6. ASSUME NEW d \in Devs, ProbeTable(d) PROVE TypeOK'
  <2>1. sjaCount \in Minors /\ own[d] \in Instances
    BY <1>1, <1>4, <1>6, NextSlot DEF ProbeTable, Early
  <2>2. /\ sjaByMinor' \in [Minors -> Instances \cup {Null}]
        /\ devnum' \in [Instances -> Minors]
    BY <1>1, <1>6, <2>1 DEF TypeOK, ProbeTable
  <2>3. phyCon' \in [Instances -> BOOLEAN] /\ unlocked' \in BOOLEAN
    BY <1>1, <1>6, Zenon DEF TypeOK, ProbeTable
  <2>4. CASE ProbeFails(d)
    BY <1>1, <1>5, <1>6, <2>1, <2>2, <2>3, <2>4 DEF TypeOK, ProbeTable
  <2>5. CASE ~ProbeFails(d)
    BY <1>1, <1>6, <2>1, <2>2, <2>3, <2>5 DEF TypeOK, ProbeTable
  <2>6. QED
    BY <2>4, <2>5
<1>7. ASSUME NEW d \in Devs, ProbePhy(d) PROVE TypeOK'
  <2>1. own[d] \in Instances
    BY <1>4, <1>7 DEF ProbePhy
  <2>2. phyCon' \in [Instances -> BOOLEAN] /\ unlocked' \in BOOLEAN
    BY <1>1, <1>7, Zenon DEF TypeOK, ProbePhy
  <2>3. users' \in [Instances -> Int]
    BY <1>1, <1>7, <2>1 DEF TypeOK, ProbePhy
  <2>4. CASE ProbeFails(d)
    BY <1>1, <1>5, <1>7, <2>1, <2>2, <2>3, <2>4 DEF TypeOK, ProbePhy
  <2>5. CASE ~ProbeFails(d)
    BY <1>1, <1>7, <2>1, <2>2, <2>3, <2>5 DEF TypeOK, ProbePhy
  <2>6. QED
    BY <2>4, <2>5
<1>8. ASSUME NEW d \in Devs, ProbeRun(d) PROVE TypeOK'
  <2>1. own[d] \in Instances /\ sjaCount + 1 \in 0..MaxChardevs
    BY <1>1, <1>4, <1>8, NextSlot DEF ProbeRun, Early
  <2>2. phyCon' \in [Instances -> BOOLEAN] /\ unlocked' \in BOOLEAN
    BY <1>1, <1>8, Zenon DEF TypeOK, ProbeRun, ProbeDone
  <2>3. CASE ProbeFails(d) /\ UNCHANGED <<poller, sjaCount>>
    BY <1>1, <1>5, <1>8, <2>1, <2>2, <2>3 DEF TypeOK, ProbeRun
  <2>4. CASE ProbeDone(d)
    <3>1. poller' \in [Instances -> {"none", "run", "poll", "exit"}]
      BY <1>1, <2>4 DEF TypeOK, ProbeDone
    <3>2. QED
      BY <1>1, <1>8, <2>1, <2>2, <2>4, <3>1 DEF TypeOK, ProbeRun, ProbeDone
  <2>5. QED
    BY <1>8, <2>3, <2>4 DEF ProbeRun
<1>9. ASSUME NEW d \in Devs, RemoveStart(d) PROVE TypeOK'
  <2>1. phyCon' \in [Instances -> BOOLEAN] /\ unlocked' \in BOOLEAN
    BY <1>1, <1>9, Zenon DEF TypeOK, RemoveStart
  <2>2. QED
    BY <1>1, <1>9, <2>1 DEF TypeOK, RemoveStart
<1>10. ASSUME NEW d \in Devs, RemovePhy(d) PROVE TypeOK'
  <2>1. phyCon' \in [Instances -> BOOLEAN] /\ unlocked' \in BOOLEAN
    BY <1>1, <1>10, Zenon DEF TypeOK, RemovePhy
  <2>2. phyRefs' \in [Devs -> Int]
    BY <1>1, <1>10 DEF TypeOK, RemovePhy, PutPhy
  <2>3. QED
    BY <1>1, <1>10, <2>1, <2>2 DEF TypeOK, RemovePhy
<1>11. ASSUME NEW d \in Devs, RemoveClose(d) PROVE TypeOK'
  <2>1. phyCon' \in [Instances -> BOOLEAN] /\ unlocked' \in BOOLEAN
    BY <1>1, <1>11, Zenon DEF TypeOK, RemoveClose
  <2>2. QED
    BY <1>1, <1>11, <2>1 DEF TypeOK, RemoveClose
<1>12. ASSUME NEW d \in Devs, RemoveLast(d) PROVE TypeOK'
  <2>1. phyCon' \in [Instances -> BOOLEAN] /\ unlocked' \in BOOLEAN
    BY <1>1, <1>12, Zenon DEF TypeOK, RemoveLast, LastUse
  <2>2. users' \in [Instances -> Int]
    <3>1. own[d] \in Instances
      BY <1>4, <1>12 DEF RemoveLast, LastUse
    <3>2. users' = [users EXCEPT ![own[d]] = @ - 1]
      BY <1>12 DEF RemoveLast, LastUse
    <3>3. QED
      BY <1>1, <3>1, <3>2 DEF TypeOK
  <2>3. /\ sjaByMinor' \in [Minors -> Instances \cup {Null}]
        /\ mem' \in [Instances -> {"none", "live", "freed", "failed"}]
    BY <1>1, <1>12 DEF TypeOK, RemoveLast, LastUse
  <2>4. QED
    BY <1>1, <1>12, <2>1, <2>2, <2>3 DEF TypeOK, RemoveLast, LastUse
<1>13. QED
  BY <1>2, <1>3, <1>6, <1>7, <1>8, <1>9, <1>10, <1>11, <1>12
     DEF CoreStep, ProbeStep, RemoveStep

\* So do the steps of the poll threads and of the users.
LEMMA UserType ==
  ASSUME TypeOK, PollStep \/ UserStep PROVE TypeOK'
<1> USE DEF table, inst, core, user
<1>1. UNCHANGED <<phyCon, unlocked>>
  BY DEF PollStep, UserStep, PollBegin, PollEnd, PollExit, Poller, Find, Get, Put,
     CheckDev, UseDev
<1>2. phyCon' \in [Instances -> BOOLEAN] /\ unlocked' \in BOOLEAN
  BY <1>1, Zenon DEF TypeOK
<1>3. ASSUME PollStep PROVE TypeOK'
  <2>1. PICK o \in Instances : PollBegin(o) \/ PollEnd(o) \/ PollExit(o)
    BY <1>3 DEF PollStep
  <2>2. poller' \in [Instances -> {"none", "run", "poll", "exit"}]
    BY <2>1 DEF TypeOK, PollBegin, PollEnd, PollExit, Poller
  <2>3. UNCHANGED <<table, inst, core, user>>
    BY <2>1 DEF PollBegin, PollEnd, PollExit, Poller
  <2>4. QED
    BY <1>2, <2>2, <2>3 DEF TypeOK
<1>4. ASSUME NEW u \in Users, NEW d \in Devs, Find(u, d) PROVE TypeOK'
  <2>1. PICK m \in Minors :
          IF dev[sjaByMinor[m]] = NoDev
          THEN /\ upc' = [upc EXCEPT ![u] = "stuck"] /\ minorLock' = u
               /\ UNCHANGED found
          ELSE /\ found' = [found EXCEPT ![u] =
                              [dev |-> d, minor |-> m, of |-> sjaByMinor[m]]]
               /\ UNCHANGED <<upc, minorLock>>
    BY <1>4 DEF Find, Ends
  <2>2. sjaByMinor[m] \in Instances \cup {Null}
    BY DEF TypeOK
  <2>3. [dev |-> d, minor |-> m, of |-> sjaByMinor[m]] \in FoundType
    BY <2>2 DEF FoundType
  <2>4. found' \in [Users -> FoundType]
    BY <2>1, <2>3 DEF TypeOK, FoundType
  <2>5. /\ upc' \in [Users -> {"idle", "open", "checked", "oops", "stuck"}]
        /\ minorLock' \in Devs \cup Users \cup {Free}
    BY <2>1 DEF TypeOK
  <2>6. QED
    BY <1>2, <1>4, <2>4, <2>5 DEF TypeOK, Find, FoundType
<1>5. ASSUME NEW u \in Users, NEW m \in Minors, Get(u, m) PROVE TypeOK'
  <2>1. sjaByMinor[m] \in Instances
    BY <1>5 DEF TypeOK, Get
  <2>2. NotFound \in FoundType
    BY Constants DEF NotFound, Minors, FoundType
  <2>3. /\ users' \in [Instances -> Int] /\ ref' \in [Users -> Instances \cup {Null}]
        /\ found' \in [Users -> FoundType]
        /\ upc' \in [Users -> {"idle", "open", "checked", "oops", "stuck"}]
    BY <1>5, <2>1, <2>2 DEF TypeOK, Get, FoundType
  <2>4. QED
    BY <1>2, <1>5, <2>3 DEF TypeOK, Get, FoundType
<1>6. ASSUME NEW u \in Users, Put(u) PROVE TypeOK'
  <2>1. /\ users' \in [Instances -> Int] /\ ref' \in [Users -> Instances \cup {Null}]
        /\ upc' \in [Users -> {"idle", "open", "checked", "oops", "stuck"}]
        /\ mem' \in [Instances -> {"none", "live", "freed", "failed"}]
    <3>1. users' = [users EXCEPT ![ref[u]] = users[ref[u]] - 1]
      BY <1>6 DEF Put
    <3>2. \A o \in Instances : users[o] \in Int /\ (ref[u] = o => users[o] - 1 \in Int)
      BY DEF TypeOK
    <3>3. users' \in [Instances -> Int]
      BY <3>1, <3>2 DEF TypeOK
    <3>4. QED
      BY <1>6, <3>3 DEF TypeOK, Put
  <2>2. QED
    BY <1>2, <1>6, <2>1 DEF TypeOK, Put
<1>7. ASSUME NEW u \in Users, CheckDev(u) \/ UseDev(u) PROVE TypeOK'
  <2>1. upc' \in [Users -> {"idle", "open", "checked", "oops", "stuck"}]
    BY <1>7 DEF TypeOK, CheckDev, UseDev
  <2>2. UNCHANGED <<table, inst, poller, core, ref, found>>
    BY <1>7 DEF CheckDev, UseDev
  <2>3. QED
    BY <1>2, <2>1, <2>2 DEF TypeOK
<1>8. QED
  BY <1>3, <1>4, <1>5, <1>6, <1>7 DEF UserStep

LEMMA TypeStep == CoreInv /\ [Next]_vars => TypeOK'
<1>1. CASE UNCHANGED vars
  BY <1>1 DEF CoreInv, TypeOK, vars, table, inst, core, user
<1>2. CASE Next
  BY <1>2, CoreType, UserType DEF CoreInv, Next
<1>3. QED
  BY <1>1, <1>2

-----------------------------------------------------------------------------
(* What holds though minor_lock is taken                                   *)

\* The instance of a device that is bound or being bound.
LEMMA OwnInstance ==
  ASSUME TypeOK, OwnInv, NEW d \in Devs, pc[d] # "unbound"
  PROVE  own[d] \in Instances /\ own[d] # Null
  BY Constants DEF TypeOK, OwnInv

LEMMA OwnStep ==
  ASSUME CoreInv, [Next]_vars PROVE OwnInv'
<1> USE DEF table, inst, core, user
<1>1. TypeOK /\ OwnInv /\ FreshInv
  BY DEF CoreInv
<1>2. ASSUME NEW d \in Devs, ProbeAlloc(d) PROVE OwnInv'
  <2>1. /\ allocs + 1 \in Instances /\ allocs + 1 # Null
        /\ \A e \in Devs : own[e] # allocs + 1
    BY <1>1, <1>2, Constants DEF TypeOK, FreshInv, ProbeAlloc
  <2>2. \A e \in Devs : e # d => own'[e] = own[e] /\ pc'[e] = pc[e]
    BY <1>1, <1>2 DEF TypeOK, ProbeAlloc
  <2>3. /\ own'[d] = allocs + 1 /\ pc'[d] = "alloc"
        /\ dev'[allocs + 1] = d /\ mem'[allocs + 1] = "live"
    BY <1>1, <1>2, <2>1 DEF TypeOK, ProbeAlloc
  <2>4. \A o \in Instances : o # allocs + 1 => dev'[o] = dev[o] /\ mem'[o] = mem[o]
    BY <1>1, <1>2 DEF TypeOK, ProbeAlloc
  <2>5. \A e \in Devs : own[e] # Null => own[e] \in Instances
    BY <1>1 DEF TypeOK
  <2>6. QED
    BY <1>1, <2>1, <2>2, <2>3, <2>4, <2>5 DEF OwnInv
<1>3. ASSUME NEW d \in Devs, ProbeFails(d), dev' = dev, pc[d] # "unbound" PROVE OwnInv'
  <2>1. own[d] \in Instances /\ own[d] # Null
    BY <1>1, <1>3, OwnInstance
  <2>2. \A e \in Devs : e # d => own'[e] = own[e] /\ pc'[e] = pc[e]
    BY <1>1, <1>3 DEF TypeOK, ProbeFails
  <2>3. own'[d] = Null /\ pc'[d] = "unbound"
    BY <1>1, <1>3 DEF TypeOK, ProbeFails
  <2>4. \A o \in Instances : o # own[d] => mem'[o] = mem[o]
    BY <1>1, <1>3 DEF TypeOK, ProbeFails
  <2>5. \A e \in Devs : own[e] # Null => own[e] \in Instances
    BY <1>1 DEF TypeOK
  <2>6. QED
    BY <1>1, <1>3, <2>1, <2>2, <2>3, <2>4, <2>5 DEF OwnInv
<1>4. ASSUME NEW d \in Devs, NEW s \in {"phy", "run", "bound", "stopping", "closing"},
             pc' = [pc EXCEPT ![d] = s], pc[d] \notin {"unbound", "closed"},
             UNCHANGED <<own, mem, dev>>
      PROVE  OwnInv'
  BY <1>1, <1>4 DEF TypeOK, OwnInv
<1>5. ASSUME NEW d \in Devs, ProbeStep(d) PROVE OwnInv'
  <2>1. pc[d] \in {"alloc", "phy", "run"} /\ dev' = dev
    BY <1>5 DEF ProbeStep, ProbeTable, ProbePhy, ProbeRun
  <2>2. CASE ProbeFails(d)
    BY <1>3, <2>1, <2>2
  <2>3. CASE ~ProbeFails(d)
    <3>1. PICK s \in {"phy", "run", "bound"} : pc' = [pc EXCEPT ![d] = s]
      BY <1>5, <2>3 DEF ProbeStep, ProbeTable, ProbePhy, ProbeRun, ProbeDone
    <3>2. UNCHANGED <<own, mem, dev>>
      BY <1>5, <2>3 DEF ProbeStep, ProbeTable, ProbePhy, ProbeRun, ProbeDone
    <3>3. QED
      BY <1>4, <2>1, <3>1, <3>2
  <2>4. QED
    BY <2>2, <2>3
<1>6. ASSUME NEW d \in Devs, RemoveStart(d) \/ RemovePhy(d) PROVE OwnInv'
  <2>1. PICK s \in {"stopping", "closing"} : pc' = [pc EXCEPT ![d] = s]
    BY <1>6 DEF RemoveStart, RemovePhy
  <2>2. pc[d] \notin {"unbound", "closed"} /\ UNCHANGED <<own, mem, dev>>
    BY <1>6 DEF RemoveStart, RemovePhy
  <2>3. QED
    BY <1>4, <2>1, <2>2
<1>7. ASSUME NEW d \in Devs, RemoveClose(d) PROVE OwnInv'
  <2>1. own[d] \in Instances /\ own[d] # Null
    BY <1>1, <1>7, OwnInstance DEF RemoveClose
  <2>2. \A e \in Devs : e # d => pc'[e] = pc[e]
    BY <1>1, <1>7 DEF TypeOK, RemoveClose
  <2>3. pc'[d] = "closed" /\ dev'[own[d]] = NoDev
    BY <1>1, <1>7, <2>1 DEF TypeOK, RemoveClose
  <2>4. \A o \in Instances : o # own[d] => dev'[o] = dev[o]
    BY <1>1, <1>7 DEF TypeOK, RemoveClose
  <2>5. \A e \in Devs : own[e] # Null => own[e] \in Instances
    BY <1>1 DEF TypeOK
  <2>6. own' = own /\ mem' = mem
    BY <1>7 DEF RemoveClose
  <2>7. pc[d] # "closed" /\ pc[d] # "unbound"
    BY <1>7 DEF RemoveClose
  <2>8. QED
    BY <1>1, <2>1, <2>2, <2>3, <2>4, <2>5, <2>6, <2>7 DEF OwnInv
<1>8. ASSUME NEW d \in Devs, RemoveLast(d) PROVE OwnInv'
  <2>1. own[d] \in Instances /\ own[d] # Null
    BY <1>1, <1>8, OwnInstance DEF RemoveLast, LastUse
  <2>2. \A e \in Devs : e # d => own'[e] = own[e] /\ pc'[e] = pc[e]
    BY <1>1, <1>8 DEF TypeOK, RemoveLast, LastUse
  <2>3. own'[d] = Null /\ pc'[d] = "unbound" /\ dev' = dev
    BY <1>1, <1>8 DEF TypeOK, RemoveLast, LastUse
  <2>4. \A o \in Instances : o # own[d] => mem'[o] = mem[o]
    BY <1>1, <1>8 DEF TypeOK, RemoveLast, LastUse
  <2>5. \A e \in Devs : own[e] # Null => own[e] \in Instances
    BY <1>1 DEF TypeOK
  <2>6. QED
    BY <1>1, <2>1, <2>2, <2>3, <2>4, <2>5 DEF OwnInv
<1>9. ASSUME NEW u \in Users, Put(u) PROVE OwnInv'
  <2>1. UNCHANGED <<own, pc, dev>>
    BY <1>9 DEF Put
  <2>2. \A o \in Instances : mem'[o] = mem[o] \/ dev[o] = NoDev
    BY <1>1, <1>9 DEF TypeOK, Put
  <2>3. \A e \in Devs : own[e] # Null => own[e] \in Instances
    BY <1>1 DEF TypeOK
  <2>4. QED
    BY <1>1, <2>1, <2>2, <2>3, Constants DEF OwnInv
<1>10. ASSUME UNCHANGED <<own, pc, dev, mem>> PROVE OwnInv'
  BY <1>1, <1>10 DEF OwnInv
<1>11. ASSUME NEW d \in Devs, ProbeNoBuffers(d) PROVE OwnInv'
  BY <1>10, <1>11 DEF ProbeNoBuffers
<1>12. ASSUME PollStep PROVE OwnInv'
  BY <1>10, <1>12 DEF PollStep, PollBegin, PollEnd, PollExit, Poller
<1>13. ASSUME UserStep, ~(\E u \in Users : Put(u)) PROVE OwnInv'
  BY <1>10, <1>13 DEF UserStep, Find, Get, CheckDev, UseDev
<1>14. CASE UNCHANGED vars
  BY <1>10, <1>14 DEF vars
<1>15. QED
  BY <1>2, <1>5, <1>6, <1>7, <1>8, <1>9, <1>11, <1>12, <1>13, <1>14
     DEF Next, CoreStep, RemoveStep

LEMMA FreshStep ==
  ASSUME CoreInv, [Next]_vars PROVE FreshInv'
<1> USE DEF table, inst, core, user
<1>1. TypeOK /\ OwnInv /\ FreshInv
  BY DEF CoreInv
<1>2. allocs' \in Nat /\ allocs <= allocs' /\ 0 <= allocs /\ allocs \in Nat
  BY <1>1, BoundsAssumption DEF TypeOK, vars, Next, CoreStep, PollStep, UserStep, ProbeAlloc,
     ProbeNoBuffers, ProbeStep, ProbeTable, ProbePhy, ProbeRun, RemoveStart,
     RemoveStep, RemovePhy, RemoveClose, RemoveLast, LastUse, PollBegin, PollEnd,
     PollExit, Poller, Find, Get, Put, CheckDev, UseDev
<1>3. /\ \A d \in Devs : own[d] \in Nat
      /\ \A u \in Users : ref[u] \in Nat
      /\ \A m \in Minors : sjaByMinor[m] \in Nat
  BY <1>1, Constants DEF TypeOK, Null
<1>4. ASSUME UNCHANGED <<own, ref, sjaByMinor>> PROVE FreshInv'
  BY <1>1, <1>2, <1>3, <1>4 DEF FreshInv
<1>5. ASSUME NEW d \in Devs, NEW o \in {Null, allocs'}, own' = [own EXCEPT ![d] = o],
             UNCHANGED <<ref, sjaByMinor>>
      PROVE  FreshInv'
  <2>1. \A e \in Devs : own'[e] = own[e] \/ own'[e] = o
    BY <1>1, <1>5 DEF TypeOK
  <2>2. QED
    BY <1>1, <1>2, <1>3, <1>5, <2>1 DEF FreshInv, Null
<1>6. ASSUME NEW d \in Devs, NEW m, NEW o \in {Null, own[d]},
             sjaByMinor' = [sjaByMinor EXCEPT ![m] = o], ref' = ref,
             own' = own \/ own' = [own EXCEPT ![d] = Null]
      PROVE  FreshInv'
  <2>1. \A e \in Devs : own'[e] = own[e] \/ own'[e] = Null
    BY <1>1, <1>6 DEF TypeOK
  <2>2. \A n \in Minors : sjaByMinor'[n] = sjaByMinor[n] \/ sjaByMinor'[n] = o
    BY <1>1, <1>6 DEF TypeOK
  <2>3. QED
    BY <1>1, <1>2, <1>3, <1>6, <2>1, <2>2 DEF FreshInv, Null
<1>7. ASSUME NEW u \in Users, NEW o \in {Null} \cup {sjaByMinor[m] : m \in Minors},
             ref' = [ref EXCEPT ![u] = o], UNCHANGED <<own, sjaByMinor>>
      PROVE  FreshInv'
  <2>1. \A v \in Users : ref'[v] = ref[v] \/ ref'[v] = o
    BY <1>1, <1>7 DEF TypeOK
  <2>2. o <= allocs /\ o \in Nat
    BY <1>1, <1>2, <1>3, <1>7 DEF FreshInv, Null
  <2>3. QED
    BY <1>1, <1>2, <1>3, <1>7, <2>1, <2>2 DEF FreshInv
<1>8. ASSUME NEW d \in Devs, ProbeAlloc(d) PROVE FreshInv'
  BY <1>5, <1>8 DEF ProbeAlloc
<1>9. ASSUME NEW d \in Devs, ProbeTable(d) PROVE FreshInv'
  <2>1. own' = own \/ own' = [own EXCEPT ![d] = Null]
    BY <1>9 DEF ProbeTable, ProbeFails
  <2>2. sjaByMinor' = [sjaByMinor EXCEPT ![sjaCount] = own[d]] /\ ref' = ref
    BY <1>9 DEF ProbeTable
  <2>3. QED
    BY <1>6, <2>1, <2>2
<1>10. ASSUME NEW d \in Devs, ProbePhy(d) \/ ProbeRun(d) PROVE FreshInv'
  <2>1. own' = own \/ own' = [own EXCEPT ![d] = Null]
    BY <1>10 DEF ProbePhy, ProbeRun, ProbeDone, ProbeFails
  <2>2. UNCHANGED <<ref, sjaByMinor>>
    BY <1>10 DEF ProbePhy, ProbeRun
  <2>3. QED
    BY <1>4, <1>5, <2>1, <2>2
<1>11. ASSUME NEW d \in Devs, RemoveLast(d) PROVE FreshInv'
  <2>1. own' = [own EXCEPT ![d] = Null] /\ ref' = ref
    BY <1>11 DEF RemoveLast, LastUse
  <2>2. sjaByMinor' = [sjaByMinor EXCEPT ![devnum[own[d]]] = Null]
    BY <1>11 DEF RemoveLast
  <2>3. QED
    BY <1>6, <2>1, <2>2
<1>12. ASSUME NEW d \in Devs,
              ProbeNoBuffers(d) \/ RemoveStart(d) \/ RemovePhy(d) \/ RemoveClose(d)
       PROVE  FreshInv'
  BY <1>4, <1>12 DEF ProbeNoBuffers, RemoveStart, RemovePhy, RemoveClose
<1>13. ASSUME PollStep PROVE FreshInv'
  BY <1>4, <1>13 DEF PollStep, PollBegin, PollEnd, PollExit, Poller
<1>14. ASSUME NEW u \in Users, NEW m \in Minors, Get(u, m) PROVE FreshInv'
  BY <1>7, <1>14 DEF Get
<1>15. ASSUME NEW u \in Users, Put(u) PROVE FreshInv'
  BY <1>7, <1>15 DEF Put
<1>16. ASSUME NEW u \in Users, (\E d \in Devs : Find(u, d)) \/ CheckDev(u) \/ UseDev(u)
       PROVE  FreshInv'
  BY <1>4, <1>16 DEF Find, CheckDev, UseDev
<1>17. CASE UNCHANGED vars
  BY <1>4, <1>17 DEF vars
<1>18. QED
  BY <1>8, <1>9, <1>10, <1>11, <1>12, <1>13, <1>14, <1>15, <1>16, <1>17
     DEF Next, CoreStep, ProbeStep, RemoveStep, UserStep

LEMMA FoundFreshStep ==
  ASSUME CoreInv, [Next]_vars PROVE FoundFresh'
<1> USE DEF table, inst, core, user
<1>1. TypeOK /\ FreshInv /\ FoundFresh
  BY DEF CoreInv
<1>2. allocs \in Nat /\ allocs' \in Nat /\ allocs <= allocs'
  BY <1>1, BoundsAssumption DEF TypeOK, vars, Next, CoreStep, PollStep, UserStep, ProbeAlloc,
     ProbeNoBuffers, ProbeStep, ProbeTable, ProbePhy, ProbeRun, RemoveStart,
     RemoveStep, RemovePhy, RemoveClose, RemoveLast, LastUse, PollBegin, PollEnd,
     PollExit, Poller, Find, Get, Put, CheckDev, UseDev
<1>3. \A u \in Users : found[u].of \in Nat
  BY <1>1, Constants DEF TypeOK, Null
<1>4. CASE found' = found
  BY <1>1, <1>2, <1>3, <1>4 DEF FoundFresh
<1>5. ASSUME NEW u \in Users, NEW o \in Nat, o <= allocs, found'[u].of = o, allocs' = allocs,
             \A v \in Users : v # u => found'[v] = found[v]
      PROVE  FoundFresh'
  BY <1>1, <1>5 DEF FoundFresh
<1>6. ASSUME NEW u \in Users, NEW d \in Devs, Find(u, d) PROVE FoundFresh'
  <2>1. PICK m \in Minors :
          IF dev[sjaByMinor[m]] = NoDev
          THEN UNCHANGED found
          ELSE found' = [found EXCEPT ![u] = [dev |-> d, minor |-> m, of |-> sjaByMinor[m]]]
    BY <1>6 DEF Find, Ends
  <2>2. CASE found' = [found EXCEPT ![u] = [dev |-> d, minor |-> m, of |-> sjaByMinor[m]]]
    <3>1. found'[u].of = sjaByMinor[m] /\ \A v \in Users : v # u => found'[v] = found[v]
      BY <1>1, <2>2 DEF TypeOK
    <3>2. sjaByMinor[m] \in Nat /\ sjaByMinor[m] <= allocs /\ allocs' = allocs
      BY <1>1, <1>6, Constants DEF TypeOK, FreshInv, Find, Null
    <3>3. QED
      BY <1>5, <3>1, <3>2
  <2>3. QED
    BY <1>4, <2>1, <2>2
<1>7. ASSUME NEW u \in Users, NEW m \in Minors, Get(u, m) PROVE FoundFresh'
  <2>1. found'[u] = NotFound /\ \A v \in Users : v # u => found'[v] = found[v]
    BY <1>1, <1>7 DEF TypeOK, Get
  <2>2. found'[u].of = 0 /\ allocs' = allocs
    BY <1>7, <2>1 DEF NotFound, Null, Get
  <2>3. QED
    BY <1>2, <1>5, <2>1, <2>2
<1>8. QED
  BY <1>4, <1>6, <1>7 DEF vars, Next, CoreStep, PollStep, UserStep, ProbeAlloc,
     ProbeNoBuffers, ProbeStep, ProbeTable, ProbePhy, ProbeRun, RemoveStart,
     RemoveStep, RemovePhy, RemoveClose, RemoveLast, LastUse, PollBegin, PollEnd,
     PollExit, Poller, Put, CheckDev, UseDev

\* A device the threads of whose instance run leaves the states in which they
\* may by RemovePhy only, which finds the poll thread at its end.
LEMMA ThreadStep ==
  ASSUME CoreInv, [Next]_vars PROVE ThreadInv'
<1> USE DEF table, inst, core, user
<1>1. TypeOK /\ OwnInv /\ ThreadInv
  BY DEF CoreInv
<1> DEFINE PollsFor(o) == \E d \in Devs : own[d] = o /\ pc[d] \in {"bound", "stopping"}
           PhyFor(o) == \E d \in Devs : own[d] = o /\ pc[d] \in {"run", "bound", "stopping"}
<1>2. ASSUME UNCHANGED <<own, pc, poller, phyCon>> PROVE ThreadInv'
  BY <1>1, <1>2 DEF ThreadInv
<1>3. ASSUME NEW d \in Devs, pc[d] \notin {"run", "bound", "stopping"},
             \A e \in Devs : e # d => own'[e] = own[e] /\ pc'[e] = pc[e],
             UNCHANGED <<poller, phyCon>>
      PROVE  ThreadInv'
  BY <1>1, <1>3 DEF ThreadInv
<1>4. ASSUME NEW d \in Devs, ProbeAlloc(d) \/ ProbeTable(d) \/ RemoveClose(d) \/ RemoveLast(d)
      PROVE  ThreadInv'
  <2>1. pc[d] \notin {"run", "bound", "stopping"} /\ UNCHANGED <<poller, phyCon>>
    BY <1>4 DEF ProbeAlloc, ProbeTable, RemoveClose, RemoveLast, LastUse
  <2>2. \A e \in Devs : e # d => own'[e] = own[e] /\ pc'[e] = pc[e]
    BY <1>1, <1>4 DEF TypeOK, ProbeAlloc, ProbeTable, ProbeFails, RemoveClose, RemoveLast,
       LastUse
  <2>3. QED
    BY <1>3, <2>1, <2>2
<1>5. ASSUME NEW d \in Devs, ProbePhy(d) PROVE ThreadInv'
  <2>1. \A e \in Devs : e # d => own'[e] = own[e] /\ pc'[e] = pc[e]
    BY <1>1, <1>5 DEF TypeOK, ProbePhy, ProbeFails
  <2>2. CASE ProbeFails(d) /\ UNCHANGED <<phyCon, users>>
    BY <1>3, <1>5, <2>1, <2>2 DEF ProbePhy
  <2>3. CASE ~(ProbeFails(d) /\ UNCHANGED <<phyCon, users>>)
    <3>1. /\ phyCon' = [phyCon EXCEPT ![own[d]] = TRUE] /\ own' = own
          /\ poller' = poller /\ pc[d] = "phy" /\ pc'[d] = "run"
      BY <1>1, <1>5, <2>3 DEF TypeOK, ProbePhy
    <3>2. \A o \in Instances : o # own[d] => phyCon'[o] = phyCon[o]
      BY <1>1, <3>1 DEF TypeOK
    <3>3. QED
      BY <1>1, <2>1, <3>1, <3>2 DEF ThreadInv
  <2>4. QED
    BY <2>2, <2>3
<1>6. ASSUME NEW d \in Devs, ProbeRun(d) PROVE ThreadInv'
  <2>1. \A e \in Devs : e # d => own'[e] = own[e] /\ pc'[e] = pc[e]
    BY <1>1, <1>6 DEF TypeOK, ProbeRun, ProbeDone, ProbeFails
  <2>2. own[d] \in Instances /\ pc[d] = "run"
    BY <1>1, <1>6, OwnInstance DEF ProbeRun
  <2>3. CASE ProbeDone(d)
    <3>1. own' = own /\ phyCon' = phyCon /\ pc'[d] = "bound"
      BY <1>1, <2>3 DEF TypeOK, ProbeDone
    <3>2. \A o \in Instances : o # own[d] => poller'[o] = poller[o]
      BY <1>1, <2>3 DEF TypeOK, ProbeDone
    <3>3. QED
      BY <1>1, <2>1, <2>2, <3>1, <3>2 DEF ThreadInv
  <2>4. CASE ~ProbeDone(d)
    <3>1. poller' = poller /\ phyCon' = [phyCon EXCEPT ![own[d]] = FALSE]
      BY <1>6, <2>4 DEF ProbeRun
    <3>2. ~phyCon'[own[d]] /\ \A o \in Instances : o # own[d] => phyCon'[o] = phyCon[o]
      BY <1>1, <2>2, <3>1 DEF TypeOK
    <3>3. ASSUME NEW o \in Instances, poller'[o] \in {"run", "poll"} PROVE PollsFor(o)'
      BY <1>1, <2>1, <2>2, <3>1, <3>3 DEF ThreadInv
    <3>4. ASSUME NEW o \in Instances, phyCon'[o] PROVE PhyFor(o)'
      BY <1>1, <2>1, <2>2, <3>2, <3>4 DEF ThreadInv
    <3>5. QED
      BY <3>3, <3>4 DEF ThreadInv
  <2>5. QED
    BY <2>3, <2>4
<1>7. ASSUME NEW d \in Devs, RemoveStart(d) PROVE ThreadInv'
  <2>1. \A e \in Devs : e # d => pc'[e] = pc[e]
    BY <1>1, <1>7 DEF TypeOK, RemoveStart
  <2>2. pc'[d] = "stopping" /\ UNCHANGED <<own, poller, phyCon>>
    BY <1>1, <1>7 DEF TypeOK, RemoveStart
  <2>3. QED
    BY <1>1, <2>1, <2>2 DEF ThreadInv
<1>8. ASSUME NEW d \in Devs, RemovePhy(d) PROVE ThreadInv'
  <2>1. \A e \in Devs : e # d => pc'[e] = pc[e]
    BY <1>1, <1>8 DEF TypeOK, RemovePhy
  <2>2. own[d] \in Instances /\ own' = own /\ poller' = poller /\ poller[own[d]] = "exit"
    BY <1>1, <1>8, OwnInstance DEF RemovePhy
  <2>3. ~phyCon'[own[d]] /\ \A o \in Instances : o # own[d] => phyCon'[o] = phyCon[o]
    BY <1>1, <1>8, <2>2 DEF TypeOK, RemovePhy
  <2>4. ASSUME NEW o \in Instances, poller'[o] \in {"run", "poll"} PROVE PollsFor(o)'
    BY <1>1, <2>1, <2>2, <2>4 DEF ThreadInv
  <2>5. ASSUME NEW o \in Instances, phyCon'[o] PROVE PhyFor(o)'
    BY <1>1, <2>1, <2>2, <2>3, <2>5 DEF ThreadInv
  <2>6. QED
    BY <2>4, <2>5 DEF ThreadInv
<1>9. ASSUME PollStep PROVE ThreadInv'
  <2>1. PICK p \in Instances : PollBegin(p) \/ PollEnd(p) \/ PollExit(p)
    BY <1>9 DEF PollStep
  <2>2. UNCHANGED <<own, pc, phyCon>>
    BY <2>1 DEF PollBegin, PollEnd, PollExit, Poller
  <2>3. \A o \in Instances : poller'[o] \in {"run", "poll"} => poller[o] \in {"run", "poll"}
    BY <1>1, <2>1 DEF TypeOK, PollBegin, PollEnd, PollExit, Poller
  <2>4. QED
    BY <1>1, <2>2, <2>3 DEF ThreadInv
<1>10. ASSUME NEW d \in Devs, ProbeNoBuffers(d) PROVE ThreadInv'
  BY <1>2, <1>10 DEF ProbeNoBuffers
<1>11. ASSUME UserStep PROVE ThreadInv'
  BY <1>2, <1>11 DEF UserStep, Find, Get, Put, CheckDev, UseDev
<1>12. CASE UNCHANGED vars
  BY <1>2, <1>12 DEF vars
<1>13. QED
  BY <1>4, <1>5, <1>6, <1>7, <1>8, <1>9, <1>10, <1>11, <1>12
     DEF Next, CoreStep, ProbeStep, RemoveStep

LEMMA RoomStep ==
  ASSUME CoreInv, [Next]_vars PROVE RoomInv'
<1> USE DEF table, inst, core, user
<1>1. TypeOK /\ RoomInv /\ sjaCount \in Nat /\ MaxChardevs \in Nat
  BY BoundsAssumption DEF CoreInv, TypeOK
<1> DEFINE n == Cardinality(Probing)
<1>2. IsFiniteSet(Probing) /\ n \in Nat
  BY ProbingFinite
<1>3. ASSUME sjaCount' = sjaCount, Probing' = Probing PROVE RoomInv'
  BY <1>1, <1>3 DEF RoomInv
<1>4. ASSUME NEW d \in Devs, pc[d] \in Early, Probing' = Probing \ {d},
             sjaCount' \in {sjaCount, sjaCount + 1}
      PROVE  RoomInv'
  <2>1. d \in Probing
    BY <1>4 DEF Probing, Early
  <2>2. Cardinality(Probing \ {d}) = n - 1
    BY <1>2, <2>1, FS_RemoveElement
  <2>3. QED
    BY <1>1, <1>2, <1>4, <2>2 DEF RoomInv
<1>5. ASSUME NEW d \in Devs, pc' = [pc EXCEPT ![d] = "unbound"] \/ pc' = [pc EXCEPT ![d] = "bound"]
      PROVE  Probing' = Probing \ {d}
  BY <1>1, <1>5 DEF TypeOK, Probing
<1>6. ASSUME NEW d \in Devs, pc[d] \notin Early,
             NEW s \in {"unbound", "bound", "stopping", "closing", "closed"},
             pc' = [pc EXCEPT ![d] = s]
      PROVE  Probing' = Probing
  BY <1>1, <1>6 DEF TypeOK, Probing, Early
<1>7. ASSUME NEW d \in Devs, ProbeAlloc(d) PROVE RoomInv'
  <2>1. Probing' = Probing \cup {d} /\ d \notin Probing /\ sjaCount' = sjaCount
    BY <1>1, <1>7 DEF TypeOK, ProbeAlloc, Probing
  <2>2. Cardinality(Probing \cup {d}) = n + 1
    BY <1>2, <2>1, FS_AddElement
  <2>3. sjaCount + n < MaxChardevs
    BY <1>7 DEF ProbeAlloc, RoomInTable
  <2>4. QED
    BY <1>1, <1>2, <2>1, <2>2, <2>3 DEF RoomInv
<1>8. ASSUME NEW d \in Devs, ProbeTable(d) \/ ProbePhy(d) PROVE RoomInv'
  <2>1. pc[d] \in Early /\ sjaCount' = sjaCount
    BY <1>8 DEF Early, ProbeTable, ProbePhy
  <2>2. CASE ProbeFails(d)
    BY <1>4, <1>5, <2>1, <2>2 DEF ProbeFails
  <2>3. CASE ~ProbeFails(d)
    <3>1. Probing' = Probing
      BY <1>1, <1>8, <2>1, <2>3 DEF TypeOK, Probing, Early, ProbeTable, ProbePhy
    <3>2. QED
      BY <1>3, <2>1, <3>1
  <2>4. QED
    BY <2>2, <2>3
<1>9. ASSUME NEW d \in Devs, ProbeRun(d) PROVE RoomInv'
  <2>1. pc[d] \in Early /\ sjaCount' \in {sjaCount, sjaCount + 1}
    BY <1>9 DEF Early, ProbeRun, ProbeDone
  <2>2. Probing' = Probing \ {d}
    BY <1>5, <1>9 DEF ProbeRun, ProbeDone, ProbeFails
  <2>3. QED
    BY <1>4, <2>1, <2>2
<1>10. ASSUME NEW d \in Devs, RemoveStart(d) \/ RemoveStep(d) PROVE RoomInv'
  <2>1. pc[d] \notin Early /\ sjaCount' = sjaCount
    BY <1>10 DEF Early, RemoveStart, RemoveStep, RemovePhy, RemoveClose, RemoveLast,
       LastUse
  <2>2. \E s \in {"unbound", "stopping", "closing", "closed"} : pc' = [pc EXCEPT ![d] = s]
    BY <1>10 DEF RemoveStart, RemoveStep, RemovePhy, RemoveClose, RemoveLast, LastUse
  <2>3. QED
    BY <1>3, <1>6, <2>1, <2>2
<1>11. ASSUME UNCHANGED <<sjaCount, pc>> PROVE RoomInv'
  BY <1>3, <1>11 DEF Probing
<1>12. ASSUME NEW d \in Devs, ProbeNoBuffers(d) PROVE RoomInv'
  BY <1>11, <1>12 DEF ProbeNoBuffers
<1>13. ASSUME PollStep \/ UserStep PROVE RoomInv'
  BY <1>11, <1>13 DEF PollStep, PollBegin, PollEnd, PollExit, Poller, UserStep, Find,
     Get, Put, CheckDev, UseDev
<1>14. CASE UNCHANGED vars
  BY <1>11, <1>14 DEF vars
<1>15. QED
  BY <1>7, <1>8, <1>9, <1>10, <1>12, <1>13, <1>14 DEF Next, CoreStep, ProbeStep

LEMMA PhyStep ==
  ASSUME CoreInv, [Next]_vars PROVE PhyBalanced'
<1> USE DEF table, inst, core, user
<1>1. TypeOK /\ PhyBalanced
  BY DEF CoreInv
<1>2. ASSUME NEW d \in Devs, NEW s \in {"unbound", "closing"},
             pc' = [pc EXCEPT ![d] = s], phyRefs' = [phyRefs EXCEPT ![d] = 0]
      PROVE  PhyBalanced'
  <2>1. \A e \in Devs : e # d => pc'[e] = pc[e] /\ phyRefs'[e] = phyRefs[e]
    BY <1>1, <1>2 DEF TypeOK
  <2>2. pc'[d] = s /\ phyRefs'[d] = 0
    BY <1>1, <1>2 DEF TypeOK
  <2>3. QED
    BY <1>1, <1>2, <2>1, <2>2 DEF PhyBalanced
<1>3. ASSUME NEW d \in Devs, NEW s, pc' = [pc EXCEPT ![d] = s], phyRefs' = phyRefs,
             pc[d] \in {"unbound", "closing", "closed"} <=> s \in {"unbound", "closing", "closed"}
      PROVE  PhyBalanced'
  <2>1. \A e \in Devs : e # d => pc'[e] = pc[e]
    BY <1>1, <1>3 DEF TypeOK
  <2>2. pc'[d] = s
    BY <1>1, <1>3 DEF TypeOK
  <2>3. QED
    BY <1>1, <1>3, <2>1, <2>2 DEF PhyBalanced
<1>4. ASSUME NEW d \in Devs, ProbeAlloc(d) PROVE PhyBalanced'
  <2>1. phyRefs[d] = 0
    BY <1>1, <1>4 DEF PhyBalanced, ProbeAlloc
  <2>2. phyRefs' = [phyRefs EXCEPT ![d] = 1] /\ pc' = [pc EXCEPT ![d] = "alloc"]
    BY <1>4, <2>1 DEF ProbeAlloc, EarlySetup
  <2>3. \A e \in Devs : e # d => pc'[e] = pc[e] /\ phyRefs'[e] = phyRefs[e]
    BY <1>1, <2>2 DEF TypeOK
  <2>4. pc'[d] = "alloc" /\ phyRefs'[d] = 1
    BY <1>1, <2>2 DEF TypeOK
  <2>5. QED
    BY <1>1, <2>3, <2>4 DEF PhyBalanced
<1>5. ASSUME NEW d \in Devs, pc[d] \in Early, ProbeFails(d) PROVE PhyBalanced'
  <2>1. phyRefs[d] = 1
    BY <1>1, <1>5 DEF PhyBalanced, Early
  <2>2. phyRefs' = [phyRefs EXCEPT ![d] = 0] /\ pc' = [pc EXCEPT ![d] = "unbound"]
    BY <1>5, <2>1 DEF ProbeFails, PutPhy
  <2>3. QED
    BY <1>2, <2>2
<1>6. ASSUME NEW d \in Devs, ProbeStep(d) PROVE PhyBalanced'
  <2>1. pc[d] \in Early
    BY <1>6 DEF Early, ProbeStep, ProbeTable, ProbePhy, ProbeRun
  <2>2. CASE ProbeFails(d)
    BY <1>5, <2>1, <2>2
  <2>3. CASE ~ProbeFails(d)
    <3>1. PICK s \in {"phy", "run", "bound"} : pc' = [pc EXCEPT ![d] = s]
      BY <1>6, <2>3 DEF ProbeStep, ProbeTable, ProbePhy, ProbeRun, ProbeDone
    <3>2. phyRefs' = phyRefs
      BY <1>6, <2>3 DEF ProbeStep, ProbeTable, ProbePhy, ProbeRun, ProbeDone
    <3>3. QED
      BY <1>3, <2>1, <3>1, <3>2 DEF Early
  <2>4. QED
    BY <2>2, <2>3
<1>7. ASSUME NEW d \in Devs, RemovePhy(d) PROVE PhyBalanced'
  <2>1. phyRefs[d] = 1
    BY <1>1, <1>7 DEF PhyBalanced, RemovePhy
  <2>2. phyRefs' = [phyRefs EXCEPT ![d] = 0] /\ pc' = [pc EXCEPT ![d] = "closing"]
    BY <1>7, <2>1 DEF RemovePhy, PutPhy
  <2>3. QED
    BY <1>2, <2>2
<1>8. ASSUME NEW d \in Devs, RemoveStart(d) \/ RemoveClose(d) \/ RemoveLast(d)
      PROVE  PhyBalanced'
  BY <1>3, <1>8 DEF RemoveStart, RemoveClose, RemoveLast, LastUse
<1>9. ASSUME UNCHANGED <<pc, phyRefs>> PROVE PhyBalanced'
  BY <1>1, <1>9 DEF PhyBalanced
<1>10. ASSUME NEW d \in Devs, ProbeNoBuffers(d) PROVE PhyBalanced'
  BY <1>9, <1>10 DEF ProbeNoBuffers
<1>11. ASSUME PollStep \/ UserStep PROVE PhyBalanced'
  BY <1>9, <1>11 DEF PollStep, PollBegin, PollEnd, PollExit, Poller, UserStep, Find,
     Get, Put, CheckDev, UseDev
<1>12. CASE UNCHANGED vars
  BY <1>9, <1>12 DEF vars
<1>13. QED
  BY <1>4, <1>6, <1>7, <1>8, <1>10, <1>11, <1>12 DEF Next, CoreStep, RemoveStep

LEMMA CoreStepInv == CoreInv /\ [Next]_vars => CoreInv'
  BY TypeStep, OwnStep, FreshStep, FoundFreshStep, ThreadStep, RoomStep, PhyStep DEF CoreInv

LEMMA InitCore == Init => CoreInv
<1> SUFFICES ASSUME Init PROVE CoreInv
  OBVIOUS
<1>1. Probing = {}
  BY DEF Init, Probing
<1>2. RoomInv
  BY <1>1, FS_EmptySet, Constants DEF Init, RoomInv
<1>3. OwnInv /\ FreshInv /\ FoundFresh
  BY Constants DEF Init, OwnInv, FreshInv, FoundFresh, NotFound, Null
<1>4. ThreadInv /\ PhyBalanced
  BY DEF Init, ThreadInv, PhyBalanced
<1>5. QED
  BY <1>2, <1>3, <1>4, InitType DEF CoreInv

-----------------------------------------------------------------------------
(* What holds while minor_lock protects its holder: the device's steps     *)

\* What a function is after an EXCEPT at a place in its domain.
LEMMA Except ==
  ASSUME NEW S, NEW T, NEW f \in [S -> T], NEW x \in S, NEW v
  PROVE  /\ [f EXCEPT ![x] = v][x] = v
         /\ \A y \in S : y # x => [f EXCEPT ![x] = v][y] = f[y]
  OBVIOUS

\* Nobody holds minor_lock in probe while it is free.
LEMMA FreeLock ==
  ASSUME LockInv, minorLock = Free, NEW d \in Devs
  PROVE  pc[d] \notin {"phy", "run"}
  BY ValuesAssumption DEF LockInv

\* A slot's entry, while no probe holds minor_lock: a bound instance or that
\* of a failed probe.
LEMMA SlotEntry ==
  ASSUME CoreInv, SafeInv, minorLock = Free, NEW m \in Minors, sjaByMinor[m] # Null
  PROVE  \/ \E d \in Devs : own[d] = sjaByMinor[m] /\ pc[d] \in Served /\ devnum[own[d]] = m
                            /\ m < sjaCount /\ mem[sjaByMinor[m]] = "live"
         \/ mem[sjaByMinor[m]] = "failed"
<1>1. CASE mem[sjaByMinor[m]] = "failed"
  BY <1>1
<1>2. CASE mem[sjaByMinor[m]] # "failed"
  <2>1. PICK d \in Devs : own[d] = sjaByMinor[m] /\ pc[d] # "alloc" /\ devnum[own[d]] = m
    BY <1>2 DEF SafeInv, TableInv
  <2>2. pc[d] \notin {"phy", "run"}
    BY FreeLock DEF SafeInv
  <2>3. pc[d] \in Served
    <3>1. own[d] # Null /\ pc[d] # "unbound"
      BY <2>1 DEF CoreInv, OwnInv
    <3>2. QED
      BY <2>1, <2>2, <3>1 DEF CoreInv, TypeOK, Served
  <2>4. QED
    BY <2>1, <2>3 DEF SafeInv, MinorInv, MemInv
<1>3. QED
  BY <1>1, <1>2

\* A step that finds nothing keeps what was found: the next slot is the only one
\* it fills, and the pointer of a failed probe stays that of a failed probe.
LEMMA FoundKept ==
  ASSUME CoreInv, FoundInv, found' = found, sjaCount' \in Nat, sjaCount <= sjaCount',
         \A m \in Minors : m < sjaCount => sjaByMinor'[m] \in {sjaByMinor[m], Null},
         \A o \in Instances : o <= allocs =>
           /\ mem[o] = "failed" => mem'[o] = "failed"
           /\ dev'[o] \in {dev[o], NoDev}
  PROVE  FoundInv'
<1> SUFFICES ASSUME NEW u \in Users, found[u] # NotFound, found[u].of \in Instances,
                    mem'[found[u].of] # "failed"
             PROVE  /\ found[u].minor < sjaCount'
                    /\ sjaByMinor'[found[u].minor] \in {found[u].of, Null}
                    /\ dev'[found[u].of] \in {found[u].dev, NoDev}
  BY DEF FoundInv
<1>1. /\ found[u].minor \in Minors /\ found[u].minor \in Nat /\ sjaCount \in Nat
      /\ found[u].of <= allocs
  BY DEF CoreInv, TypeOK, FoundFresh, Minors
<1>2. mem[found[u].of] # "failed"
  BY <1>1
<1>3. /\ found[u].minor < sjaCount
      /\ sjaByMinor[found[u].minor] \in {found[u].of, Null}
      /\ dev[found[u].of] \in {found[u].dev, NoDev}
  BY <1>2 DEF FoundInv
<1>4. QED
  BY <1>1, <1>3

LEMMA SafeAlloc ==
  ASSUME CoreInv, SafeInv, NEW d \in Devs, ProbeAlloc(d) PROVE SafeInv'
<1> USE DEF table, inst, core, user
<1>1. TypeOK /\ OwnInv /\ FreshInv
  BY DEF CoreInv
<1>2. LockInv /\ MinorInv /\ TableInv /\ RefInv /\ MemInv /\ CountInv /\ HeldInv /\ FoundInv
  BY DEF SafeInv
<1> DEFINE n == allocs + 1
<1>3. /\ n \in Instances /\ \A e \in Devs : own[e] # n
      /\ \A u \in Users : ref[u] # n
      /\ \A m \in Minors : sjaByMinor[m] # n
  BY <1>1, Constants DEF TypeOK, FreshInv, ProbeAlloc
<1>4. /\ own[d] = Null /\ pc[d] = "unbound" /\ own'[d] = n /\ pc'[d] = "alloc"
      /\ \A e \in Devs : e # d => own'[e] = own[e] /\ pc'[e] = pc[e]
  BY <1>1 DEF TypeOK, OwnInv, ProbeAlloc
<1>5. /\ mem'[n] = "live" /\ dev'[n] = d
      /\ \A o \in Instances : o # n => mem'[o] = mem[o] /\ dev'[o] = dev[o]
  BY <1>1, <1>3 DEF TypeOK, ProbeAlloc
<1>6. UNCHANGED <<sjaByMinor, sjaCount, minorLock, devnum, users, upc, ref, found>>
  BY DEF ProbeAlloc
<1>7. \A e \in Devs : own[e] \in Instances \cup {Null}
  BY <1>1 DEF TypeOK
<1>8. LockInv' /\ MinorInv'
  BY <1>2, <1>4, <1>6 DEF LockInv, MinorInv, Served
<1>9. TableInv'
  BY <1>1, <1>2, <1>3, <1>4, <1>5, <1>6 DEF TypeOK, TableInv
<1>10. RefInv'
  BY <1>1, <1>2, <1>3, <1>4, <1>5, <1>6 DEF TypeOK, RefInv
<1>11. MemInv'
  BY <1>2, <1>3, <1>4, <1>5, <1>7, Constants DEF MemInv
<1>12. \A o \in Instances : Refs(o)' = Refs(o) /\ (o # n => (Owned(o)' <=> Owned(o)))
  BY <1>3, <1>4, <1>6, Constants DEF Refs, Owned
<1>13. CountInv'
  BY <1>2, <1>3, <1>4, <1>5, <1>6, <1>12, Constants DEF CountInv
<1>14. HeldInv'
  BY <1>2, <1>3, <1>4, <1>5, <1>6, Constants DEF HeldInv, Held
<1>15. FoundInv'
  <2>1. sjaCount \in Nat /\ \A o \in Instances : o <= allocs => o # n
    BY <1>1, Constants DEF TypeOK
  <2>2. QED
    BY <1>2, <1>5, <1>6, <2>1, FoundKept
<1>16. QED
  BY <1>8, <1>9, <1>10, <1>11, <1>13, <1>14, <1>15 DEF SafeInv

\* The end of a failing probe whose instance is in the next slot.
LEMMA SafeFails ==
  ASSUME CoreInv, SafeInv, NEW d \in Devs, pc[d] \in Early, ProbeFails(d),
         \A e \in Devs : e # d => pc[e] \notin {"phy", "run"},
         pc[d] = "alloc" \/ devnum[own[d]] = sjaCount,
         \A o \in Instances : o # own[d] => devnum'[o] = devnum[o],
         sjaByMinor'[sjaCount] = own[d],
         \A m \in Minors : m # sjaCount => sjaByMinor'[m] = sjaByMinor[m],
         UNCHANGED <<sjaCount, dev, users, upc, ref, found>>
  PROVE  SafeInv'
<1>1. TypeOK /\ OwnInv
  BY DEF CoreInv
<1>2. LockInv /\ MinorInv /\ TableInv /\ RefInv /\ MemInv /\ CountInv /\ HeldInv /\ FoundInv
  BY DEF SafeInv
<1>3. own[d] \in Instances /\ own[d] # Null
  BY <1>1, OwnInstance DEF Early
<1>4. /\ own'[d] = Null /\ pc'[d] = "unbound"
      /\ \A e \in Devs : e # d => own'[e] = own[e] /\ pc'[e] = pc[e]
  BY <1>1 DEF TypeOK, ProbeFails
<1>5. mem'[own[d]] = "failed" /\ \A o \in Instances : o # own[d] => mem'[o] = mem[o]
  BY <1>1, <1>3 DEF TypeOK, ProbeFails
<1>6. \A u \in Users : ref[u] # own[d]
  BY <1>2, <1>3 DEF RefInv, Early, Served
<1>7. \A e \in Devs : e # d => own[e] # own[d]
  BY <1>1, <1>3 DEF OwnInv
<1>8. \A e \in Devs : own[e] \in Instances \cup {Null}
  BY <1>1 DEF TypeOK
<1>9. LockInv'
  BY <1>4 DEF LockInv
<1>10. MinorInv'
  <2>1. \A e \in Devs : pc[e] \in Served => own[e] # Null
    BY <1>1 DEF OwnInv, Served
  <2>2. QED
    BY <1>2, <1>4, <1>7, <1>8, <2>1 DEF MinorInv, Served
<1>11. TableInv'
  <2> SUFFICES ASSUME NEW m \in Minors, sjaByMinor'[m] # Null
               PROVE  \/ \E e \in Devs : own'[e] = sjaByMinor'[m] /\ pc'[e] # "alloc"
                                         /\ devnum'[own'[e]] = m
                      \/ mem'[sjaByMinor'[m]] = "failed" /\ m = sjaCount'
    BY DEF TableInv
  <2>1. CASE m = sjaCount
    BY <1>5, <2>1
  <2>2. CASE m # sjaCount
    <3>1. sjaByMinor'[m] = sjaByMinor[m]
      BY <2>2
    <3>2. PICK e \in Devs : own[e] = sjaByMinor[m] /\ pc[e] # "alloc" /\ devnum[own[e]] = m
      BY <1>2, <2>2, <3>1 DEF TableInv
    <3>3. e # d
      BY <2>2, <3>2
    <3>4. own[e] \in Instances
      BY <1>8, <3>1, <3>2
    <3>5. QED
      BY <1>4, <1>7, <3>1, <3>2, <3>3, <3>4
  <2>3. QED
    BY <2>1, <2>2
<1>12. RefInv'
  <2>1. \A u \in Users : ref[u] \in Instances \cup {Null}
    BY <1>1 DEF TypeOK
  <2>2. QED
    BY <1>2, <1>4, <1>5, <1>6, <2>1 DEF RefInv
<1>13. MemInv'
  <2>1. dev[own[d]] # NoDev
    BY <1>1, <1>3, Constants DEF OwnInv, Early
  <2>2. \A e \in Devs : own'[e] # Null => mem'[own'[e]] = "live"
    BY <1>2, <1>4, <1>5, <1>7, <1>8 DEF MemInv
  <2>3. \A o \in Instances : mem'[o] = "failed" => dev'[o] # NoDev
    BY <1>2, <1>5, <2>1 DEF MemInv
  <2>4. \A o \in Instances : mem'[o] = "live" /\ (\A e \in Devs : own'[e] # o) => dev'[o] = NoDev
    BY <1>2, <1>4, <1>5 DEF MemInv
  <2>5. QED
    BY <2>2, <2>3, <2>4 DEF MemInv
<1>14. \A o \in Instances : Refs(o)' = Refs(o) /\ (o # own[d] => (Owned(o)' <=> Owned(o)))
  BY <1>3, <1>4, Constants DEF Refs, Owned
<1>15. CountInv'
  BY <1>2, <1>3, <1>4, <1>5, <1>14, Constants DEF CountInv
<1>16. HeldInv'
  BY <1>2, <1>3, <1>4, <1>5, <1>6, Constants DEF HeldInv, Held
<1>17. FoundInv'
  <2>1. sjaCount \in Nat /\ \A m \in Minors : m < sjaCount => m # sjaCount
    BY <1>1 DEF TypeOK, Minors
  <2>2. QED
    BY <1>2, <1>5, <2>1, FoundKept
<1>18. QED
  BY <1>9, <1>10, <1>11, <1>12, <1>13, <1>15, <1>16, <1>17 DEF SafeInv

LEMMA SafeTable ==
  ASSUME CoreInv, SafeInv, NEW d \in Devs, ProbeTable(d) PROVE SafeInv'
<1> USE DEF table, inst, core, user
<1>1. TypeOK /\ OwnInv
  BY DEF CoreInv
<1>2. LockInv /\ MinorInv /\ TableInv /\ RefInv /\ MemInv /\ CountInv /\ HeldInv /\ FoundInv
  BY DEF SafeInv
<1>3. pc[d] = "alloc" /\ minorLock = Free
  BY DEF ProbeTable
<1>4. own[d] \in Instances /\ own[d] # Null /\ sjaCount \in Minors
  BY <1>1, <1>3, OwnInstance, NextSlot DEF CoreInv, Early
<1>5. \A e \in Devs : pc[e] \notin {"phy", "run"}
  BY <1>2, <1>3, FreeLock
<1>6. /\ devnum'[own[d]] = sjaCount
      /\ \A o \in Instances : o # own[d] => devnum'[o] = devnum[o]
      /\ sjaByMinor'[sjaCount] = own[d]
      /\ \A m \in Minors : m # sjaCount => sjaByMinor'[m] = sjaByMinor[m]
  BY <1>1, <1>4 DEF TypeOK, ProbeTable
<1>7. UNCHANGED <<sjaCount, dev, users, upc, ref, found>>
  BY DEF ProbeTable
<1>8. CASE ProbeFails(d)
  BY <1>3, <1>5, <1>6, <1>7, <1>8, SafeFails DEF Early
<1>9. CASE ~ProbeFails(d)
  <2>1. minorLock' = d /\ pc' = [pc EXCEPT ![d] = "phy"] /\ UNCHANGED <<mem, own>>
    BY <1>9 DEF ProbeTable
  <2>2. pc'[d] = "phy" /\ \A e \in Devs : e # d => pc'[e] = pc[e]
    BY <1>1, <2>1 DEF TypeOK
  <2>3. \A e \in Devs : e # d => own[e] # own[d]
    BY <1>1, <1>4 DEF OwnInv
  <2>4. \A e \in Devs : own[e] \in Instances \cup {Null}
    BY <1>1 DEF TypeOK
  <2>5. LockInv'
    BY <1>5, <1>6, <1>7, <2>1, <2>2 DEF LockInv
  <2>6. MinorInv'
    <3>1. \A e \in Devs : pc[e] \in Served => own[e] # Null
      BY <1>1 DEF OwnInv, Served
    <3>2. QED
      BY <1>2, <1>6, <1>7, <2>1, <2>2, <2>3, <2>4, <3>1 DEF MinorInv, Served
  <2>7. TableInv'
    <3> SUFFICES ASSUME NEW m \in Minors, sjaByMinor'[m] # Null
                 PROVE  \/ \E e \in Devs : own'[e] = sjaByMinor'[m] /\ pc'[e] # "alloc"
                                           /\ devnum'[own'[e]] = m
                        \/ mem'[sjaByMinor'[m]] = "failed" /\ m = sjaCount'
      BY DEF TableInv
    <3>1. CASE m = sjaCount
      BY <1>6, <2>1, <2>2, <3>1
    <3>2. CASE m # sjaCount
      <4>1. sjaByMinor'[m] = sjaByMinor[m]
        BY <1>6, <3>2
      <4>2. PICK e \in Devs : own[e] = sjaByMinor[m] /\ pc[e] # "alloc" /\ devnum[own[e]] = m
        BY <1>2, <3>2, <4>1 DEF TableInv
      <4>3. e # d /\ own[e] \in Instances
        BY <1>3, <2>4, <4>1, <4>2
      <4>4. QED
        BY <1>6, <2>1, <2>2, <2>3, <4>1, <4>2, <4>3
    <3>3. QED
      BY <3>1, <3>2
  <2>8. RefInv'
    BY <1>2, <1>3, <1>7, <2>1, <2>2 DEF RefInv, Served
  <2>9. MemInv' /\ HeldInv'
    BY <1>2, <1>7, <2>1 DEF MemInv, HeldInv, Held
  <2>10. \A o \in Instances : Refs(o)' = Refs(o) /\ (Owned(o)' <=> Owned(o))
    BY <1>7, <2>1 DEF Refs, Owned
  <2>11. CountInv'
    BY <1>2, <1>3, <1>7, <2>1, <2>2, <2>10 DEF CountInv
  <2>12. FoundInv'
    <3>1. sjaCount \in Nat /\ \A m \in Minors : m < sjaCount => m # sjaCount
      BY <1>1 DEF TypeOK, Minors
    <3>2. QED
      BY <1>2, <1>6, <1>7, <2>1, <3>1, FoundKept
  <2>13. QED
    BY <2>5, <2>6, <2>7, <2>8, <2>9, <2>11, <2>12 DEF SafeInv
<1>10. QED
  BY <1>8, <1>9

LEMMA SafePhy ==
  ASSUME CoreInv, SafeInv, NEW d \in Devs, ProbePhy(d) PROVE SafeInv'
<1> USE DEF table, inst, core, user
<1>1. TypeOK /\ OwnInv
  BY DEF CoreInv
<1>2. LockInv /\ MinorInv /\ TableInv /\ RefInv /\ MemInv /\ CountInv /\ HeldInv /\ FoundInv
  BY DEF SafeInv
<1>3. /\ pc[d] = "phy" /\ minorLock = d
      /\ devnum[own[d]] = sjaCount /\ sjaByMinor[sjaCount] = own[d]
  BY <1>2 DEF ProbePhy, LockInv
<1>4. own[d] \in Instances /\ own[d] # Null
  BY <1>1, <1>3, OwnInstance
<1>5. \A e \in Devs : e # d => pc[e] \notin {"phy", "run"}
  BY <1>2, <1>3 DEF LockInv
<1>6. UNCHANGED <<sjaByMinor, sjaCount, dev, devnum, upc, ref, found>>
  BY DEF ProbePhy
<1>7. CASE ProbeFails(d) /\ UNCHANGED <<phyCon, users>>
  BY <1>3, <1>5, <1>6, <1>7, SafeFails DEF Early
<1>8. CASE ~(ProbeFails(d) /\ UNCHANGED <<phyCon, users>>)
  <2>1. /\ users' = [users EXCEPT ![own[d]] = 1] /\ pc' = [pc EXCEPT ![d] = "run"]
        /\ UNCHANGED <<mem, own, minorLock>>
    BY <1>8 DEF ProbePhy
  <2>2. pc'[d] = "run" /\ \A e \in Devs : e # d => pc'[e] = pc[e]
    BY <1>1, <2>1 DEF TypeOK
  <2>3. users'[own[d]] = 1 /\ \A o \in Instances : o # own[d] => users'[o] = users[o]
    BY <1>1, <1>4, <2>1 DEF TypeOK
  <2>4. LockInv' /\ MinorInv' /\ TableInv'
    BY <1>2, <1>3, <1>6, <2>1, <2>2 DEF LockInv, MinorInv, TableInv, Served
  <2>5. RefInv'
    BY <1>2, <1>3, <1>6, <2>1, <2>2 DEF RefInv, Served
  <2>6. MemInv' /\ HeldInv' /\ FoundInv'
    BY <1>2, <1>6, <2>1 DEF MemInv, HeldInv, Held, FoundInv
  <2>7. \A o \in Instances : Refs(o)' = Refs(o) /\ (Owned(o)' <=> Owned(o))
    BY <1>6, <2>1 DEF Refs, Owned
  <2>8. Refs(own[d]) = {} /\ Owned(own[d])
    BY <1>2, <1>3, <1>4 DEF RefInv, Refs, Owned, Served
  <2>9. users'[own[d]] = Cardinality(Refs(own[d])) + (IF Owned(own[d]) THEN 1 ELSE 0)
    BY <2>3, <2>8, FS_EmptySet
  <2>10. CountInv'
    <3> SUFFICES ASSUME NEW o \in Instances, mem[o] = "live",
                        \A e \in Devs : own[e] = o => pc'[e] \notin {"alloc", "phy"}
                 PROVE  users'[o] = Cardinality(Refs(o)) + (IF Owned(o) THEN 1 ELSE 0)
      BY <2>1, <2>7 DEF CountInv
    <3>1. CASE o = own[d]
      BY <2>9, <3>1
    <3>2. CASE o # own[d]
      <4>1. \A e \in Devs : own[e] = o => pc[e] \notin {"alloc", "phy"}
        BY <2>2, <3>2
      <4>2. QED
        BY <1>2, <2>3, <3>2, <4>1 DEF CountInv
    <3>3. QED
      BY <3>1, <3>2
  <2>11. QED
    BY <2>4, <2>5, <2>6, <2>10 DEF SafeInv
<1>9. QED
  BY <1>7, <1>8

LEMMA SafeRun ==
  ASSUME CoreInv, SafeInv, NEW d \in Devs, ProbeRun(d) PROVE SafeInv'
<1> USE DEF table, inst, core, user
<1>1. TypeOK /\ OwnInv
  BY DEF CoreInv
<1>2. LockInv /\ MinorInv /\ TableInv /\ RefInv /\ MemInv /\ CountInv /\ HeldInv /\ FoundInv
  BY DEF SafeInv
<1>3. /\ pc[d] = "run" /\ minorLock = d
      /\ devnum[own[d]] = sjaCount /\ sjaByMinor[sjaCount] = own[d]
  BY <1>2 DEF ProbeRun, LockInv
<1>4. own[d] \in Instances /\ own[d] # Null
  BY <1>1, <1>3, OwnInstance
<1>5. \A e \in Devs : e # d => pc[e] \notin {"phy", "run"}
  BY <1>2, <1>3 DEF LockInv
<1>6. UNCHANGED <<sjaByMinor, dev, devnum, users, upc, ref, found>>
  BY DEF ProbeRun
<1>7. CASE ProbeFails(d) /\ UNCHANGED <<poller, sjaCount>>
  BY <1>3, <1>5, <1>6, <1>7, SafeFails DEF Early
<1>8. CASE ProbeDone(d)
  <2>1. /\ sjaCount' = sjaCount + 1 /\ pc' = [pc EXCEPT ![d] = "bound"]
        /\ UNCHANGED <<mem, own>>
    BY <1>8 DEF ProbeDone
  <2>2. pc'[d] = "bound" /\ \A e \in Devs : e # d => pc'[e] = pc[e]
    BY <1>1, <2>1 DEF TypeOK
  <2>3. sjaCount \in Nat /\ Minors \subseteq Nat
    BY <1>1 DEF TypeOK, Minors
  <2>4. mem[own[d]] = "live"
    BY <1>2, <1>4 DEF MemInv
  <2>5. LockInv'
    BY <1>5, <2>2 DEF LockInv
  <2>6. MinorInv'
    <3> SUFFICES ASSUME NEW e \in Devs, pc'[e] \in Served PROVE devnum[own[e]] < sjaCount + 1
      BY <1>6, <2>1 DEF MinorInv
    <3>1. own[e] \in Instances
      BY <1>1, <1>4, <2>2, OwnInstance DEF Served
    <3>2. devnum[own[e]] \in Nat
      BY <1>1, <2>3, <3>1 DEF TypeOK
    <3>3. devnum[own[e]] < sjaCount \/ devnum[own[e]] = sjaCount
      BY <1>2, <1>3, <2>2 DEF MinorInv
    <3>4. QED
      BY <2>3, <3>2, <3>3
  <2>7. TableInv'
    BY <1>2, <1>3, <1>6, <2>1, <2>2, <2>4 DEF TableInv
  <2>8. RefInv'
    BY <1>2, <1>6, <2>1, <2>2 DEF RefInv, Served
  <2>9. MemInv' /\ HeldInv'
    BY <1>2, <1>6, <2>1 DEF MemInv, HeldInv, Held
  <2>10. \A o \in Instances : Refs(o)' = Refs(o) /\ (Owned(o)' <=> Owned(o))
    BY <1>6, <2>1 DEF Refs, Owned
  <2>11. \A o \in Instances, e \in Devs :
           own[e] = o /\ pc'[e] \notin {"alloc", "phy"} => pc[e] \notin {"alloc", "phy"}
    BY <1>3, <2>2
  <2>12. CountInv'
    BY <1>2, <1>6, <2>1, <2>10, <2>11 DEF CountInv
  <2>13. FoundInv'
    <3>1. sjaCount' \in Nat /\ sjaCount <= sjaCount'
      BY <2>1, <2>3
    <3>2. QED
      BY <1>2, <1>6, <2>1, <3>1, FoundKept
  <2>14. QED
    BY <2>5, <2>6, <2>7, <2>8, <2>9, <2>12, <2>13 DEF SafeInv
<1>9. QED
  BY <1>7, <1>8 DEF ProbeRun

\* Remove's steps up to the last: the device stays Served.
LEMMA SafeRemove ==
  ASSUME CoreInv, SafeInv, NEW d \in Devs, RemoveStart(d) \/ RemovePhy(d) \/ RemoveClose(d)
  PROVE  SafeInv'
<1> USE DEF table, inst, core, user
<1>1. TypeOK /\ OwnInv
  BY DEF CoreInv
<1>2. LockInv /\ MinorInv /\ TableInv /\ RefInv /\ MemInv /\ CountInv /\ HeldInv /\ FoundInv
  BY DEF SafeInv
<1>3. pc[d] \in Served
  BY DEF RemoveStart, RemovePhy, RemoveClose, Served
<1>4. own[d] \in Instances /\ own[d] # Null
  BY <1>1, <1>3, OwnInstance DEF Served
<1>5. pc'[d] \in Served /\ \A e \in Devs : e # d => pc'[e] = pc[e]
  BY <1>1 DEF TypeOK, RemoveStart, RemovePhy, RemoveClose, Served
<1>6. UNCHANGED <<sjaByMinor, sjaCount, minorLock, mem, devnum, users, own, upc, ref, found>>
  BY DEF RemoveStart, RemovePhy, RemoveClose
<1>7. \A o \in Instances : dev'[o] = dev[o] \/ (o = own[d] /\ dev'[o] = NoDev)
  BY <1>1 DEF TypeOK, RemoveStart, RemovePhy, RemoveClose
<1>8. mem[own[d]] = "live"
  BY <1>2, <1>4 DEF MemInv
<1>9. LockInv' /\ MinorInv' /\ TableInv' /\ RefInv'
  BY <1>2, <1>3, <1>5, <1>6 DEF LockInv, MinorInv, TableInv, RefInv, Served
<1>10. HeldInv'
  BY <1>2, <1>6 DEF HeldInv, Held
<1>11. MemInv'
  BY <1>2, <1>6, <1>7, <1>8 DEF MemInv
<1>12. CountInv'
  <2>1. \A o \in Instances : Refs(o)' = Refs(o) /\ (Owned(o)' <=> Owned(o))
    BY <1>6 DEF Refs, Owned
  <2>2. QED
    BY <1>2, <1>3, <1>5, <1>6, <2>1 DEF CountInv, Served
<1>13. FoundInv'
  <2>1. sjaCount \in Nat
    BY <1>1 DEF TypeOK
  <2>2. QED
    BY <1>2, <1>6, <1>7, <2>1, FoundKept
<1>14. QED
  BY <1>9, <1>10, <1>11, <1>12, <1>13 DEF SafeInv

\* The end of remove and the last put free an instance exactly if the other
\* has let go before.
LEMMA SafeLast ==
  ASSUME CoreInv, SafeInv, NEW d \in Devs, RemoveLast(d) PROVE SafeInv'
<1> USE DEF table, inst, core, user
<1>1. TypeOK /\ OwnInv
  BY DEF CoreInv
<1>2. LockInv /\ MinorInv /\ TableInv /\ RefInv /\ MemInv /\ CountInv /\ HeldInv /\ FoundInv
  BY DEF SafeInv
<1> DEFINE o == own[d]
           m == devnum[o]
<1>3. pc[d] = "closed" /\ minorLock = Free
  BY DEF RemoveLast, LastUse
<1>4. o \in Instances /\ o # Null /\ mem[o] = "live" /\ dev[o] = NoDev
  BY <1>1, <1>2, <1>3, OwnInstance DEF OwnInv, MemInv
<1>5. \A e \in Devs : e # d => own[e] # o
  BY <1>1, <1>4 DEF OwnInv
<1>6. \A e \in Devs : own[e] \in Instances \cup {Null}
  BY <1>1 DEF TypeOK
<1>7. Cardinality(Refs(o)) \in Nat /\ (Cardinality(Refs(o)) = 0 <=> Refs(o) = {})
  <2>1. IsFiniteSet(Refs(o))
    BY UsersAssumption, FS_Subset DEF Refs
  <2>2. QED
    BY <2>1, FS_CardinalityType, FS_EmptySet
<1>8. users[o] = Cardinality(Refs(o)) + 1
  <2>1. Owned(o) /\ \A e \in Devs : own[e] = o => pc[e] \notin {"alloc", "phy"}
    BY <1>3, <1>5 DEF Owned
  <2>2. QED
    BY <1>2, <1>4, <2>1 DEF CountInv
<1>9. /\ own'[d] = Null /\ pc'[d] = "unbound"
      /\ \A e \in Devs : e # d => own'[e] = own[e] /\ pc'[e] = pc[e]
  BY <1>1 DEF TypeOK, RemoveLast, LastUse
<1>10. users'[o] = users[o] - 1 /\ \A p \in Instances : p # o => users'[p] = users[p]
  <2>1. users' = [users EXCEPT ![o] = users[o] - 1]
    BY DEF RemoveLast, LastUse
  <2>2. users[o] - 1 \in Int
    BY <1>1, <1>4 DEF TypeOK
  <2>3. QED
    BY <1>1, <1>4, <2>1 DEF TypeOK
<1>11. /\ mem'[o] = IF Refs(o) = {} THEN "freed" ELSE "live"
       /\ \A p \in Instances : p # o => mem'[p] = mem[p]
  <2>1. mem' = [mem EXCEPT ![o] = IF users[o] = 1 THEN "freed" ELSE mem[o]]
    BY DEF RemoveLast, LastUse
  <2>2. users[o] = 1 <=> Refs(o) = {}
    BY <1>7, <1>8
  <2>3. QED
    BY <1>1, <1>4, <2>1, <2>2 DEF TypeOK
<1>12. m \in Minors /\ sjaByMinor'[m] = Null
       /\ \A k \in Minors : k # m => sjaByMinor'[k] = sjaByMinor[k]
  BY <1>1, <1>4 DEF TypeOK, RemoveLast
<1>13. UNCHANGED <<sjaCount, minorLock, dev, devnum, upc, ref, found>>
  BY DEF RemoveLast, LastUse
<1>14. LockInv'
  BY <1>2, <1>3, <1>9, FreeLock DEF LockInv
<1>15. MinorInv'
  <2>1. \A e \in Devs : pc'[e] \in Served => e # d /\ own'[e] = own[e] /\ pc[e] \in Served
    BY <1>9 DEF Served
  <2>2. QED
    BY <1>2, <1>13, <2>1 DEF MinorInv
<1>16. TableInv'
  <2> SUFFICES ASSUME NEW k \in Minors, sjaByMinor'[k] # Null
               PROVE  \/ \E e \in Devs : own'[e] = sjaByMinor'[k] /\ pc'[e] # "alloc"
                                         /\ devnum'[own'[e]] = k
                      \/ mem'[sjaByMinor'[k]] = "failed" /\ k = sjaCount'
    BY DEF TableInv
  <2>1. k # m /\ sjaByMinor'[k] = sjaByMinor[k] /\ sjaByMinor[k] \in Instances
    BY <1>1, <1>12 DEF TypeOK
  <2>2. CASE \E e \in Devs : own[e] = sjaByMinor[k] /\ pc[e] # "alloc" /\ devnum[own[e]] = k
    <3>1. PICK e \in Devs : own[e] = sjaByMinor[k] /\ pc[e] # "alloc" /\ devnum[own[e]] = k
      BY <2>2
    <3>2. e # d
      BY <2>1, <3>1
    <3>3. QED
      BY <1>9, <1>13, <2>1, <3>1, <3>2
  <2>3. CASE mem[sjaByMinor[k]] = "failed" /\ k = sjaCount
    <3>1. sjaByMinor[k] # o
      BY <1>4, <2>3
    <3>2. QED
      BY <1>11, <1>13, <2>1, <2>3, <3>1
  <2>4. QED
    BY <1>2, <2>1, <2>2, <2>3 DEF TableInv
<1>17. \A u \in Users : ref[u] = o => Refs(o) # {}
  BY DEF Refs
<1>18. RefInv'
  <2>1. \A u \in Users : ref[u] \in Instances \cup {Null}
    BY <1>1 DEF TypeOK
  <2>2. \A u \in Users : ref[u] # Null => mem'[ref[u]] \in {"live", "failed"}
    BY <1>2, <1>11, <1>17, <2>1 DEF RefInv
  <2>3. \A u \in Users : ref[u] # Null =>
          \A e \in Devs : own'[e] = ref[u] => pc'[e] \in Served
    BY <1>2, <1>9 DEF RefInv
  <2>4. QED
    BY <1>2, <1>13, <2>2, <2>3 DEF RefInv
<1>19. MemInv'
  <2>1. \A e \in Devs : own'[e] # Null => mem'[own'[e]] = "live"
    BY <1>2, <1>5, <1>6, <1>9, <1>11 DEF MemInv
  <2>2. \A p \in Instances : mem'[p] = "failed" => dev'[p] # NoDev
    BY <1>2, <1>4, <1>11, <1>13 DEF MemInv
  <2>3. \A p \in Instances : mem'[p] = "live" /\ (\A e \in Devs : own'[e] # p) => dev'[p] = NoDev
    BY <1>2, <1>4, <1>9, <1>11, <1>13 DEF MemInv
  <2>4. QED
    BY <2>1, <2>2, <2>3 DEF MemInv
<1>20. \A p \in Instances : Refs(p)' = Refs(p) /\ (p # o => (Owned(p)' <=> Owned(p)))
  BY <1>4, <1>9, <1>13, Constants DEF Refs, Owned
<1>21. CountInv'
  <2> SUFFICES ASSUME NEW p \in Instances, mem'[p] = "live",
                      \A e \in Devs : own'[e] = p => pc'[e] \notin {"alloc", "phy"}
               PROVE  users'[p] = Cardinality(Refs(p)) + (IF Owned(p)' THEN 1 ELSE 0)
    BY <1>20 DEF CountInv
  <2>1. CASE p = o
    <3>1. ~Owned(p)'
      BY <1>4, <1>5, <1>9, <2>1 DEF Owned
    <3>2. QED
      BY <1>7, <1>8, <1>10, <2>1, <3>1
  <2>2. CASE p # o
    <3>1. \A e \in Devs : own[e] = p => pc[e] \notin {"alloc", "phy"}
      BY <1>9, <2>2
    <3>2. QED
      BY <1>2, <1>10, <1>11, <1>20, <2>2, <3>1 DEF CountInv
  <2>3. QED
    BY <2>1, <2>2
<1>22. HeldInv'
  <2> SUFFICES ASSUME NEW p \in Instances
               PROVE  (mem'[p] = "live" => Held(p)') /\ (mem'[p] = "freed" => ~Held(p)')
    BY DEF HeldInv
  <2>1. CASE p = o
    BY <1>4, <1>5, <1>9, <1>11, <1>13, <2>1 DEF Held, Refs
  <2>2. CASE p # o
    <3>1. Held(p)' <=> Held(p)
      BY <1>9, <1>13, <2>2, Constants DEF Held
    <3>2. QED
      BY <1>2, <1>11, <2>2, <3>1 DEF HeldInv
  <2>3. QED
    BY <2>1, <2>2
<1>23. FoundInv'
  <2>1. sjaCount \in Nat /\ \A p \in Instances : mem[p] = "failed" => p # o
    BY <1>1, <1>4 DEF TypeOK
  <2>2. QED
    BY <1>2, <1>11, <1>12, <1>13, <2>1, FoundKept
<1>24. QED
  BY <1>14, <1>15, <1>16, <1>18, <1>19, <1>21, <1>22, <1>23 DEF SafeInv

-----------------------------------------------------------------------------
(* The users' steps                                                        *)

LEMMA SafeFind ==
  ASSUME CoreInv, SafeInv, NEW u \in Users, NEW d \in Devs, Find(u, d) PROVE SafeInv'
<1> USE DEF table, inst, core, user
<1>1. TypeOK /\ OwnInv
  BY DEF CoreInv
<1>2. LockInv /\ MinorInv /\ TableInv /\ RefInv /\ MemInv /\ CountInv /\ HeldInv /\ FoundInv
  BY DEF SafeInv
<1>3. upc[u] = "idle" /\ minorLock = Free
  BY DEF Find
<1>4. UNCHANGED <<sjaByMinor, sjaCount, mem, dev, devnum, users, own, pc, ref>>
  BY DEF Find
<1>5. LockInv' /\ MinorInv' /\ TableInv'
  BY <1>2, <1>3, <1>4, FreeLock DEF LockInv, MinorInv, TableInv
<1>6. MemInv' /\ HeldInv'
  BY <1>2, <1>4 DEF MemInv, HeldInv, Held
<1>7. CountInv'
  <2>1. \A o \in Instances : Refs(o)' = Refs(o) /\ (Owned(o)' <=> Owned(o))
    BY <1>4 DEF Refs, Owned
  <2>2. QED
    BY <1>2, <1>4, <2>1 DEF CountInv
<1>8. PICK m \in Ends(d) :
        IF dev[sjaByMinor[m]] = NoDev
        THEN /\ upc' = [upc EXCEPT ![u] = "stuck"] /\ minorLock' = u
             /\ UNCHANGED found
        ELSE /\ found' = [found EXCEPT ![u] =
                            [dev |-> d, minor |-> m, of |-> sjaByMinor[m]]]
             /\ UNCHANGED <<upc, minorLock>>
  BY DEF Find
<1>9. m \in Minors /\ sjaByMinor[m] # Null /\ dev[sjaByMinor[m]] \in {d, NoDev}
  BY DEF Ends
<1>10. RefInv'
  <2>1. \A v \in Users : upc'[v] = upc[v] \/ (v = u /\ upc'[v] = "stuck")
    BY <1>1, <1>8 DEF TypeOK
  <2>2. QED
    BY <1>2, <1>3, <1>4, <2>1 DEF RefInv
<1>11. FoundInv'
  <2>1. CASE UNCHANGED found
    BY <1>2, <1>4, <2>1 DEF FoundInv
  <2>2. CASE /\ dev[sjaByMinor[m]] = d
             /\ found' = [found EXCEPT ![u] =
                            [dev |-> d, minor |-> m, of |-> sjaByMinor[m]]]
    <3>1. \A v \in Users : v # u => found'[v] = found[v]
      BY <1>1, <2>2 DEF TypeOK
    <3>2. found'[u] = [dev |-> d, minor |-> m, of |-> sjaByMinor[m]]
      BY <1>1, <2>2 DEF TypeOK
    <3>3. found'[u].dev = d /\ found'[u].minor = m /\ found'[u].of = sjaByMinor[m]
      BY <3>2
    <3>4. sjaByMinor[m] \in Instances
      BY <1>1, <1>9 DEF TypeOK
    <3>5. mem[sjaByMinor[m]] # "failed" => m < sjaCount
      BY <1>3, <1>9, SlotEntry
    <3>6. QED
      BY <1>2, <1>4, <2>2, <3>1, <3>3, <3>4, <3>5 DEF FoundInv
  <2>3. QED
    BY <1>8, <1>9, <2>1, <2>2
<1>12. QED
  BY <1>5, <1>6, <1>7, <1>10, <1>11 DEF SafeInv

LEMMA SafeGet ==
  ASSUME CoreInv, SafeInv, NEW u \in Users, NEW m \in Minors, Get(u, m) PROVE SafeInv'
<1> USE DEF table, inst, core, user
<1>1. TypeOK /\ OwnInv
  BY DEF CoreInv
<1>2. LockInv /\ MinorInv /\ TableInv /\ RefInv /\ MemInv /\ CountInv /\ HeldInv /\ FoundInv
  BY DEF SafeInv
<1> DEFINE o == sjaByMinor[m]
<1>3. upc[u] = "idle" /\ minorLock = Free /\ o # Null /\ o \in Instances /\ ref[u] = Null
  BY <1>1, <1>2 DEF TypeOK, Get, RefInv
<1>4. UNCHANGED <<sjaByMinor, sjaCount, minorLock, mem, dev, devnum, own, pc>>
  BY DEF Get
<1>5. ref'[u] = o /\ upc'[u] = "open" /\ found'[u] = NotFound
      /\ \A v \in Users : v # u => ref'[v] = ref[v] /\ upc'[v] = upc[v] /\ found'[v] = found[v]
  BY <1>1 DEF TypeOK, Get
<1>6. users'[o] = users[o] + 1 /\ \A p \in Instances : p # o => users'[p] = users[p]
  <2>1. users' = [users EXCEPT ![o] = users[o] + 1]
    BY DEF Get
  <2>2. QED
    BY <1>1, <1>3, <2>1 DEF TypeOK
<1>7. LockInv' /\ MinorInv' /\ TableInv' /\ MemInv'
  BY <1>2, <1>4 DEF LockInv, MinorInv, TableInv, MemInv
<1>8. /\ mem[o] \in {"live", "failed"}
      /\ \A e \in Devs : own[e] = o => pc[e] \in Served
  <2>1. CASE mem[o] = "failed"
    BY <1>2, <1>3, <2>1 DEF MemInv
  <2>2. CASE mem[o] # "failed"
    <3>1. PICK d \in Devs : own[d] = o /\ pc[d] \in Served /\ mem[o] = "live"
      BY <1>3, <2>2, SlotEntry
    <3>2. QED
      BY <1>1, <1>3, <3>1 DEF OwnInv
  <2>3. QED
    BY <2>1, <2>2
<1>9. RefInv'
  BY <1>2, <1>3, <1>4, <1>5, <1>8 DEF RefInv
<1>10. /\ \A p \in Instances : Owned(p)' <=> Owned(p)
       /\ \A p \in Instances : p # o => Refs(p)' = Refs(p)
  BY <1>3, <1>4, <1>5, Constants DEF Refs, Owned
<1>11. CountInv'
  <2> SUFFICES ASSUME NEW p \in Instances, mem[p] = "live",
                      \A e \in Devs : own[e] = p => pc[e] \notin {"alloc", "phy"}
               PROVE  users'[p] = Cardinality(Refs(p)') + (IF Owned(p) THEN 1 ELSE 0)
    BY <1>4, <1>10 DEF CountInv
  <2>1. users[p] = Cardinality(Refs(p)) + (IF Owned(p) THEN 1 ELSE 0)
    BY <1>2 DEF CountInv
  <2>2. CASE p = o
    <3>1. Refs(p)' = Refs(p) \cup {u} /\ u \notin Refs(p)
      BY <1>3, <1>5, <2>2 DEF Refs
    <3>2. IsFiniteSet(Refs(p)) /\ Cardinality(Refs(p)) \in Nat
      BY UsersAssumption, FS_Subset, FS_CardinalityType DEF Refs
    <3>3. Cardinality(Refs(p) \cup {u}) = Cardinality(Refs(p)) + 1
      BY <3>1, <3>2, FS_AddElement
    <3>4. QED
      BY <1>6, <2>1, <2>2, <3>1, <3>2, <3>3
  <2>3. CASE p # o
    BY <1>6, <1>10, <2>1, <2>3
  <2>4. QED
    BY <2>2, <2>3
<1>12. HeldInv'
  BY <1>2, <1>3, <1>4, <1>5, <1>8, Constants DEF HeldInv, Held
<1>13. FoundInv'
  BY <1>2, <1>4, <1>5 DEF FoundInv
<1>14. QED
  BY <1>7, <1>9, <1>11, <1>12, <1>13 DEF SafeInv

\* The last user frees the instance exactly if the driver core has let go.
LEMMA SafePut ==
  ASSUME CoreInv, SafeInv, NEW u \in Users, Put(u) PROVE SafeInv'
<1> USE DEF table, inst, core, user
<1>1. TypeOK /\ OwnInv
  BY DEF CoreInv
<1>2. LockInv /\ MinorInv /\ TableInv /\ RefInv /\ MemInv /\ CountInv /\ HeldInv /\ FoundInv
  BY DEF SafeInv
<1> DEFINE o == ref[u]
           n == Cardinality(Refs(o))
<1>3. /\ upc[u] \in {"open", "oops"} /\ o # Null /\ o \in Instances
      /\ mem[o] \in {"live", "failed"} /\ \A e \in Devs : own[e] = o => pc[e] \in Served
  BY <1>1, <1>2 DEF TypeOK, Put, RefInv
<1>4. UNCHANGED <<sjaByMinor, sjaCount, minorLock, dev, devnum, own, pc, found>>
  BY DEF Put
<1>5. ref'[u] = Null /\ upc'[u] = "idle"
      /\ \A v \in Users : v # u => ref'[v] = ref[v] /\ upc'[v] = upc[v]
  BY <1>1 DEF TypeOK, Put
<1>6. IsFiniteSet(Refs(o)) /\ n \in Nat /\ u \in Refs(o) /\ n # 0
  <2>1. IsFiniteSet(Refs(o)) /\ u \in Refs(o)
    BY UsersAssumption, FS_Subset DEF Refs
  <2>2. QED
    BY <2>1, FS_CardinalityType, FS_EmptySet
<1>7. Cardinality(Refs(o) \ {u}) = n - 1
  BY <1>6, FS_RemoveElement
<1>8. Refs(o) \ {u} = {} <=> n = 1
  <2>1. IsFiniteSet(Refs(o) \ {u})
    BY <1>6, FS_RemoveElement
  <2>2. QED
    BY <1>6, <1>7, <2>1, FS_EmptySet
<1>9. mem[o] = "live" => users[o] = n + (IF Owned(o) THEN 1 ELSE 0)
  BY <1>2, <1>3 DEF CountInv, Served
<1>10. mem[o] = "live" /\ dev[o] # NoDev => Owned(o)
  BY <1>2, <1>3 DEF MemInv, Owned
<1>11. users'[o] = users[o] - 1 /\ \A p \in Instances : p # o => users'[p] = users[p]
  <2>1. users' = [users EXCEPT ![o] = users[o] - 1]
    BY DEF Put
  <2>2. QED
    BY <1>1, <1>3, <2>1 DEF TypeOK
<1>12. /\ mem'[o] = IF users[o] = 1 /\ dev[o] = NoDev THEN "freed" ELSE mem[o]
       /\ \A p \in Instances : p # o => mem'[p] = mem[p]
  <2>1. mem' = [mem EXCEPT ![o] = IF users[o] = 1 /\ dev[o] = NoDev THEN "freed" ELSE mem[o]]
    BY DEF Put
  <2>2. QED
    BY <1>1, <1>3, <2>1 DEF TypeOK
<1>13. mem[o] = "failed" => mem'[o] = "failed"
  BY <1>2, <1>3, <1>12 DEF MemInv
<1>14. mem[o] = "live" => \/ mem'[o] = "live" /\ (Owned(o) \/ Refs(o) \ {u} # {})
                          \/ mem'[o] = "freed" /\ ~Owned(o) /\ Refs(o) \ {u} = {}
  <2> SUFFICES ASSUME mem[o] = "live"
               PROVE  \/ mem'[o] = "live" /\ (Owned(o) \/ n # 1)
                      \/ mem'[o] = "freed" /\ ~Owned(o) /\ n = 1
    BY <1>8
  <2>1. CASE Owned(o)
    <3>1. users[o] # 1
      BY <1>6, <1>9, <2>1
    <3>2. QED
      BY <1>12, <2>1, <3>1
  <2>2. CASE ~Owned(o)
    <3>1. users[o] = n /\ dev[o] = NoDev
      BY <1>6, <1>9, <1>10, <2>2
    <3>2. QED
      BY <1>12, <2>2, <3>1
  <2>3. QED
    BY <2>1, <2>2
<1>15. LockInv' /\ MinorInv'
  BY <1>2, <1>4 DEF LockInv, MinorInv
<1>16. \A p \in Instances : mem[p] = "failed" => mem'[p] = "failed"
  BY <1>12, <1>13
<1>17. TableInv'
  <2>1. \A m \in Minors : sjaByMinor[m] \in Instances \cup {Null}
    BY <1>1 DEF TypeOK
  <2>2. QED
    BY <1>2, <1>4, <1>16, <2>1 DEF TableInv
<1>18. RefInv'
  <2> SUFFICES ASSUME NEW v \in Users
               PROVE  /\ ref'[v] # Null <=> upc'[v] \in {"open", "checked", "oops"}
                      /\ ref'[v] # Null => /\ mem'[ref'[v]] \in {"live", "failed"}
                                           /\ \A e \in Devs : own[e] = ref'[v] => pc[e] \in Served
    BY <1>4 DEF RefInv
  <2>1. CASE v = u
    BY <1>5, <2>1
  <2>2. CASE v # u
    <3>1. ref[v] = o => Refs(o) \ {u} # {}
      BY <2>2 DEF Refs
    <3>2. ref[v] \in Instances \cup {Null}
      BY <1>1 DEF TypeOK
    <3>3. ref[v] # Null => mem'[ref[v]] \in {"live", "failed"}
      BY <1>2, <1>3, <1>12, <1>13, <1>14, <3>1, <3>2 DEF RefInv
    <3>4. QED
      BY <1>2, <1>5, <2>2, <3>3 DEF RefInv
  <2>3. QED
    BY <2>1, <2>2
<1>19. MemInv'
  <2>1. \A e \in Devs : own[e] \in Instances \cup {Null}
    BY <1>1 DEF TypeOK
  <2>2. \A e \in Devs : own[e] # Null => mem'[own[e]] = "live"
    BY <1>2, <1>12, <1>14, <2>1 DEF MemInv, Owned
  <2>3. \A p \in Instances : mem'[p] \in {"live", "failed"} => mem'[p] = mem[p]
    BY <1>3, <1>12, <1>13, <1>14
  <2>4. QED
    BY <1>2, <1>4, <2>2, <2>3 DEF MemInv
<1>20. /\ \A p \in Instances : Owned(p)' <=> Owned(p)
       /\ \A p \in Instances : p # o => Refs(p)' = Refs(p)
  BY <1>3, <1>4, <1>5, Constants DEF Refs, Owned
<1>21. ASSUME NEW p \in Instances, p = o PROVE Refs(p)' = Refs(p) \ {u}
  BY <1>3, <1>5, <1>21 DEF Refs
<1>22. CountInv'
  <2> SUFFICES ASSUME NEW p \in Instances, mem'[p] = "live",
                      \A e \in Devs : own[e] = p => pc[e] \notin {"alloc", "phy"}
               PROVE  users'[p] = Cardinality(Refs(p)') + (IF Owned(p) THEN 1 ELSE 0)
    BY <1>4, <1>20 DEF CountInv
  <2>1. CASE p = o
    <3>1. mem[o] = "live"
      BY <1>3, <1>12, <2>1
    <3>2. users[p] = Cardinality(Refs(p)) + (IF Owned(p) THEN 1 ELSE 0)
      BY <1>9, <2>1, <3>1
    <3>3. Refs(p)' = Refs(p) \ {u} /\ users'[p] = users[p] - 1
      BY <1>11, <1>21, <2>1
    <3>4. Cardinality(Refs(p) \ {u}) = Cardinality(Refs(p)) - 1 /\ Cardinality(Refs(p)) \in Nat
      BY <1>6, <1>7, <2>1
    <3>5. QED
      BY <3>2, <3>3, <3>4
  <2>2. CASE p # o
    BY <1>2, <1>11, <1>12, <1>20, <2>2 DEF CountInv
  <2>3. QED
    BY <2>1, <2>2
<1>23. HeldInv'
  <2> SUFFICES ASSUME NEW p \in Instances
               PROVE  (mem'[p] = "live" => Held(p)') /\ (mem'[p] = "freed" => ~Held(p)')
    BY DEF HeldInv
  <2>1. Held(p)' <=> (Owned(p) \/ Refs(p)' # {})
    BY <1>4 DEF Held, Owned, Refs
  <2>2. CASE p = o
    BY <1>3, <1>13, <1>14, <1>21, <2>1, <2>2
  <2>3. CASE p # o
    <3>1. Held(p) <=> (Owned(p) \/ Refs(p) # {})
      BY DEF Held, Owned, Refs
    <3>2. QED
      BY <1>2, <1>12, <1>20, <2>1, <2>3, <3>1 DEF HeldInv
  <2>4. QED
    BY <2>2, <2>3
<1>24. FoundInv'
  <2>1. sjaCount \in Nat
    BY <1>1 DEF TypeOK
  <2>2. QED
    BY <1>2, <1>4, <1>16, <2>1, FoundKept
<1>25. QED
  BY <1>15, <1>17, <1>18, <1>19, <1>22, <1>23, <1>24 DEF SafeInv

-----------------------------------------------------------------------------
(* The invariant                                                           *)

LEMMA SafeStep ==
  ASSUME CoreInv, SafeInv, [Next]_vars, ~unlocked' PROVE SafeInv'
<1> USE DEF table, inst, core, user
<1>1. ASSUME UNCHANGED <<sjaByMinor, sjaCount, minorLock, mem, dev, devnum, users, own, pc,
                         ref, found>>,
             \A u \in Users : upc'[u] \in {"open", "checked", "oops"} <=>
                              upc[u] \in {"open", "checked", "oops"}
      PROVE  SafeInv'
  <2>1. LockInv' /\ MinorInv' /\ TableInv' /\ MemInv' /\ HeldInv' /\ FoundInv'
    BY <1>1 DEF SafeInv, LockInv, MinorInv, TableInv, MemInv, HeldInv, FoundInv, Held
  <2>2. RefInv'
    BY <1>1 DEF SafeInv, RefInv
  <2>3. CountInv'
    <3>1. \A o \in Instances : Refs(o)' = Refs(o) /\ (Owned(o)' <=> Owned(o))
      BY <1>1 DEF Refs, Owned
    <3>2. QED
      BY <1>1, <3>1 DEF SafeInv, CountInv
  <2>4. QED
    BY <2>1, <2>2, <2>3 DEF SafeInv
<1>2. ASSUME NEW u \in Users, CheckDev(u) \/ UseDev(u) PROVE SafeInv'
  <2>1. \A v \in Users : upc'[v] \in {"open", "checked", "oops"} <=>
                         upc[v] \in {"open", "checked", "oops"}
    BY <1>2 DEF CoreInv, TypeOK, CheckDev, UseDev
  <2>2. QED
    BY <1>1, <1>2, <2>1 DEF CheckDev, UseDev
<1>3. CASE PollStep
  BY <1>1, <1>3 DEF PollStep, PollBegin, PollEnd, PollExit, Poller
<1>4. CASE UNCHANGED vars
  BY <1>1, <1>4 DEF vars
<1>5. ASSUME NEW d \in Devs, ProbeNoBuffers(d) PROVE FALSE
  BY <1>5 DEF ProbeNoBuffers
<1>6. CASE UserStep
  BY <1>2, <1>6, SafeFind, SafeGet, SafePut DEF UserStep
<1>7. CASE CoreStep
  BY <1>5, <1>7, SafeAlloc, SafeTable, SafePhy, SafeRun, SafeRemove, SafeLast
     DEF CoreStep, ProbeStep, RemoveStep
<1>8. QED
  BY <1>3, <1>4, <1>6, <1>7 DEF Next

LEMMA InitSafe == Init => SafeInv
<1> SUFFICES ASSUME Init PROVE SafeInv
  OBVIOUS
<1>1. LockInv /\ MinorInv /\ TableInv /\ RefInv /\ FoundInv
  BY DEF Init, LockInv, MinorInv, TableInv, RefInv, FoundInv, Served
<1>2. MemInv /\ CountInv /\ HeldInv
  BY DEF Init, MemInv, CountInv, HeldInv
<1>3. QED
  BY <1>1, <1>2 DEF SafeInv

\* What a probe without buffers unlocked is not locked again for its holder.
LEMMA UnlockedStays == [Next]_vars /\ ~unlocked' => ~unlocked
  BY DEF Next, CoreStep, ProbeStep, RemoveStep, PollStep, UserStep, ProbeAlloc,
     ProbeNoBuffers, ProbeTable, ProbePhy, ProbeRun, RemoveStart, RemovePhy, RemoveClose,
     RemoveLast, LastUse, PollBegin, PollEnd, PollExit, Poller, Find, Get, Put, CheckDev,
     UseDev, vars

LEMMA Invariant == Spec => []IInv
<1>1. Init => IInv
  BY InitCore, InitSafe DEF IInv, ServedInv
<1>2. IInv /\ [Next]_vars => IInv'
  BY CoreStepInv, SafeStep, UnlockedStays DEF IInv, ServedInv
<1>3. QED
  BY <1>1, <1>2, PTL DEF Spec

-----------------------------------------------------------------------------
(* Theorems                                                                *)

\* Every variable of the driver's life has its type, whatever the driver core
\* and the users do.
THEOREM TypeCorrect == Spec => []TypeOK
<1>1. IInv => TypeOK
  BY DEF IInv, CoreInv
<1>2. QED
  BY <1>1, Invariant, PTL

\* The poll thread and the PHY handler only run on an instance that is there,
\* has its device and is bound: probe starts them late enough and remove stops
\* them early enough.
THEOREM ThreadsSafe == Spec => []DriverThreadsSafe
<1>1. IInv => DriverThreadsSafe
  <2> SUFFICES ASSUME CoreInv, NEW o \in Instances,
                      poller[o] \in {"run", "poll"} \/ phyCon[o]
               PROVE  mem[o] = "live" /\ dev[o] # NoDev /\ \E d \in Devs : own[d] = o
    BY DEF IInv, DriverThreadsSafe
  <2>1. PICK d \in Devs : own[d] = o /\ pc[d] \in {"run", "bound", "stopping"}
    BY DEF CoreInv, ThreadInv
  <2>2. own[d] # Null
    BY <2>1, Constants
  <2>3. QED
    BY <2>1, <2>2, Constants DEF CoreInv, OwnInv
<1>2. QED
  BY <1>1, Invariant, PTL

\* Probe and remove give back each reference on the PHY once, on every way.
THEOREM PhyGivenBack == Spec => []PhyBalanced
<1>1. IInv => PhyBalanced
  BY DEF IInv, CoreInv
<1>2. QED
  BY <1>1, Invariant, PTL

\* An instance that was freed is held by nobody, whatever the order of open,
\* remove and release.
THEOREM NotUsedFreed == Spec => []NoUseAfterFree
<1>1. IInv => NoUseAfterFree
  BY DEF IInv, ServedInv, SafeInv, HeldInv, NoUseAfterFree
<1>2. QED
  BY <1>1, Invariant, PTL

\* An instance that nobody holds was freed.
THEOREM NotLeaked == Spec => []NoLeak
<1>1. IInv => NoLeak
  BY DEF IInv, ServedInv, SafeInv, HeldInv, NoLeak
<1>2. QED
  BY <1>1, Invariant, PTL

\* sja_by_minor leads to instances that are bound or being bound, or to that of
\* a failed probe in the next slot.
THEOREM TableLeadsToLive == Spec => []TableLive
<1>1. IInv => TableLive
  BY DEF IInv, ServedInv, SafeInv, TableInv, TableLive
<1>2. QED
  BY <1>1, Invariant, PTL

\* A minor number once found leads to the instance it was found for or to none,
\* unless it was found by the pointer of a failed probe.
THEOREM FoundStays == Spec => []FoundMinorStays
<1>1. IInv => FoundMinorStays
  BY DEF IInv, ServedInv, SafeInv, FoundInv, FoundMinorStays
<1>2. QED
  BY <1>1, Invariant, PTL

-----------------------------------------------------------------------------
(***************************************************************************)
(* What a remove waits for. That it ends (RemoveEnds) needs fairness; that  *)
(* what it waits for is there, and can end, is an invariant, and one that   *)
(* a probe without buffers does not disturb.                                *)
(***************************************************************************)

\* minor_lock is held by a probe that is past its table, with steps of its own
\* left, or by a thread that died in find_by_spi.
LockEnds ==
  minorLock # Free =>
    \/ \E d \in Devs : minorLock = d /\ pc[d] \in {"phy", "run"}
    \/ \E u \in Users : minorLock = u /\ upc[u] = "stuck"

\* The thread that kthread_stop waits for was started, and has not ended
\* before it was asked to.
ThreadToStop ==
  /\ \A d \in Devs : pc[d] = "bound" => poller[own[d]] \in {"run", "poll"}
  /\ \A d \in Devs : pc[d] = "stopping" => poller[own[d]] \in {"run", "poll", "exit"}

\* Only what was allocated has been anything.
AllocInv == \A o \in Instances : mem[o] # "none" => o <= allocs

EndsInv == LockEnds /\ ThreadToStop /\ AllocInv

LEMMA NextEndsInv == IInv /\ EndsInv /\ [Next]_vars => EndsInv'
<1> SUFFICES ASSUME CoreInv, EndsInv, [Next]_vars PROVE EndsInv'
  BY DEF IInv
<1> USE Constants DEF EndsInv, table, inst, core, user
<1>0. /\ TypeOK /\ OwnInv
      /\ pc \in [Devs -> {"unbound", "alloc", "phy", "run", "bound",
                          "stopping", "closing", "closed"}]
      /\ own \in [Devs -> Instances \cup {Null}] /\ allocs \in Nat
      /\ mem \in [Instances -> {"none", "live", "freed", "failed"}]
      /\ poller \in [Instances -> {"none", "run", "poll", "exit"}]
      /\ upc \in [Users -> {"idle", "open", "checked", "oops", "stuck"}]
      /\ \A d \in Devs : own[d] # Null => own[d] \in Instances /\ own[d] <= allocs
  BY DEF CoreInv, TypeOK, FreshInv
<1>1. ASSUME NEW d \in Devs, pc[d] # "unbound"
      PROVE  /\ own[d] \in Instances /\ own[d] <= allocs
             /\ \A e \in Devs : e # d => own[e] # own[d]
  BY <1>0, <1>1 DEF OwnInv
<1>2. ASSUME NEW d \in Devs, ProbeAlloc(d) PROVE EndsInv'
  <2>1. /\ allocs' = allocs + 1 /\ allocs + 1 \in Instances /\ pc[d] = "unbound"
        /\ pc' = [pc EXCEPT ![d] = "alloc"] /\ own' = [own EXCEPT ![d] = allocs + 1]
        /\ mem' = [mem EXCEPT ![allocs + 1] = "live"]
        /\ UNCHANGED <<minorLock, poller, upc>>
    BY <1>0, <1>2 DEF ProbeAlloc
  <2>2. LockEnds'
    BY <1>0, <2>1 DEF LockEnds
  <2>3. ThreadToStop' /\ AllocInv'
    BY <1>0, <2>1 DEF ThreadToStop, AllocInv
  <2> QED
    BY <2>2, <2>3
<1>3. ASSUME NEW d \in Devs, ProbeNoBuffers(d) PROVE EndsInv'
  BY <1>3 DEF ProbeNoBuffers, LockEnds, ThreadToStop, AllocInv
<1>4. ASSUME NEW d \in Devs, ProbeFails(d), pc[d] # "unbound", UNCHANGED <<poller, allocs>>
      PROVE  EndsInv'
  BY <1>0, <1>1, <1>4 DEF ProbeFails, LockEnds, ThreadToStop, AllocInv
<1>5. ASSUME NEW d \in Devs, ProbeTable(d) \/ ProbePhy(d), ~ProbeFails(d) PROVE EndsInv'
  <2>1. /\ \/ minorLock = Free /\ minorLock' = d /\ pc' = [pc EXCEPT ![d] = "phy"]
           \/ UNCHANGED minorLock /\ pc' = [pc EXCEPT ![d] = "run"]
        /\ UNCHANGED <<mem, own, poller, allocs, upc>>
    BY <1>5 DEF ProbeTable, ProbePhy
  <2> QED
    BY <1>0, <2>1 DEF LockEnds, ThreadToStop, AllocInv
<1>6. ASSUME NEW d \in Devs, ProbeRun(d), ~ProbeFails(d) PROVE EndsInv'
  <2>1. /\ pc[d] = "run" /\ minorLock' = Free /\ pc' = [pc EXCEPT ![d] = "bound"]
        /\ poller' = [poller EXCEPT ![own[d]] = "run"]
        /\ UNCHANGED <<mem, own, allocs>>
    BY <1>6 DEF ProbeRun, ProbeDone
  <2> QED
    BY <1>0, <1>1, <2>1 DEF LockEnds, ThreadToStop, AllocInv
<1>7. ASSUME NEW d \in Devs, RemoveStart(d) \/ RemovePhy(d) \/ RemoveClose(d)
      PROVE  EndsInv'
  <2>1. /\ \/ pc[d] = "bound" /\ pc' = [pc EXCEPT ![d] = "stopping"]
           \/ pc[d] = "stopping" /\ pc' = [pc EXCEPT ![d] = "closing"]
           \/ pc[d] = "closing" /\ pc' = [pc EXCEPT ![d] = "closed"]
        /\ UNCHANGED <<minorLock, mem, own, poller, allocs, upc>>
    BY <1>7 DEF RemoveStart, RemovePhy, RemoveClose
  <2> QED
    BY <1>0, <2>1 DEF LockEnds, ThreadToStop, AllocInv
<1>8. ASSUME NEW d \in Devs, RemoveLast(d) PROVE EndsInv'
  <2>1. /\ pc[d] = "closed" /\ pc' = [pc EXCEPT ![d] = "unbound"]
        /\ own' = [own EXCEPT ![d] = Null] /\ minorLock' = Free
        /\ mem' = [mem EXCEPT ![own[d]] = IF users[own[d]] = 1 THEN "freed" ELSE @]
        /\ UNCHANGED <<poller, allocs>>
    BY <1>8 DEF RemoveLast, LastUse
  <2> QED
    BY <1>0, <1>1, <2>1 DEF LockEnds, ThreadToStop, AllocInv
<1>9. CASE PollStep
  <2>1. PICK o \in Instances : PollBegin(o) \/ PollEnd(o) \/ PollExit(o)
    BY <1>9 DEF PollStep
  <2>2. /\ \/ poller'[o] \in {"run", "poll"}
           \/ poller'[o] = "exit" /\ ShouldStop(o)
        /\ \A x \in Instances : x # o => poller'[x] = poller[x]
        /\ UNCHANGED <<minorLock, mem, own, pc, allocs, upc>>
    BY <1>0, <2>1 DEF PollBegin, PollEnd, PollExit, Poller
  <2>3. ShouldStop(o) => \A d \in Devs : own[d] = o => pc[d] = "stopping"
    BY <1>0 DEF ShouldStop, OwnInv
  <2>4. ThreadToStop'
    BY <1>0, <1>1, <2>2, <2>3 DEF ThreadToStop
  <2> QED
    BY <2>2, <2>4 DEF LockEnds, AllocInv
<1>10. ASSUME NEW u \in Users, NEW d \in Devs, Find(u, d) PROVE EndsInv'
  <2>1. /\ \/ minorLock' = u /\ upc'[u] = "stuck"
           \/ minorLock' = Free
        /\ UNCHANGED <<mem, own, pc, poller, allocs>>
    BY <1>0, <1>10 DEF Find
  <2> QED
    BY <2>1 DEF LockEnds, ThreadToStop, AllocInv
<1>11. ASSUME NEW u \in Users, NEW m \in Minors, Get(u, m) PROVE EndsInv'
  BY <1>11 DEF Get, LockEnds, ThreadToStop, AllocInv
<1>12. ASSUME NEW u \in Users, Put(u) PROVE EndsInv'
  <2>1. /\ minorLock' = Free /\ UNCHANGED <<own, pc, poller, allocs>>
        /\ mem' = [mem EXCEPT ![ref[u]] =
                     IF users[ref[u]] = 1 /\ dev[ref[u]] = NoDev THEN "freed" ELSE @]
    BY <1>12 DEF Put
  <2>2. AllocInv'
    BY <1>0, <2>1 DEF CoreInv, FreshInv, AllocInv
  <2> QED
    BY <2>1, <2>2 DEF LockEnds, ThreadToStop
<1>13. ASSUME NEW u \in Users, CheckDev(u) \/ UseDev(u) PROVE EndsInv'
  <2>1. /\ \A v \in Users : upc[v] = "stuck" => upc'[v] = "stuck"
        /\ UNCHANGED <<minorLock, mem, own, pc, poller, allocs>>
    BY <1>0, <1>13 DEF CheckDev, UseDev
  <2> QED
    BY <2>1 DEF LockEnds, ThreadToStop, AllocInv
<1>14. CASE UNCHANGED vars
  BY <1>14 DEF vars, LockEnds, ThreadToStop, AllocInv
<1>15. ASSUME NEW d \in Devs, ProbeStep(d) PROVE EndsInv'
  <2>1. pc[d] # "unbound" /\ allocs' = allocs
    BY <1>15 DEF ProbeStep, ProbeTable, ProbePhy, ProbeRun
  <2>2. CASE ProbeFails(d)
    <3>1. UNCHANGED poller
      BY <1>0, <1>15, <2>1, <2>2 DEF ProbeStep, ProbeTable, ProbePhy, ProbeRun, ProbeDone,
         ProbeFails
    <3> QED
      BY <1>4, <2>1, <2>2, <3>1
  <2> QED
    BY <1>5, <1>6, <1>15, <2>2 DEF ProbeStep
<1> QED
  BY <1>2, <1>3, <1>7, <1>8, <1>9, <1>10, <1>11, <1>12, <1>13, <1>14, <1>15
     DEF Next, CoreStep, RemoveStep, UserStep

LEMMA EndsInductive == Spec => []EndsInv
<1>1. Init => EndsInv
  BY DEF Init, EndsInv, LockEnds, ThreadToStop, AllocInv
<1>2. QED
  BY <1>1, Invariant, NextEndsInv, PTL DEF Spec

\* Nobody waits in vain: minor_lock is held by one who will let it go, unless a
\* thread died with it, and kthread_stop waits for a thread that runs or has
\* ended.
THEOREM RemoveWaitsForSome == Spec => [](LockEnds /\ ThreadToStop)
<1>1. EndsInv => LockEnds /\ ThreadToStop
  BY DEF EndsInv
<1>2. QED
  BY <1>1, EndsInductive, PTL

-----------------------------------------------------------------------------
(* Freed instances                                                         *)

\* While no probe unlocked minor_lock for somebody else, no step writes to an
\* instance that was freed, by remove, by the last put or by its own, failing
\* probe, but for one field of the latter: spi_get, which still finds it in the
\* table, counts its user there, and so does the put that follows.
FreedUntouched ==
  [][~unlocked => \A o \in Instances : mem[o] \in {"freed", "failed"} =>
       /\ UNCHANGED <<mem[o], dev[o], devnum[o], poller[o], phyCon[o]>>
       /\ users'[o] # users[o] =>
            mem[o] = "failed" /\ \E u \in Users : o \in {ref[u], ref'[u]}]_vars

\* Whatever the order of open, remove and release: an instance is freed once, and
\* is not written afterwards, but that a user of a failed probe's instance is
\* counted in memory that was freed.
THEOREM FreedOnce == Spec => FreedUntouched
<1> DEFINE Same(o) == UNCHANGED <<mem[o], dev[o], devnum[o], poller[o], phyCon[o]>>
           Counted(o) == users'[o] # users[o] =>
                           mem[o] = "failed" /\ \E u \in Users : o \in {ref[u], ref'[u]}
<1>1. ASSUME IInv, EndsInv, [Next]_vars, ~unlocked, NEW o \in Instances,
             mem[o] \in {"freed", "failed"}
      PROVE  Same(o) /\ Counted(o)
  <2> USE Constants DEF table, inst, core, user
  <2>0. /\ TypeOK /\ OwnInv /\ RefInv /\ TableInv /\ MemInv
        /\ \A d \in Devs : own[d] # o
        /\ o <= allocs /\ allocs \in Nat
        /\ \A d \in Devs : pc[d] # "unbound" => own[d] \in Instances
    <3>1. TypeOK /\ OwnInv /\ RefInv /\ TableInv /\ MemInv
      BY <1>1 DEF IInv, CoreInv, ServedInv, SafeInv
    <3>2. \A d \in Devs : own[d] # o
      BY <1>1, <3>1 DEF MemInv
    <3>3. o <= allocs
      BY <1>1 DEF EndsInv, AllocInv
    <3> QED
      BY <3>1, <3>2, <3>3 DEF TypeOK, OwnInv
  <2>f. mem[o] = "freed" => /\ \A u \in Users : ref[u] # o
                            /\ \A m \in Minors : sjaByMinor[m] # o
    BY <2>0 DEF RefInv, TableInv
  <2>t. /\ mem \in [Instances -> {"none", "live", "freed", "failed"}]
        /\ dev \in [Instances -> Devs \cup {NoDev}]
        /\ devnum \in [Instances -> Minors] /\ users \in [Instances -> Int]
        /\ poller \in [Instances -> {"none", "run", "poll", "exit"}]
        /\ phyCon \in [Instances -> BOOLEAN]
        /\ ref \in [Users -> Instances \cup {Null}]
    BY <2>0 DEF TypeOK
  <2>1. ASSUME NEW d \in Devs, ProbeAlloc(d) PROVE Same(o) /\ Counted(o)
    BY <2>0, <2>t, <2>1 DEF ProbeAlloc
  <2>2. ASSUME NEW d \in Devs, ProbeNoBuffers(d) PROVE Same(o) /\ Counted(o)
    BY <2>2 DEF ProbeNoBuffers
  <2>3. ASSUME NEW d \in Devs, ProbeTable(d) \/ ProbePhy(d) PROVE Same(o) /\ Counted(o)
    BY <2>0, <2>t, <2>3 DEF ProbeTable, ProbePhy, ProbeFails
  <2>4. ASSUME NEW d \in Devs, ProbeRun(d) PROVE Same(o) /\ Counted(o)
    BY <2>0, <2>t, <2>4 DEF ProbeRun, ProbeDone, ProbeFails
  <2>5. ASSUME NEW d \in Devs, RemoveStart(d) \/ RemoveStep(d) PROVE Same(o) /\ Counted(o)
    BY <2>0, <2>t, <2>5 DEF RemoveStart, RemoveStep, RemovePhy, RemoveClose, RemoveLast,
       LastUse
  <2>6. ASSUME NEW x \in Instances, PollBegin(x) \/ PollEnd(x) \/ PollExit(x)
        PROVE  Same(o) /\ Counted(o)
    <3>1. \E d \in Devs : own[d] = x
      BY <1>1, <2>6 DEF PollBegin, PollEnd, PollExit, Poller, IInv, CoreInv, ThreadInv
    <3> QED
      BY <2>0, <2>t, <2>6, <3>1 DEF PollBegin, PollEnd, PollExit, Poller
  <2>7. ASSUME NEW u \in Users, NEW m \in Minors, Get(u, m) PROVE Same(o) /\ Counted(o)
    <3>1. /\ ref'[u] = sjaByMinor[m] /\ UNCHANGED <<mem, dev, devnum, poller, phyCon>>
          /\ sjaByMinor[m] # o => users'[o] = users[o]
      BY <2>t, <2>7 DEF Get
    <3> QED
      BY <1>1, <2>f, <3>1
  <2>8. ASSUME NEW u \in Users, Put(u) PROVE Same(o) /\ Counted(o)
    <3>1. /\ UNCHANGED <<dev, devnum, poller, phyCon>>
          /\ ref[u] # o => users'[o] = users[o]
          /\ ref[u] # o \/ dev[o] # NoDev => mem'[o] = mem[o]
      BY <2>t, <2>8 DEF Put
    <3>2. mem[o] = "failed" => dev[o] # NoDev
      BY <2>0 DEF MemInv
    <3> QED
      BY <1>1, <2>f, <3>1, <3>2
  <2>9. ASSUME NEW u \in Users, CheckDev(u) \/ UseDev(u) \/ \E d \in Devs : Find(u, d)
        PROVE  Same(o) /\ Counted(o)
    BY <2>9 DEF CheckDev, UseDev, Find
  <2>10. CASE UNCHANGED vars
    BY <2>10 DEF vars
  <2> QED
    BY <1>1, <2>1, <2>2, <2>3, <2>4, <2>5, <2>6, <2>7, <2>8, <2>9, <2>10
       DEF Next, CoreStep, ProbeStep, PollStep, UserStep
<1>2. IInv /\ EndsInv /\ [Next]_vars =>
        [~unlocked => \A o \in Instances : mem[o] \in {"freed", "failed"} =>
           /\ UNCHANGED <<mem[o], dev[o], devnum[o], poller[o], phyCon[o]>>
           /\ users'[o] # users[o] =>
                mem[o] = "failed" /\ \E u \in Users : o \in {ref[u], ref'[u]}]_vars
  BY <1>1
<1>3. QED
  BY <1>2, Invariant, EndsInductive, PTL DEF Spec, FreedUntouched

=============================================================================
