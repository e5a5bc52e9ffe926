---------------------------- MODULE SjaLifecycle ----------------------------
(***************************************************************************)
(* The life of the SJA1105 driver's instances (switch-spi.c): probe and    *)
(* remove by the driver core, the poll thread and the PHY handlers they    *)
(* start and stop, and the users that find, get, use and put an instance,  *)
(* through the character device or from another driver.                    *)
(*                                                                         *)
(* minor_lock is a variable, for a probe holds it over several steps and a *)
(* thread that dies holds it for ever; every other section under it is one *)
(* action.  A switch has one PHY.                                          *)
(***************************************************************************)
EXTENDS Integers, FiniteSets

CONSTANTS
  Devs,         (* SPI devices the driver can be bound to                 *)
  Users,        (* threads that use an instance                           *)
  MaxChardevs,  (* SJA1105_SPI_MAX_CHARDEVS                               *)
  MaxProbes,    (* bound: instances allocated                             *)
  NoDev, Free   (* a NULL device; minor_lock held by nobody               *)

ASSUME ValuesAssumption ==
  NoDev \notin Devs /\ Free \notin Devs \cup Users /\ Devs \cap Users = {}
ASSUME BoundsAssumption == MaxChardevs \in Nat \ {0} /\ MaxProbes \in Nat
ASSUME UsersAssumption == IsFiniteSet(Users) /\ IsFiniteSet(Devs)

Instances == 1..MaxProbes
Null == 0
Minors == 0..MaxChardevs - 1
NotFound == [dev |-> NoDev, minor |-> 0, of |-> Null]

VARIABLES
  sjaByMinor, sjaCount, minorLock,
  allocs,       (* instances allocated so far                             *)
  (* the fields of an instance *)
  mem,          (* its memory; "failed": freed by its own, failing probe  *)
  dev, devnum, users, poller, phyCon,
  (* the driver core, by device *)
  pc,           (* how far probe or remove has got                        *)
  own,          (* the instance that is bound or being bound to it        *)
  phyRefs,      (* references held on its PHY                             *)
  (* users *)
  upc, ref,
  found,        (* what find_by_spi returned, and of which instance       *)
  unlocked      (* history: a probe unlocked it for somebody else         *)

table == <<sjaByMinor, sjaCount, minorLock>>
inst  == <<mem, dev, devnum, users>>
core  == <<allocs, pc, own, phyRefs>>
user  == <<upc, ref, found>>
vars  == <<table, inst, poller, phyCon, core, user, unlocked>>

Init ==
  /\ sjaByMinor = [m \in Minors |-> Null] /\ sjaCount = 0 /\ minorLock = Free
  /\ allocs = 0
  /\ mem = [o \in Instances |-> "none"] /\ dev = [o \in Instances |-> NoDev]
  /\ devnum = [o \in Instances |-> 0] /\ users = [o \in Instances |-> 0]
  /\ poller = [o \in Instances |-> "none"]
  /\ phyCon = [o \in Instances |-> FALSE]
  /\ pc = [d \in Devs |-> "unbound"] /\ own = [d \in Devs |-> Null]
  /\ phyRefs = [d \in Devs |-> 0]
  /\ upc = [u \in Users |-> "idle"] /\ ref = [u \in Users |-> Null]
  /\ found = [u \in Users |-> NotFound]
  /\ unlocked = FALSE

-----------------------------------------------------------------------------
(* sja1105_spi_probe                                                       *)

Probing == {d \in Devs : pc[d] \in {"alloc", "phy", "run"}}

\* sja_by_minor has no bound check: a probe beyond its end is left out.
RoomInTable == sjaCount + Cardinality(Probing) < MaxChardevs

\* The reference on the PHY that phy_early_setup takes, or gives back at once
\* when it fails; early and late cleanup give it back.
EarlySetup(d) == phyRefs' = [phyRefs EXCEPT ![d] = @ + 1]
PutPhy(d) == phyRefs' = [phyRefs EXCEPT ![d] = @ - 1]

\* phy_early_setup, the instance, its buffers and spi_setup. What fails here
\* gives everything back, but see ProbeNoBuffers.
ProbeAlloc(d) ==
  /\ pc[d] = "unbound" /\ allocs < MaxProbes /\ RoomInTable
  /\ allocs' = allocs + 1
  /\ own' = [own EXCEPT ![d] = allocs + 1]
  /\ mem' = [mem EXCEPT ![allocs + 1] = "live"]
  /\ dev' = [dev EXCEPT ![allocs + 1] = d]
  /\ EarlySetup(d)
  /\ pc' = [pc EXCEPT ![d] = "alloc"]
  /\ UNCHANGED <<table, devnum, users, poller, phyCon, user, unlocked>>

\* Without buffers probe ends at err_dev, which unlocks minor_lock: it is not
\* held by this probe, but maybe by another one, by a thread that died, or in
\* the middle of a section that is one action here. (If by nobody, the state
\* stays as it is.)
ProbeNoBuffers(d) ==
  /\ pc[d] = "unbound"
  /\ minorLock' = Free /\ unlocked' = TRUE
  /\ UNCHANGED <<sjaByMinor, sjaCount, inst, poller, phyCon, core, user>>

\* The end of a failing probe: the instance is freed, minor_lock unlocked. In
\* sja_by_minor its pointer stays.
ProbeFails(d) ==
  /\ mem' = [mem EXCEPT ![own[d]] = "failed"]
  /\ own' = [own EXCEPT ![d] = Null]
  /\ PutPhy(d)
  /\ pc' = [pc EXCEPT ![d] = "unbound"]
  /\ minorLock' = Free

\* Mutant: the instance gets the number after its slot.
ProbeTableNext(d) ==
  /\ pc[d] = "alloc" /\ minorLock = Free
  /\ sjaByMinor' = [sjaByMinor EXCEPT ![sjaCount] = own[d]]
  /\ devnum' = [devnum EXCEPT ![own[d]] = sjaCount + 1]
  /\ minorLock' = d
  /\ pc' = [pc EXCEPT ![d] = "phy"]
  /\ UNCHANGED <<sjaCount, mem, dev, users, poller, phyCon, allocs, own, phyRefs,
                 user, unlocked>>

\* Under minor_lock: the instance gets its minor number and its device.
ProbeTable(d) ==
  /\ pc[d] = "alloc" /\ minorLock = Free
  /\ sjaByMinor' = [sjaByMinor EXCEPT ![sjaCount] = own[d]]
  /\ devnum' = [devnum EXCEPT ![own[d]] = sjaCount]
  /\ \/ /\ minorLock' = d
        /\ pc' = [pc EXCEPT ![d] = "phy"]
        /\ UNCHANGED <<mem, own, phyRefs>>
     \/ ProbeFails(d)
  /\ UNCHANGED <<sjaCount, dev, users, poller, phyCon, allocs, user, unlocked>>

\* phy_late_setup connects the PHY handler; then there is one user.
ProbePhy(d) ==
  /\ pc[d] = "phy"
  /\ \/ /\ phyCon' = [phyCon EXCEPT ![own[d]] = TRUE]
        /\ users' = [users EXCEPT ![own[d]] = 1]
        /\ pc' = [pc EXCEPT ![d] = "run"]
        /\ UNCHANGED <<mem, own, phyRefs, minorLock>>
     \/ /\ ProbeFails(d)
        /\ UNCHANGED <<phyCon, users>>
  /\ UNCHANGED <<sjaByMinor, sjaCount, dev, devnum, poller, allocs, user, unlocked>>

\* The poll thread starts and minor_lock is unlocked, ...
ProbeDone(d) ==
  /\ poller' = [poller EXCEPT ![own[d]] = "run"]
  /\ sjaCount' = sjaCount + 1
  /\ minorLock' = Free
  /\ pc' = [pc EXCEPT ![d] = "bound"]
  /\ UNCHANGED <<mem, own, phyRefs, phyCon>>

\* Mutant: num_phys is not reset, the early cleanup follows the late one.
ProbeRunCleansTwice(d) ==
  /\ pc[d] = "run"
  /\ \/ ProbeDone(d)
     \/ /\ mem' = [mem EXCEPT ![own[d]] = "failed"]
        /\ own' = [own EXCEPT ![d] = Null]
        /\ phyRefs' = [phyRefs EXCEPT ![d] = @ - 2]
        /\ pc' = [pc EXCEPT ![d] = "unbound"]
        /\ minorLock' = Free
        /\ phyCon' = [phyCon EXCEPT ![own[d]] = FALSE]
        /\ UNCHANGED <<poller, sjaCount>>
  /\ UNCHANGED <<sjaByMinor, dev, devnum, users, allocs, user, unlocked>>

\* ... or the PHY is disconnected and probe fails.
ProbeRun(d) ==
  /\ pc[d] = "run"
  /\ \/ ProbeDone(d)
     \/ /\ ProbeFails(d)
        /\ phyCon' = [phyCon EXCEPT ![own[d]] = FALSE]
        /\ UNCHANGED <<poller, sjaCount>>
  /\ UNCHANGED <<sjaByMinor, dev, devnum, users, allocs, user, unlocked>>

ProbeStep(d) == ProbeTable(d) \/ ProbePhy(d) \/ ProbeRun(d)

-----------------------------------------------------------------------------
(* sja1105_spi_remove and sja1105_spi_shutdown                             *)

\* Until it unbinds the device is the driver core's; its drvdata is reset
\* first, so that remove and shutdown do this once.
RemoveStart(d) ==
  /\ pc[d] = "bound"
  /\ pc' = [pc EXCEPT ![d] = "stopping"]
  /\ UNCHANGED <<table, inst, poller, phyCon, allocs, own, phyRefs, user, unlocked>>

\* Mutant: kthread_stop is missing.
RemovePhyNoStop(d) ==
  /\ pc[d] = "stopping"
  /\ pc' = [pc EXCEPT ![d] = "closing"]
  /\ phyCon' = [phyCon EXCEPT ![own[d]] = FALSE]
  /\ PutPhy(d)
  /\ UNCHANGED <<table, inst, poller, allocs, own, user, unlocked>>

\* kthread_stop has waited for the poll thread's end; the PHY is let go.
RemovePhy(d) ==
  /\ pc[d] = "stopping" /\ poller[own[d]] = "exit"
  /\ pc' = [pc EXCEPT ![d] = "closing"]
  /\ phyCon' = [phyCon EXCEPT ![own[d]] = FALSE]
  /\ PutPhy(d)
  /\ UNCHANGED <<table, inst, poller, allocs, own, user, unlocked>>

RemoveClose(d) ==
  /\ pc[d] = "closing"
  /\ pc' = [pc EXCEPT ![d] = "closed"]
  /\ dev' = [dev EXCEPT ![own[d]] = NoDev]
  /\ UNCHANGED <<table, mem, devnum, users, poller, phyCon, allocs, own, phyRefs,
                 user, unlocked>>

\* The poll thread's use ends; the instance is freed if there is no other.
LastUse(d) ==
  LET o == own[d] IN
  /\ pc[d] = "closed" /\ minorLock = Free
  /\ users' = [users EXCEPT ![o] = @ - 1]
  /\ mem' = [mem EXCEPT ![o] = IF users[o] = 1 THEN "freed" ELSE @]
  /\ own' = [own EXCEPT ![d] = Null]
  /\ pc' = [pc EXCEPT ![d] = "unbound"]
  /\ UNCHANGED <<minorLock, dev, devnum, poller, phyCon, allocs, phyRefs, user,
                 unlocked>>

\* Mutant: the slot stays in the table.
RemoveLastKeepsSlot(d) ==
  /\ LastUse(d)
  /\ UNCHANGED <<sjaByMinor, sjaCount>>

\* Mutant: the last instance's number is used again.
RemoveLastReuses(d) ==
  /\ LastUse(d)
  /\ sjaByMinor' = [sjaByMinor EXCEPT ![devnum[own[d]]] = Null]
  /\ sjaCount' = IF devnum[own[d]] = sjaCount - 1 THEN sjaCount - 1 ELSE sjaCount

\* Under minor_lock the slot is emptied. Then the driver core takes the
\* device's buffers back.
RemoveLast(d) ==
  /\ LastUse(d)
  /\ sjaByMinor' = [sjaByMinor EXCEPT ![devnum[own[d]]] = Null]
  /\ UNCHANGED sjaCount

RemoveStep(d) == RemovePhy(d) \/ RemoveClose(d) \/ RemoveLast(d)

-----------------------------------------------------------------------------
(* thread_poll                                                             *)

ShouldStop(o) == \E d \in Devs : own[d] = o /\ pc[d] = "stopping"

Poller(o, from, to) ==
  /\ poller[o] = from
  /\ poller' = [poller EXCEPT ![o] = to]
  /\ UNCHANGED <<table, inst, phyCon, core, user, unlocked>>

PollBegin(o) == ~ShouldStop(o) /\ Poller(o, "run", "poll")
PollEnd(o) == Poller(o, "poll", "run")

\* Mutant: only do_poll looks for the request to stop.
PollExitBusy(o) == ShouldStop(o) /\ Poller(o, "poll", "exit")

PollExit(o) == ShouldStop(o) /\ Poller(o, "run", "exit")

-----------------------------------------------------------------------------
(* sja1105_find_by_spi, sja1105_spi_get, sja1105_spi_put and those who call *)
(* them: open, release, ioctl, prepare_egress_ptp, wait_egress_ts           *)

\* The slots at which a search for a device ends: its own, or one whose
\* instance is closed, where find_by_spi follows a NULL pointer.
Ends(d) == {m \in Minors : sjaByMinor[m] # Null /\ dev[sjaByMinor[m]] \in {d, NoDev}}

\* A search ends at the first of them, which may be the slot of a failed probe,
\* whose instance is freed memory (read as it was, see README). The thread that
\* dies at a NULL pointer keeps minor_lock.
Find(u, d) ==
  /\ upc[u] = "idle" /\ minorLock = Free
  /\ \E m \in Ends(d) :
       /\ \A n \in Ends(d) : m <= n
       /\ IF dev[sjaByMinor[m]] = NoDev
          THEN /\ upc' = [upc EXCEPT ![u] = "stuck"] /\ minorLock' = u
               /\ UNCHANGED found
          ELSE /\ found' = [found EXCEPT ![u] =
                              [dev |-> d, minor |-> m, of |-> sjaByMinor[m]]]
               /\ UNCHANGED <<upc, minorLock>>
  /\ UNCHANGED <<sjaByMinor, sjaCount, inst, poller, phyCon, core, ref, unlocked>>

\* Mutant: a user is not counted.
GetUncounted(u, m) ==
  /\ upc[u] = "idle" /\ minorLock = Free /\ sjaByMinor[m] # Null
  /\ ref' = [ref EXCEPT ![u] = sjaByMinor[m]]
  /\ upc' = [upc EXCEPT ![u] = "open"]
  /\ found' = [found EXCEPT ![u] = NotFound]
  /\ UNCHANGED <<table, inst, poller, phyCon, core, unlocked>>

\* A user gets what the table has for a minor number, found or not.
Get(u, m) ==
  /\ upc[u] = "idle" /\ minorLock = Free /\ sjaByMinor[m] # Null
  /\ ref' = [ref EXCEPT ![u] = sjaByMinor[m]]
  /\ users' = [users EXCEPT ![sjaByMinor[m]] = @ + 1]
  /\ upc' = [upc EXCEPT ![u] = "open"]
  /\ found' = [found EXCEPT ![u] = NotFound]
  /\ UNCHANGED <<table, mem, dev, devnum, poller, phyCon, core, unlocked>>

\* Mutant: the last user leaves it to remove to free the instance.
PutNeverFrees(u) ==
  /\ upc[u] \in {"open", "oops"} /\ minorLock = Free
  /\ users' = [users EXCEPT ![ref[u]] = @ - 1]
  /\ ref' = [ref EXCEPT ![u] = Null]
  /\ upc' = [upc EXCEPT ![u] = "idle"]
  /\ UNCHANGED <<table, mem, dev, devnum, poller, phyCon, core, found, unlocked>>

\* A user lets go; the last one frees an instance whose device is gone. (So
\* do the files of a thread that died.)
Put(u) ==
  LET o == ref[u] IN
  /\ upc[u] \in {"open", "oops"} /\ minorLock = Free
  /\ users' = [users EXCEPT ![o] = @ - 1]
  /\ mem' = [mem EXCEPT ![o] = IF users[o] = 1 /\ dev[o] = NoDev THEN "freed" ELSE @]
  /\ ref' = [ref EXCEPT ![u] = Null]
  /\ upc' = [upc EXCEPT ![u] = "idle"]
  /\ UNCHANGED <<table, dev, devnum, poller, phyCon, core, found, unlocked>>

\* An operation goes on when the device is there, else it ends in ESHUTDOWN.
CheckDev(u) ==
  /\ upc[u] = "open" /\ dev[ref[u]] # NoDev
  /\ upc' = [upc EXCEPT ![u] = "checked"]
  /\ UNCHANGED <<table, inst, poller, phyCon, core, ref, found, unlocked>>

\* It then reads sja->dev again for spi_sync.
UseDev(u) ==
  /\ upc[u] = "checked"
  /\ upc' = [upc EXCEPT ![u] = IF dev[ref[u]] = NoDev THEN "oops" ELSE "open"]
  /\ UNCHANGED <<table, inst, poller, phyCon, core, ref, found, unlocked>>

-----------------------------------------------------------------------------

CoreStep == \E d \in Devs : \/ ProbeAlloc(d) \/ ProbeNoBuffers(d) \/ ProbeStep(d)
                            \/ RemoveStart(d) \/ RemoveStep(d)
PollStep == \E o \in Instances : PollBegin(o) \/ PollEnd(o) \/ PollExit(o)
UserStep == \E u \in Users : \/ \E d \in Devs : Find(u, d)
                             \/ \E m \in Minors : Get(u, m)
                             \/ Put(u) \/ CheckDev(u) \/ UseDev(u)

Next == CoreStep \/ PollStep \/ UserStep

\* The kernel runs its threads on: probe and remove once begun, the poll
\* thread. Nobody has to put an instance or remove a device.
Fairness ==
  /\ \A d \in Devs : WF_vars(ProbeStep(d)) /\ WF_vars(RemoveStep(d))
  /\ \A o \in Instances : WF_vars(PollEnd(o)) /\ WF_vars(PollExit(o))

Spec == Init /\ [][Next]_vars /\ Fairness

-----------------------------------------------------------------------------
(* Properties                                                              *)

\* Every variable has its type.
TypeOK ==
  /\ sjaByMinor \in [Minors -> Instances \cup {Null}]
  /\ sjaCount \in 0..MaxChardevs /\ minorLock \in Devs \cup Users \cup {Free}
  /\ allocs \in 0..MaxProbes
  /\ mem \in [Instances -> {"none", "live", "freed", "failed"}]
  /\ dev \in [Instances -> Devs \cup {NoDev}]
  /\ devnum \in [Instances -> Minors] /\ users \in [Instances -> Int]
  /\ poller \in [Instances -> {"none", "run", "poll", "exit"}]
  /\ phyCon \in [Instances -> BOOLEAN]
  /\ pc \in [Devs -> {"unbound", "alloc", "phy", "run", "bound",
                      "stopping", "closing", "closed"}]
  /\ own \in [Devs -> Instances \cup {Null}] /\ phyRefs \in [Devs -> Int]
  /\ upc \in [Users -> {"idle", "open", "checked", "oops", "stuck"}]
  /\ ref \in [Users -> Instances \cup {Null}]
  /\ found \in [Users -> [dev : Devs \cup {NoDev}, minor : Minors,
                        of : Instances \cup {Null}]]
  /\ unlocked \in BOOLEAN

Held(o) == (\E d \in Devs : own[d] = o) \/ (\E u \in Users : ref[u] = o)

\* Nobody holds an instance that was freed, in whatever order it is opened,
\* removed and released: the driver core, which reads it up to the end of
\* remove, nor a user. Excused are the instances of failing probes, whose
\* pointers stay in sja_by_minor, and what follows when such a probe unlocked
\* minor_lock under another.
NoUseAfterFree ==
  ~unlocked => \A o \in Instances : mem[o] = "freed" => ~Held(o)

\* An instance that nobody holds any more has been freed: remove and the last
\* put do not leave that to each other.
NoLeak ==
  ~unlocked => \A o \in Instances : mem[o] = "live" => Held(o)

\* The poll thread and the PHY handler only run on an instance that is there,
\* has its device and is bound (so that its buffers are there): they start
\* late enough in probe and end early enough in remove.
DriverThreadsSafe ==
  \A o \in Instances :
    (poller[o] \in {"run", "poll"} \/ phyCon[o]) =>
      /\ mem[o] = "live" /\ dev[o] # NoDev
      /\ \E d \in Devs : own[d] = o

\* sja_by_minor leads to instances that are bound or being bound, and to that
\* of a failed probe in the next slot only: there the next probe replaces it.
TableLive ==
  ~unlocked =>
    \A m \in Minors : sjaByMinor[m] # Null =>
      \/ \E d \in Devs : own[d] = sjaByMinor[m]
      \/ mem[sjaByMinor[m]] = "failed" /\ m = sjaCount

\* A minor number that find_by_spi returned leads to the instance it was found
\* for, or to none, whenever it is used later: it is not given to another switch,
\* nor to the same one bound anew. Excused is a number found by the pointer that
\* a failed probe left in the table: the next probe gets that slot, for whatever
\* device.
FoundMinorStays ==
  ~unlocked =>
    \A u \in Users :
      (found[u] # NotFound /\ mem[found[u].of] # "failed") =>
        /\ sjaByMinor[found[u].minor] \in {found[u].of, Null}
        /\ dev[found[u].of] \in {found[u].dev, NoDev}

\* References on the PHY are given back exactly once on every way out of
\* probe, whose two kinds of setup have two kinds of cleanup, and by remove.
PhyBalanced ==
  \A d \in Devs :
    phyRefs[d] = (IF pc[d] \in {"unbound", "closing", "closed"} THEN 0 ELSE 1)

\* A remove ends, although it waits for the poll thread and for minor_lock,
\* unless a thread died in find_by_spi and keeps the latter.
RemoveEnds ==
  \A d \in Devs : (pc[d] = "stopping") ~>
                  (pc[d] = "unbound" \/ \E u \in Users : upc[u] = "stuck")

\* "make sure ops on existing fds can abort cleanly" (remove): no operation
\* follows a NULL device.
AbortsCleanly == \A u \in Users : upc[u] # "oops"

=============================================================================
