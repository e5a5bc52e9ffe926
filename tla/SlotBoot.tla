------------------------------ MODULE SlotBoot ------------------------------
(***************************************************************************)
(* The A/B boot of Dom0: U-Boot's "aos" command variables of               *)
(* doc/u-boot-env.txt, the environment file uEnv.txt they keep on the      *)
(* FAT partition mmc 0:3, and the dual-partition update module of the      *)
(* update manager that rewrites that file from Linux (external: modelled   *)
(* from its configuration, aos_updatemanager.cfg).                         *)
(*                                                                         *)
(* One U-Boot command that touches RAM or storage is one action, so that   *)
(* the board can lose power between any two of them and in the middle of   *)
(* a write of the file.                                                    *)
(***************************************************************************)
EXTENDS Naturals, Sequences

CONSTANTS
  MaxFaults,    (* power cuts and failing writes a behaviour may contain *)
  MaxInstalls   (* updates the update manager may install                *)

ASSUME BoundsAreNat == MaxFaults \in Nat /\ MaxInstalls \in Nat

VARIABLES
  image,     (* what each boot partition holds                            *)
  file,      (* uEnv.txt, or NoFile when U-Boot cannot load it            *)
  env,       (* the same variables in U-Boot's RAM                        *)
  pc,        (* how far the board is                                      *)
  slot,      (* aos_boot_slot: the partition bootcmd_mmc0 loads from      *)
  order,     (* the aos_boot commands aos_bootcmd has yet to run          *)
  last,      (* history: the slot U-Boot last decided to start            *)
  lastOk,    (* history: was that slot marked good since                  *)
  recorded,  (* history: is that decision recorded in uEnv.txt            *)
  lost,      (* history: recorded boots that came to nothing since a good *)
             (* slot ran, a fault or an update                            *)
  faults, installs

vars == <<image, file, env, pc, slot, order, last, lastOk, recorded, lost,
          faults, installs>>

Slots == 1..2

\* Mutant: the other slot of a numbering that starts at 0.
OtherFromZero(s) == 1 - s
Other(s) == 3 - s

(***************************************************************************)
(* A good image runs, one that hangs starts its kernel and dies before it  *)
(* is marked good, and bootm returns from one that cannot be loaded.       *)
(***************************************************************************)
Images == {"good", "hangs", "unloadable"}

NoFile == [none |-> TRUE]
EnvVars == [main : Slots, ok : [Slots -> {0, 1}], part : Slots]
Readable(f) == f \in EnvVars

\* aos_default_vars. aos_boot_main and aos_boot_part count from 0 in the
\* file, the slots from 1: both are kept as slots here.
Defaults == [main |-> 1, ok |-> [s \in Slots |-> 1], part |-> 1]

UBoot == {"read", "create", "select", "try", "save", "bootm"}
Linux == {"run", "confirmed", "staged"}
PCs == UBoot \cup Linux \cup {"off", "prompt"}

Up == pc \in Linux /\ image[slot] = "good"
GoodSlotExists == \E s \in Slots : image[s] = "good"

Fault == /\ faults < MaxFaults
         /\ faults' = faults + 1
         /\ lost' = 0

(***************************************************************************)
(* A board leaves the factory with a bootable first slot. The second may   *)
(* hold anything, and uEnv.txt need not exist yet.                         *)
(***************************************************************************)
Init ==
  /\ image \in {i \in [Slots -> Images] : i[1] = "good"}
  /\ file \in {NoFile, Defaults}
  /\ env = Defaults /\ slot = 1 /\ order = <<>>
  /\ pc = "off"
  /\ last = 1 /\ lastOk = TRUE /\ recorded = FALSE
  /\ lost = 0 /\ faults = 0 /\ installs = 0

-----------------------------------------------------------------------------
(* U-Boot                                                                  *)

PowerOn ==
  /\ pc = "off"
  /\ pc' = "read"
  /\ UNCHANGED <<image, file, env, slot, order, last, lastOk, recorded, lost,
                 faults, installs>>

\* Mutant: the import only brings aos_boot_main, the flags keep their default.
ReadMainOnly ==
  /\ pc = "read"
  /\ IF Readable(file)
     THEN env' = [Defaults EXCEPT !.main = file.main] /\ pc' = "select"
     ELSE env' = Defaults /\ pc' = "create"
  /\ UNCHANGED <<image, file, slot, order, last, lastOk, recorded, lost,
                 faults, installs>>

\* aos_read_vars: the defaults, and over them the file when it loads.
ReadVars ==
  /\ pc = "read"
  /\ IF Readable(file)
     THEN env' = file /\ pc' = "select"
     ELSE env' = Defaults /\ pc' = "create"
  /\ UNCHANGED <<image, file, slot, order, last, lastOk, recorded, lost,
                 faults, installs>>

\* aos_save_vars succeeds; the command that ran it goes on at next.
SaveVars(next) ==
  /\ file' = env
  /\ pc' = next
  /\ UNCHANGED <<image, env, slot, order, lost, faults, installs>>

\* fatwrite reports an error and leaves the file; nothing tests its result.
SaveFails(next) ==
  /\ Fault
  /\ pc' = next
  /\ UNCHANGED <<image, file, env, slot, order, installs>>

\* The else branch of aos_read_vars writes the file that was missing.
CreateFile ==
  /\ pc = "create"
  /\ SaveVars("select") \/ SaveFails("select")
  /\ UNCHANGED <<last, lastOk, recorded>>

\* Mutant: no second command after the one of the main slot.
SelectMainOnly ==
  /\ pc = "select"
  /\ order' = <<env.main>>
  /\ pc' = "try"
  /\ UNCHANGED <<image, file, env, slot, last, lastOk, recorded, lost, faults,
                 installs>>

\* aos_bootcmd: the main slot first, then the other one.
SelectOrder ==
  /\ pc = "select"
  /\ order' = <<env.main, Other(env.main)>>
  /\ pc' = "try"
  /\ UNCHANGED <<image, file, env, slot, last, lastOk, recorded, lost, faults,
                 installs>>

\* Mutant: the slot that is tried keeps its own flag.
TryKeepsOwnFlag ==
  /\ pc = "try" /\ order # <<>>
  /\ env.ok[Head(order)] = 1
  /\ slot' = Head(order)
  /\ env' = [env EXCEPT !.ok[Other(slot')] = 1, !.part = slot']
  /\ order' = Tail(order)
  /\ pc' = "save"
  /\ UNCHANGED <<image, file, last, lastOk, recorded, lost, faults, installs>>

\* Mutant: the other slot does not get its flag back.
TryKeepsOtherFlag ==
  /\ pc = "try" /\ order # <<>>
  /\ env.ok[Head(order)] = 1
  /\ slot' = Head(order)
  /\ env' = [env EXCEPT !.ok[slot'] = 0, !.part = slot']
  /\ order' = Tail(order)
  /\ pc' = "save"
  /\ UNCHANGED <<image, file, last, lastOk, recorded, lost, faults, installs>>

\* Mutant: aos_boot_part is not set.
TryKeepsPart ==
  /\ pc = "try" /\ order # <<>>
  /\ env.ok[Head(order)] = 1
  /\ slot' = Head(order)
  /\ env' = [env EXCEPT !.ok = [@ EXCEPT ![slot'] = 0, ![Other(slot')] = 1]]
  /\ order' = Tail(order)
  /\ pc' = "save"
  /\ UNCHANGED <<image, file, last, lastOk, recorded, lost, faults, installs>>

\* aos_boot1 and aos_boot2 up to their save: the slot gives up its own flag
\* and gives the other slot its flag back.
TrySlot ==
  /\ pc = "try" /\ order # <<>>
  /\ env.ok[Head(order)] = 1
  /\ slot' = Head(order)
  /\ env' = [env EXCEPT !.ok = [@ EXCEPT ![slot'] = 0, ![Other(slot')] = 1],
                        !.part = slot']
  /\ order' = Tail(order)
  /\ pc' = "save"
  /\ UNCHANGED <<image, file, last, lastOk, recorded, lost, faults, installs>>

SkipSlot ==
  /\ pc = "try" /\ order # <<>>
  /\ env.ok[Head(order)] # 1
  /\ order' = Tail(order)
  /\ UNCHANGED <<image, file, env, pc, slot, last, lastOk, recorded, lost,
                 faults, installs>>

\* Both commands returned: U-Boot falls to its prompt.
GiveUp ==
  /\ pc = "try" /\ order = <<>>
  /\ pc' = "prompt"
  /\ UNCHANGED <<image, file, env, slot, order, last, lastOk, recorded, lost,
                 faults, installs>>

SaveTry ==
  /\ pc = "save"
  /\ \/ SaveVars("bootm") /\ recorded' = TRUE
     \/ SaveFails("bootm") /\ recorded' = FALSE
  /\ last' = slot /\ lastOk' = FALSE

\* bootcmd_mmc0: bootm only returns when it cannot start the image.
Bootm ==
  /\ pc = "bootm"
  /\ pc' = IF image[slot] = "unloadable" THEN "try" ELSE "run"
  /\ lost' = IF image[slot] = "good" THEN 0 ELSE lost
  /\ UNCHANGED <<image, file, env, slot, order, last, lastOk, recorded, faults,
                 installs>>

-----------------------------------------------------------------------------
(* The update manager in the booted system (external)                      *)

\* It marks the slot the file says it runs from as good, and when that is
\* not the main slot (an update was rejected) may make it the main slot.
ConfirmBoot ==
  /\ Up /\ pc = "run" /\ Readable(file)
  /\ \E m \in {file.main, file.part} :
       file' = [file EXCEPT !.ok[file.part] = 1, !.main = m]
  /\ lastOk' = (lastOk \/ file.part = slot)
  /\ pc' = "confirmed"
  /\ UNCHANGED <<image, env, slot, order, last, recorded, lost, faults,
                 installs>>

\* Mutant: it writes it to the slot that is not the main one.
InstallBesideMain ==
  /\ Up /\ pc = "confirmed" /\ installs < MaxInstalls
  /\ \E i \in Images : image' = [image EXCEPT ![Other(file.main)] = i]
  /\ installs' = installs + 1
  /\ lost' = 0
  /\ pc' = "staged"
  /\ UNCHANGED <<file, env, slot, order, last, lastOk, recorded, faults>>

\* It writes an update to the slot the file says it does not run from.
InstallUpdate ==
  /\ Up /\ pc = "confirmed" /\ installs < MaxInstalls
  /\ \E i \in Images : image' = [image EXCEPT ![Other(file.part)] = i]
  /\ installs' = installs + 1
  /\ lost' = 0
  /\ pc' = "staged"
  /\ UNCHANGED <<file, env, slot, order, last, lastOk, recorded, faults>>

\* It makes the updated slot the main one and restarts the board.
ActivateUpdate ==
  /\ Up /\ pc = "staged"
  /\ LET target == Other(file.part)
     IN file' = [file EXCEPT !.main = target, !.ok[target] = 1]
  /\ pc' = "off"
  /\ UNCHANGED <<image, env, slot, order, last, lastOk, recorded, lost,
                 faults, installs>>

-----------------------------------------------------------------------------
(* The world                                                               *)

\* A watchdog, or whoever stands by, restarts a board that is dead or at
\* the prompt.
Restart ==
  /\ pc = "prompt" \/ (pc \in Linux /\ ~Up)
  /\ pc' = "off"
  /\ lost' = IF GoodSlotExists /\ recorded /\ lost < 3 THEN lost + 1 ELSE lost
  /\ UNCHANGED <<image, file, env, slot, order, last, lastOk, recorded,
                 faults, installs>>

\* A running system is restarted by its user or by the update manager.
Reboot ==
  /\ Up
  /\ pc' = "off"
  /\ UNCHANGED <<image, file, env, slot, order, last, lastOk, recorded, lost,
                 faults, installs>>

\* Power is lost. A write of uEnv.txt that was under way leaves a file that
\* cannot be loaded.
Writing == pc \in {"create", "save"} \/ Up

PowerCut ==
  /\ pc # "off"
  /\ Fault
  /\ pc' = "off"
  /\ \/ UNCHANGED <<file, recorded>>
     \/ Writing /\ file' = NoFile /\ recorded' = FALSE
  /\ UNCHANGED <<image, env, slot, order, last, lastOk, installs>>

UBootStep == \/ PowerOn \/ ReadVars \/ CreateFile \/ SelectOrder
             \/ TrySlot \/ SkipSlot \/ GiveUp \/ SaveTry \/ Bootm

UpdateStep == ConfirmBoot \/ InstallUpdate \/ ActivateUpdate

Next == UBootStep \/ UpdateStep \/ Restart \/ Reboot \/ PowerCut

(***************************************************************************)
(* U-Boot runs its commands to the end, and a dead board is restarted.     *)
(* Nothing is assumed of the update manager or of the faults.              *)
(***************************************************************************)
Fairness == WF_vars(UBootStep) /\ WF_vars(Restart)

Spec == Init /\ [][Next]_vars /\ Fairness

-----------------------------------------------------------------------------
(* Properties                                                              *)

\* Every variable has its type.
TypeOK ==
  /\ image \in [Slots -> Images]
  /\ file \in EnvVars \cup {NoFile}
  /\ env \in EnvVars
  /\ pc \in PCs
  /\ slot \in Slots /\ last \in Slots
  /\ order \in Seq(Slots) /\ Len(order) <= 2
  /\ lastOk \in BOOLEAN /\ recorded \in BOOLEAN
  /\ lost \in 0..3 /\ faults \in 0..MaxFaults /\ installs \in 0..MaxInstalls

\* Whatever is on the card, one of the two slots may still be tried: the
\* board is never shut out of both (the flags change places in aos_boot1 and
\* aos_boot2, and no torn or failing write may leave both clear).
NeverShutOut ==
  Readable(file) => \E s \in Slots : file.ok[s] = 1

\* U-Boot does not try a slot again that it tried last and that nobody marked
\* good since, as long as that try is on record: a slot that dies cannot
\* keep the board in a loop, whatever is in between (restarts, power cuts,
\* the update manager's own writes of the file).
NoSecondTry ==
  [][(pc = "try" /\ pc' = "save" /\ recorded /\ slot' = last) => lastOk]_vars

\* While the running system was started from a recorded try, no update is
\* written over the slot it runs from: the aos_boot_part that U-Boot saved is
\* the slot U-Boot started.
RunningSlotUntouched ==
  [][(pc \in Linux /\ recorded) => (image'[slot] = image[slot])]_vars

(***************************************************************************)
(* A slot runs from bootm on; it is the suspect while its recorded try is  *)
(* not marked good.                                                        *)
(***************************************************************************)
running == IF pc \in Linux \cup {"bootm"} THEN slot ELSE 0
suspect == IF recorded /\ ~lastOk THEN last ELSE 0

Failover == INSTANCE Failover WITH None <- 0, known <- recorded

\* U-Boot's flags and the update manager's writes of them are an A/B boot: a
\* suspect slot is not started before the other one was, and nothing but a
\* stopped slot, or one of no record, is written.
ImplementsFailover == Failover!Spec

\* While one slot is good, at most one boot on record comes to nothing before
\* a good slot runs: the second boot always goes to the other slot.
OneLostBoot == lost <= 1

\* A board that has a good slot gets to run one, whatever was lost before.
GoodSlotRuns == []<>(GoodSlotExists => Up)

=============================================================================
