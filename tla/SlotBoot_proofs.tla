-------------------------- MODULE SlotBoot_proofs --------------------------
(***************************************************************************)
(* What SlotBoot guarantees for any number of faults and of updates.       *)
(*                                                                         *)
(* NeverShutOut and NoSecondTry are not inductive: the file U-Boot reads   *)
(* is one it wrote from RAM some restarts ago.  IInv says what the RAM     *)
(* copy and the file owe to the last try at each point of a boot.          *)
(* BootInv adds the order in which slots are tried, for OneLostBoot.       *)
(***************************************************************************)
EXTENDS SlotBoot, TLAPS

\* A flag set that leaves a slot to try.
OpenFlags(e) == e.ok[1] = 1 \/ e.ok[2] = 1

\* The RAM variables while aos_boot1 or aos_boot2 saves and runs bootm.
EnvInv ==
  /\ OpenFlags(env)
  /\ pc \in {"save", "bootm"} => env.ok[slot] = 0 /\ env.part = slot
  /\ pc \in {"select", "try"} /\ recorded /\ ~lastOk => env.ok[last] = 0

\* uEnv.txt: open, and while the last try is on record it shows that try.
FileInv ==
  /\ Readable(file) => OpenFlags(file)
  /\ recorded => Readable(file) /\ file.part = last
  /\ recorded /\ ~lastOk => file.ok[last] = 0
  /\ pc = "create" => ~Readable(file)
  /\ pc \in {"confirmed", "staged"} => Readable(file)

\* The slot that runs, or is about to, is the one tried last.
SlotInv == pc \in Linux \cup {"bootm"} => last = slot

IInv == TypeOK /\ EnvInv /\ FileInv /\ SlotInv

-----------------------------------------------------------------------------
\* The two slots are each other's other slot.
LEMMA OtherSlot ==
  \A s \in Slots : Other(s) \in Slots /\ Other(s) # s
  BY DEF Slots, Other

\* A file that cannot be loaded is not a set of variables.
LEMMA NoFileUnreadable == ~Readable(NoFile)
<1>1. SUFFICES ASSUME NoFile \in EnvVars PROVE FALSE
  BY DEF Readable
<1>2. DOMAIN NoFile = {"none"}
  BY DEF NoFile
<1>3. DOMAIN NoFile = {"main", "ok", "part"}
  BY <1>1 DEF EnvVars
<1>4. QED
  BY <1>2, <1>3

\* The defaults leave both slots to try.
LEMMA DefaultsTyped == Defaults \in EnvVars /\ OpenFlags(Defaults)
  BY DEF Defaults, EnvVars, Slots, OpenFlags

LEMMA InitIInv == Init => IInv
<1> SUFFICES ASSUME Init PROVE IInv
  OBVIOUS
<1>1. TypeOK
  <2>1. image \in [Slots -> Images]
    BY DEF Init
  <2>2. order \in Seq(Slots) /\ Len(order) <= 2
    BY DEF Init
  <2>3. file \in EnvVars \cup {NoFile} /\ env \in EnvVars
    BY DefaultsTyped DEF Init
  <2>4. pc \in PCs /\ slot \in Slots /\ last \in Slots
    BY DEF Init, PCs, Slots
  <2>5. lastOk \in BOOLEAN /\ recorded \in BOOLEAN
    BY Zenon DEF Init
  <2>6. lost \in 0..3 /\ faults \in 0..MaxFaults /\ installs \in 0..MaxInstalls
    BY BoundsAreNat DEF Init
  <2>7. QED
    BY <2>1, <2>2, <2>3, <2>4, <2>5, <2>6 DEF TypeOK
<1>2. EnvInv
  BY DefaultsTyped DEF Init, EnvInv
<1>3. FileInv
  BY DefaultsTyped, NoFileUnreadable DEF Init, FileInv
<1>4. SlotInv
  BY DEF Init, SlotInv
<1>5. QED
  BY <1>1, <1>2, <1>3, <1>4 DEF IInv

\* The invariant holds through every step.
LEMMA NextIInv == IInv /\ [Next]_vars => IInv'
<1> SUFFICES ASSUME IInv, [Next]_vars PROVE IInv'
  OBVIOUS
<1> USE OtherSlot, NoFileUnreadable, DefaultsTyped, BoundsAreNat
<1>1. CASE PowerOn
  <2>1. TypeOK'
    BY <1>1 DEF IInv, TypeOK, PCs, UBoot, PowerOn
  <2>2. EnvInv'
    BY <1>1 DEF IInv, EnvInv, PowerOn
  <2>3. FileInv'
    BY <1>1 DEF IInv, FileInv, PowerOn
  <2>4. SlotInv'
    BY <1>1 DEF SlotInv, Linux, PowerOn
  <2>5. QED
    BY <2>1, <2>2, <2>3, <2>4 DEF IInv
<1>2. CASE ReadVars
  <2>1. TypeOK'
    BY <1>2 DEF IInv, TypeOK, PCs, UBoot, ReadVars
  <2>2. EnvInv'
    BY <1>2 DEF IInv, EnvInv, FileInv, ReadVars
  <2>3. FileInv'
    BY <1>2 DEF IInv, FileInv, ReadVars
  <2>4. SlotInv'
    BY <1>2 DEF SlotInv, Linux, ReadVars
  <2>5. QED
    BY <2>1, <2>2, <2>3, <2>4 DEF IInv
<1>3. CASE CreateFile
  <2>1. TypeOK'
    BY <1>3 DEF IInv, TypeOK, PCs, UBoot, CreateFile, SaveVars, SaveFails, Fault
  <2>2. EnvInv'
    BY <1>3 DEF IInv, EnvInv, FileInv, CreateFile, SaveVars, SaveFails
  <2>3. FileInv'
    BY <1>3 DEF IInv, EnvInv, FileInv, CreateFile, SaveVars, SaveFails
  <2>4. SlotInv'
    BY <1>3 DEF SlotInv, Linux, CreateFile, SaveVars, SaveFails
  <2>5. QED
    BY <2>1, <2>2, <2>3, <2>4 DEF IInv
<1>4. CASE SelectOrder
  <2>1. TypeOK'
    BY <1>4 DEF IInv, TypeOK, EnvVars, PCs, UBoot, SelectOrder
  <2>2. EnvInv'
    BY <1>4 DEF IInv, EnvInv, SelectOrder
  <2>3. FileInv'
    BY <1>4 DEF IInv, FileInv, SelectOrder
  <2>4. SlotInv'
    BY <1>4 DEF SlotInv, Linux, SelectOrder
  <2>5. QED
    BY <2>1, <2>2, <2>3, <2>4 DEF IInv
<1>5. CASE TrySlot
  <2>1. TypeOK'
    <3>1. slot' \in Slots /\ order' \in Seq(Slots) /\ Len(order') <= 2
      BY <1>5 DEF IInv, TypeOK, TrySlot
    <3>2. [env.ok EXCEPT ![slot'] = 0, ![Other(slot')] = 1] \in [Slots -> {0, 1}]
      BY <3>1 DEF IInv, TypeOK, EnvVars
    <3>3. env' \in EnvVars
      BY <1>5, <3>1, <3>2 DEF IInv, TypeOK, EnvVars, TrySlot
    <3>4. QED
      BY <1>5, <3>1, <3>3 DEF IInv, TypeOK, PCs, UBoot, TrySlot
  <2>2. EnvInv'
    BY <1>5 DEF IInv, TypeOK, EnvVars, EnvInv, OpenFlags, Slots, TrySlot
  <2>3. FileInv'
    BY <1>5 DEF IInv, FileInv, TrySlot
  <2>4. SlotInv'
    BY <1>5 DEF SlotInv, Linux, TrySlot
  <2>5. QED
    BY <2>1, <2>2, <2>3, <2>4 DEF IInv
<1>6. CASE SkipSlot
  <2>1. TypeOK'
    BY <1>6 DEF IInv, TypeOK, SkipSlot
  <2>2. EnvInv'
    BY <1>6 DEF IInv, EnvInv, SkipSlot
  <2>3. FileInv'
    BY <1>6 DEF IInv, FileInv, SkipSlot
  <2>4. SlotInv'
    BY <1>6 DEF IInv, SlotInv, SkipSlot
  <2>5. QED
    BY <2>1, <2>2, <2>3, <2>4 DEF IInv
<1>7. CASE GiveUp
  <2>1. TypeOK'
    BY <1>7 DEF IInv, TypeOK, PCs, GiveUp
  <2>2. EnvInv'
    BY <1>7 DEF IInv, EnvInv, GiveUp
  <2>3. FileInv'
    BY <1>7 DEF IInv, FileInv, GiveUp
  <2>4. SlotInv'
    BY <1>7 DEF SlotInv, Linux, GiveUp
  <2>5. QED
    BY <2>1, <2>2, <2>3, <2>4 DEF IInv
<1>8. CASE SaveTry
  <2>1. TypeOK'
    <3>1. lastOk' \in BOOLEAN /\ recorded' \in BOOLEAN
      BY <1>8, Zenon DEF SaveTry
    <3>2. QED
      BY <1>8, <3>1 DEF IInv, TypeOK, PCs, UBoot, SaveTry, SaveVars, SaveFails, Fault
  <2>2. EnvInv'
    BY <1>8 DEF IInv, EnvInv, SaveTry, SaveVars, SaveFails
  <2>3. FileInv'
    BY <1>8 DEF IInv, TypeOK, EnvInv, FileInv, Readable, SaveTry, SaveVars, SaveFails
  <2>4. SlotInv'
    BY <1>8 DEF SlotInv, SaveTry, SaveVars, SaveFails
  <2>5. QED
    BY <2>1, <2>2, <2>3, <2>4 DEF IInv
<1>9. CASE Bootm
  <2>1. TypeOK'
    BY <1>9 DEF IInv, TypeOK, PCs, UBoot, Linux, Bootm
  <2>2. EnvInv'
    BY <1>9 DEF IInv, EnvInv, SlotInv, Bootm
  <2>3. FileInv'
    BY <1>9 DEF IInv, FileInv, Bootm
  <2>4. SlotInv'
    BY <1>9 DEF IInv, SlotInv, Bootm
  <2>5. QED
    BY <2>1, <2>2, <2>3, <2>4 DEF IInv
<1>10. CASE ConfirmBoot
  <2>1. TypeOK'
    <3>1. lastOk' \in BOOLEAN /\ recorded' \in BOOLEAN
      <4>1. lastOk' = (lastOk \/ file.part = slot) /\ recorded' = recorded
        BY <1>10 DEF ConfirmBoot
      <4>2. QED
        BY <4>1, Zenon DEF IInv, TypeOK
    <3>2. file' \in EnvVars
      <4>1. PICK m \in {file.main, file.part} :
              file' = [file EXCEPT !.ok[file.part] = 1, !.main = m]
        BY <1>10 DEF ConfirmBoot
      <4>2. QED
        BY <1>10, <4>1 DEF ConfirmBoot, Readable, EnvVars
    <3>3. QED
      BY <1>10, <3>1, <3>2 DEF IInv, TypeOK, PCs, Linux, ConfirmBoot
  <2>2. EnvInv'
    BY <1>10 DEF IInv, EnvInv, ConfirmBoot
  <2>3. FileInv'
    <3>1. PICK m \in {file.main, file.part} :
            file' = [file EXCEPT !.ok[file.part] = 1, !.main = m]
      BY <1>10 DEF ConfirmBoot
    <3>2. /\ file \in EnvVars /\ file' \in EnvVars
          /\ file'.part = file.part /\ file'.ok[file.part] = 1
      BY <1>10, <3>1 DEF ConfirmBoot, Readable, EnvVars
    <3>3. Readable(file') /\ OpenFlags(file')
      BY <3>2 DEF Readable, OpenFlags, EnvVars, Slots
    <3>4. recorded' => file'.part = last'
      BY <1>10, <3>2 DEF IInv, FileInv, ConfirmBoot
    <3>5. recorded' => lastOk'
      BY <1>10, Zenon DEF IInv, FileInv, SlotInv, Linux, ConfirmBoot
    <3>6. pc' = "confirmed"
      BY <1>10 DEF ConfirmBoot
    <3>7. QED
      BY <3>3, <3>4, <3>5, <3>6 DEF FileInv
  <2>4. SlotInv'
    BY <1>10 DEF IInv, SlotInv, Linux, ConfirmBoot
  <2>5. QED
    BY <2>1, <2>2, <2>3, <2>4 DEF IInv
<1>11. CASE InstallUpdate
  <2>1. TypeOK'
    BY <1>11 DEF IInv, TypeOK, EnvVars, FileInv, PCs, Linux, InstallUpdate
  <2>2. EnvInv'
    BY <1>11 DEF IInv, EnvInv, InstallUpdate
  <2>3. FileInv'
    BY <1>11 DEF IInv, FileInv, InstallUpdate
  <2>4. SlotInv'
    BY <1>11 DEF IInv, SlotInv, Linux, InstallUpdate
  <2>5. QED
    BY <2>1, <2>2, <2>3, <2>4 DEF IInv
<1>12. CASE ActivateUpdate
  <2>1. TypeOK'
    BY <1>12 DEF IInv, TypeOK, EnvVars, FileInv, PCs, ActivateUpdate
  <2>2. EnvInv'
    BY <1>12 DEF IInv, EnvInv, ActivateUpdate
  <2>3. FileInv'
    <3> DEFINE target == Other(file.part)
    <3>1. file \in EnvVars /\ target \in Slots /\ target # file.part
      BY <1>12 DEF IInv, FileInv, Readable, EnvVars, ActivateUpdate
    <3>2. file' = [file EXCEPT !.main = target, !.ok[target] = 1]
      BY <1>12 DEF ActivateUpdate
    <3>3. /\ file' \in EnvVars /\ file'.part = file.part
          /\ file'.ok[target] = 1 /\ file'.ok[file.part] = file.ok[file.part]
      BY <3>1, <3>2 DEF EnvVars
    <3>4. Readable(file') /\ OpenFlags(file')
      BY <3>1, <3>3 DEF Readable, OpenFlags, Slots
    <3>5. recorded' = recorded /\ lastOk' = lastOk /\ last' = last /\ pc' = "off"
      BY <1>12 DEF ActivateUpdate
    <3>6. QED
      BY <3>3, <3>4, <3>5 DEF IInv, FileInv
  <2>4. SlotInv'
    BY <1>12 DEF SlotInv, Linux, ActivateUpdate
  <2>5. QED
    BY <2>1, <2>2, <2>3, <2>4 DEF IInv
<1>13. CASE Restart
  <2>1. TypeOK'
    BY <1>13 DEF IInv, TypeOK, PCs, Restart
  <2>2. EnvInv'
    BY <1>13 DEF IInv, EnvInv, Restart
  <2>3. FileInv'
    BY <1>13 DEF IInv, FileInv, Restart
  <2>4. SlotInv'
    BY <1>13 DEF SlotInv, Linux, Restart
  <2>5. QED
    BY <2>1, <2>2, <2>3, <2>4 DEF IInv
<1>14. CASE Reboot
  <2>1. TypeOK'
    BY <1>14 DEF IInv, TypeOK, PCs, Reboot
  <2>2. EnvInv'
    BY <1>14 DEF IInv, EnvInv, Reboot
  <2>3. FileInv'
    BY <1>14 DEF IInv, FileInv, Reboot
  <2>4. SlotInv'
    BY <1>14 DEF SlotInv, Linux, Reboot
  <2>5. QED
    BY <2>1, <2>2, <2>3, <2>4 DEF IInv
<1>15. CASE PowerCut
  <2>1. TypeOK'
    <3>1. lastOk' \in BOOLEAN /\ recorded' \in BOOLEAN
      BY <1>15, Zenon DEF IInv, TypeOK, PowerCut
    <3>2. file' \in EnvVars \cup {NoFile}
      BY <1>15 DEF IInv, TypeOK, PowerCut
    <3>3. QED
      BY <1>15, <3>1, <3>2 DEF IInv, TypeOK, PCs, PowerCut, Fault
  <2>2. EnvInv'
    BY <1>15 DEF IInv, EnvInv, PowerCut
  <2>3. FileInv'
    BY <1>15 DEF IInv, FileInv, PowerCut
  <2>4. SlotInv'
    BY <1>15 DEF SlotInv, Linux, PowerCut
  <2>5. QED
    BY <2>1, <2>2, <2>3, <2>4 DEF IInv
<1>16. CASE UNCHANGED vars
  BY <1>16 DEF vars, IInv, TypeOK, EnvInv, FileInv, SlotInv
<1>17. QED
  BY <1>1, <1>2, <1>3, <1>4, <1>5, <1>6, <1>7, <1>8, <1>9, <1>10, <1>11, <1>12, <1>13,
     <1>14, <1>15, <1>16 DEF Next, UBootStep, UpdateStep

LEMMA Inductive == Spec => []IInv
<1>1. QED
  BY InitIInv, NextIInv, PTL DEF Spec

-----------------------------------------------------------------------------
\* Every variable keeps its type, for any bounds.
THEOREM TypeCorrect == Spec => []TypeOK
<1>1. IInv => TypeOK
  BY DEF IInv
<1>2. QED
  BY <1>1, Inductive, PTL

\* However many writes of uEnv.txt fail or tear and whatever the update
\* manager does to it, a file U-Boot can load leaves a slot to try.
THEOREM NotShutOut == Spec => []NeverShutOut
<1>1. IInv => NeverShutOut
  BY DEF IInv, FileInv, OpenFlags, NeverShutOut, Slots
<1>2. QED
  BY <1>1, Inductive, PTL

\* A try on record that nobody marked good is never followed by a try of the
\* same slot.
THEOREM TriesAlternate == Spec => NoSecondTry
<1>1. IInv /\ [Next]_vars =>
        [(pc = "try" /\ pc' = "save" /\ recorded /\ slot' = last) => lastOk]_vars
  <2> SUFFICES ASSUME IInv, [Next]_vars, pc = "try", pc' = "save",
                      recorded, slot' = last
               PROVE  lastOk
    OBVIOUS
  <2>1. TrySlot
    BY DEF Next, UBootStep, UpdateStep, vars, PowerOn, ReadVars, CreateFile,
       SelectOrder, SkipSlot, GiveUp, SaveTry, Bootm, ConfirmBoot, InstallUpdate,
       ActivateUpdate, Restart, Reboot, PowerCut
  <2>2. env.ok[last] = 1
    BY <2>1 DEF TrySlot
  <2>3. QED
    BY <2>2 DEF IInv, EnvInv
<1>2. QED
  BY <1>1, Inductive, PTL DEF Spec, NoSecondTry

\* A system started from a try on record is not overwritten while it runs.
THEOREM RunningSlotSafe == Spec => RunningSlotUntouched
<1>1. IInv /\ [Next]_vars =>
        [(pc \in Linux /\ recorded) => (image'[slot] = image[slot])]_vars
  <2> SUFFICES ASSUME IInv, [Next]_vars, pc \in Linux, recorded
               PROVE  image'[slot] = image[slot]
    OBVIOUS
  <2>1. CASE InstallUpdate
    <3>1. file.part = slot
      BY DEF IInv, FileInv, SlotInv
    <3>2. Other(file.part) # slot
      BY <3>1, OtherSlot DEF IInv, TypeOK
    <3>3. QED
      BY <2>1, <3>2 DEF InstallUpdate
  <2>2. CASE ~InstallUpdate
    <3>1. image' = image
      BY <2>2 DEF Next, UBootStep, UpdateStep, vars, PowerOn, ReadVars, CreateFile,
         SelectOrder, TrySlot, SkipSlot, GiveUp, SaveTry, SaveVars, SaveFails, Bootm,
         ConfirmBoot, ActivateUpdate, Restart, Reboot, PowerCut
    <3>2. QED
      BY <3>1
  <2>3. QED
    BY <2>1, <2>2
<1>2. QED
  BY <1>1, Inductive, PTL DEF Spec, RunningSlotUntouched

-----------------------------------------------------------------------------
(***************************************************************************)
(* The refinement.  The step to prove is SaveTry: the slot it starts is    *)
(* not the suspect, which TrySlot saw from the flags.                      *)
(***************************************************************************)

\* The slot that is about to be started is not the suspect.
TryInv == pc = "save" /\ recorded /\ ~lastOk => slot # last

\* Only TrySlot gets to the save of a try.
LEMMA TryInvStep == IInv /\ TryInv /\ [Next]_vars => TryInv'
<1> SUFFICES ASSUME IInv, TryInv, [Next]_vars PROVE TryInv'
  OBVIOUS
<1>1. CASE TrySlot
  <2>1. recorded /\ ~lastOk => env.ok[last] = 0
    BY <1>1 DEF IInv, EnvInv, TrySlot
  <2>2. env.ok[slot'] = 1 /\ recorded' = recorded /\ lastOk' = lastOk /\ last' = last
    BY <1>1 DEF TrySlot
  <2>3. QED
    BY <2>1, <2>2 DEF TryInv
<1>2. CASE UNCHANGED vars
  BY <1>2 DEF vars, TryInv
<1>3. CASE Next /\ ~TrySlot
  <2>1. pc' # "save" \/ UNCHANGED <<pc, slot, last, lastOk, recorded>>
    BY <1>3 DEF Next, UBootStep, UpdateStep, PowerOn, ReadVars, CreateFile, SaveVars,
       SaveFails, SelectOrder, SkipSlot, GiveUp, SaveTry, Bootm, ConfirmBoot,
       InstallUpdate, ActivateUpdate, Restart, Reboot, PowerCut
  <2>2. QED
    BY <2>1 DEF TryInv
<1>4. QED
  BY <1>1, <1>2, <1>3

LEMMA InitFailover == Init => Failover!Init
<1> SUFFICES ASSUME Init PROVE Failover!Init
  OBVIOUS
<1>1. running = 0 /\ suspect = 0 /\ recorded = FALSE
  BY DEF Init, running, suspect, Linux
<1>2. image \in [Slots -> Images]
  BY DEF Init
<1>3. QED
  BY <1>1, <1>2 DEF Failover!Init

\* Every step of the boot is a step of the abstract one, or none.
LEMMA StepFailover ==
  IInv /\ TryInv /\ [Next]_vars => [Failover!Next]_Failover!vars
<1> SUFFICES ASSUME IInv, TryInv, [Next]_vars
             PROVE  Failover!Next \/ UNCHANGED Failover!vars
  OBVIOUS
<1> USE DEF IInv
<1> DEFINE Same == UNCHANGED <<image, running, suspect, recorded>>
<1>0. Same => UNCHANGED Failover!vars
  BY DEF Failover!vars
<1>1. CASE SaveTry
  <2>1. running = 0 /\ running' = slot /\ slot \in Slots /\ image' = image
    BY <1>1 DEF TypeOK, SaveTry, SaveVars, SaveFails, running, Linux
  <2>2. slot # suspect
    BY <1>1, <2>1 DEF SaveTry, TryInv, suspect, Slots
  <2>3. recorded' \in BOOLEAN
    BY <1>1, Zenon DEF SaveTry
  <2>4. suspect' = IF recorded' THEN slot ELSE 0
    BY <1>1 DEF SaveTry, suspect
  <2>5. Failover!Start(slot)
    BY <2>1, <2>2, <2>3, <2>4 DEF Failover!Start
  <2>6. QED
    BY <2>1, <2>5 DEF Failover!Next
<1>2. CASE ConfirmBoot
  <2>1. running # 0 /\ running' = running /\ image' = image /\ recorded' = recorded
    BY <1>2 DEF TypeOK, Slots, ConfirmBoot, running, Linux
  <2>2. recorded => file.part = slot
    BY <1>2 DEF FileInv, SlotInv, Linux, ConfirmBoot
  <2>3. suspect' = 0
    BY <1>2, <2>2 DEF ConfirmBoot, suspect
  <2>4. Failover!Confirm
    BY <2>1, <2>3 DEF Failover!Confirm
  <2>5. QED
    BY <2>4 DEF Failover!Next
<1>3. CASE InstallUpdate
  <2>1. running = slot /\ running # 0 /\ running' = running
    BY <1>3 DEF TypeOK, Slots, InstallUpdate, running, Linux
  <2>2. suspect' = suspect /\ recorded' = recorded
    BY <1>3 DEF InstallUpdate, suspect
  <2>3. file.part \in Slots
    BY <1>3 DEF FileInv, Readable, EnvVars, InstallUpdate
  <2>4. Other(file.part) \in Slots /\ (recorded => Other(file.part) # slot)
    BY <1>3, <2>3, OtherSlot DEF FileInv, SlotInv, Linux, InstallUpdate
  <2>5. Failover!Install(Other(file.part))
    BY <1>3, <2>1, <2>2, <2>4 DEF InstallUpdate, Failover!Install
  <2>6. QED
    BY <2>4, <2>5 DEF Failover!Next
<1>4. CASE ActivateUpdate \/ Restart \/ Reboot
  <2>1. running' = 0 /\ suspect' = suspect /\ recorded' = recorded /\ image' = image
    BY <1>4 DEF ActivateUpdate, Restart, Reboot, running, suspect, Linux
  <2>2. Failover!Stop
    BY <2>1 DEF Failover!Stop
  <2>3. QED
    BY <2>2 DEF Failover!Next
<1>5. CASE PowerCut
  <2>1. running' = 0 /\ image' = image
    BY <1>5 DEF PowerCut, running, Linux
  <2>2. CASE UNCHANGED <<file, recorded>>
    <3>1. suspect' = suspect
      BY <1>5, <2>2 DEF PowerCut, suspect
    <3>2. Failover!Stop
      BY <2>1, <2>2, <3>1 DEF Failover!Stop
    <3>3. QED
      BY <3>2 DEF Failover!Next
  <2>3. CASE recorded' = FALSE
    <3>1. suspect' = 0
      BY <2>3 DEF suspect
    <3>2. Failover!Lose
      BY <2>1, <2>3, <3>1 DEF Failover!Lose
    <3>3. QED
      BY <3>2 DEF Failover!Next
  <2>4. QED
    BY <1>5, <2>2, <2>3 DEF PowerCut
<1>6. CASE Bootm
  <2>1. image' = image /\ suspect' = suspect /\ recorded' = recorded /\ running = slot
    BY <1>6 DEF Bootm, suspect, running
  <2>2. running' = slot \/ running' = 0
    BY <1>6 DEF Bootm, running, Linux
  <2>3. CASE running' = slot
    BY <1>0, <2>1, <2>3
  <2>4. CASE running' = 0
    <3>1. Failover!Stop
      BY <2>1, <2>4 DEF Failover!Stop
    <3>2. QED
      BY <3>1 DEF Failover!Next
  <2>5. QED
    BY <2>2, <2>3, <2>4
<1>7. CASE PowerOn \/ ReadVars \/ SelectOrder \/ TrySlot \/ SkipSlot \/ GiveUp
  <2>1. Same
    BY <1>7 DEF PowerOn, ReadVars, SelectOrder, TrySlot, SkipSlot, GiveUp, running,
       suspect, Linux
  <2>2. QED
    BY <1>0, <2>1
<1>8. CASE CreateFile
  <2>1. Same
    BY <1>8 DEF CreateFile, SaveVars, SaveFails, running, suspect, Linux
  <2>2. QED
    BY <1>0, <2>1
<1>9. CASE UNCHANGED vars
  <2>1. Same
    BY <1>9 DEF vars, running, suspect
  <2>2. QED
    BY <1>0, <2>1
<1>10. QED
  BY <1>1, <1>2, <1>3, <1>4, <1>5, <1>6, <1>7, <1>8, <1>9 DEF Next, UBootStep, UpdateStep

\* For any number of faults and of updates, the boot commands, the file and
\* the update manager together are the A/B boot that Failover describes.
THEOREM Implements == Spec => ImplementsFailover
<1>1. Init => TryInv
  BY DEF Init, TryInv
<1>2. Spec => [](IInv /\ TryInv)
  BY <1>1, Inductive, TryInvStep, PTL DEF Spec
<1>3. QED
  BY <1>2, InitFailover, StepFailover, PTL DEF Spec, ImplementsFailover, Failover!Spec

-----------------------------------------------------------------------------
(***************************************************************************)
(* At most one lost boot.  The first loss leaves a bad slot that has no    *)
(* flag (BootInv); what the other one needs to be tried next, from the     *)
(* restart to its bootm, is LostInv.                                       *)
(***************************************************************************)

\* The commands still to run: both, the one of the other slot, whose flag is
\* set whether the first slot was tried or skipped, or none, after the second
\* slot was tried and could not be loaded.
OrderInv ==
  /\ pc \in {"save", "bootm"} =>
       Len(order) = 0 \/ (Len(order) = 1 /\ order[1] = Other(slot))
  /\ pc = "try" /\ Len(order) = 2 => order[2] = Other(order[1])
  /\ pc = "try" /\ Len(order) = 1 => env.ok[order[1]] = 1
  /\ pc = "try" /\ Len(order) = 0 => image[last] = "unloadable"
  /\ pc = "prompt" => image[last] = "unloadable"

\* Only a good slot is marked good, and it stays what it is.
GoodInv == recorded /\ lastOk => image[last] = "good"

\* While a boot counts as lost, the slot that lost it is on record and has no
\* flag, and the good one is what U-Boot tries next.
LostInv ==
  lost # 0 =>
    /\ lost = 1 /\ recorded
    /\ pc \in UBoot \cup {"off"}
    /\ pc # "bootm" => ~lastOk /\ image[last] # "good" /\ image[Other(last)] = "good"
    /\ pc = "try" => \/ Len(order) > 0 /\ order[1] = Other(last)
                     \/ Len(order) > 1 /\ order[2] = Other(last)
    /\ pc = "bootm" => image[slot] = "good"

BootInv == OrderInv /\ GoodInv /\ LostInv

\* The two slots are all there are.
LEMMA TwoSlots ==
  /\ \A s, t \in Slots : t = s \/ t = Other(s)
  /\ \A s \in Slots : Other(s) \in Slots /\ Other(s) # s /\ Other(Other(s)) = s
  BY DEF Slots, Other

\* The sequence of at most two slots that is left when its head is taken.
LEMMA OrderTail ==
  ASSUME TypeOK, order # <<>>
  PROVE  /\ Len(order) \in 1..2 /\ Head(order) = order[1]
         /\ Tail(order) \in Seq(Slots) /\ Len(Tail(order)) = Len(order) - 1
         /\ Len(order) = 2 => Tail(order)[1] = order[2]
         /\ \A i \in 1..Len(order) : order[i] \in Slots
<1>1. order \in Seq(Slots) /\ Len(order) \in Nat /\ Len(order) <= 2
  BY DEF TypeOK
<1>2. Len(order) \in 1..2
  <2>1. Len(order) # 0
    BY <1>1
  <2>2. \A n \in Nat : n <= 2 /\ n # 0 => n \in 1..2
    OBVIOUS
  <2> QED
    BY <1>1, <2>1, <2>2, Zenon
<1>3. Head(order) = order[1] /\ \A i \in 1..Len(order) : order[i] \in Slots
  BY <1>1
<1>4. Tail(order) \in Seq(Slots) /\ Len(Tail(order)) = Len(order) - 1
  BY <1>1, <1>2
<1>5. Len(order) = 2 => Tail(order)[1] = order[2]
  BY <1>1
<1> QED
  BY <1>2, <1>3, <1>4, <1>5

\* OrderInv, GoodInv and LostInv hold through every step.
LEMMA NextBootInv == IInv /\ TryInv /\ BootInv /\ [Next]_vars => BootInv'
<1> SUFFICES ASSUME IInv, TryInv, BootInv, [Next]_vars PROVE BootInv'
  OBVIOUS
<1> USE TwoSlots DEF BootInv
<1>0. /\ slot \in Slots /\ last \in Slots /\ env.main \in Slots /\ order \in Seq(Slots)
      /\ lost \in 0..3 /\ Len(order) \in 0..2
  <2>1. order \in Seq(Slots) /\ Len(order) \in Nat /\ Len(order) <= 2
    BY DEF IInv, TypeOK
  <2>2. env \in EnvVars /\ slot \in Slots /\ last \in Slots /\ lost \in 0..3
    BY DEF IInv, TypeOK
  <2>3. env.main \in Slots
    BY <2>2 DEF EnvVars
  <2>4. \A n \in Nat : n <= 2 => n \in 0..2
    OBVIOUS
  <2> QED
    BY <2>1, <2>2, <2>3, <2>4, Zenon
<1>1. CASE PowerOn
  BY <1>1 DEF OrderInv, GoodInv, LostInv, UBoot, PowerOn
<1>2. CASE ReadVars
  <2>1. OrderInv' /\ GoodInv'
    BY <1>2 DEF OrderInv, GoodInv, ReadVars
  <2>2. LostInv'
    BY <1>2 DEF LostInv, UBoot, IInv, FileInv, ReadVars
  <2> QED
    BY <2>1, <2>2
<1>3. CASE CreateFile
  <2>1. OrderInv' /\ GoodInv'
    BY <1>3 DEF OrderInv, GoodInv, CreateFile, SaveVars, SaveFails
  <2>2. LostInv'
    BY <1>3 DEF LostInv, IInv, FileInv, UBoot, CreateFile, SaveVars, SaveFails, Fault
  <2> QED
    BY <2>1, <2>2
<1>4. CASE SelectOrder
  <2>1. /\ Len(order') = 2 /\ order'[1] = env.main /\ order'[2] = Other(env.main)
        /\ pc' = "try" /\ pc = "select"
    BY <1>4 DEF SelectOrder
  <2>2. UNCHANGED <<image, last, lastOk, recorded, lost>>
    BY <1>4 DEF SelectOrder
  <2>3. OrderInv' /\ GoodInv'
    BY <2>1, <2>2 DEF OrderInv, GoodInv
  <2>4. env.main = last \/ env.main = Other(last)
    BY <1>0
  <2>5. LostInv'
    BY <1>0, <2>1, <2>2, <2>4 DEF LostInv, UBoot
  <2> QED
    BY <2>3, <2>5
<1>5. CASE TrySlot
  <2>1. /\ pc = "try" /\ pc' = "save" /\ order # <<>> /\ slot' = Head(order)
        /\ order' = Tail(order) /\ UNCHANGED <<image, last, lastOk, recorded, lost>>
        /\ env.ok[Head(order)] = 1
    BY <1>5 DEF TrySlot
  <2>2. OrderInv' /\ GoodInv'
    BY <2>1, OrderTail DEF IInv, OrderInv, GoodInv
  <2>3. LostInv'
    BY <2>1 DEF LostInv, UBoot
  <2> QED
    BY <2>2, <2>3
<1>6. CASE SkipSlot
  <2>1. /\ pc = "try" /\ pc' = "try" /\ order # <<>> /\ env.ok[order[1]] # 1
        /\ order' = Tail(order)
        /\ UNCHANGED <<image, env, last, lastOk, recorded, lost>>
    BY <1>6, OrderTail DEF IInv, SkipSlot
  <2>2. Len(order) = 2 /\ Len(order') = 1 /\ order'[1] = order[2]
    BY <2>1, OrderTail DEF IInv, OrderInv
  <2>3. order'[1] = Other(order[1]) /\ order[1] \in Slots
    BY <2>1, <2>2, OrderTail DEF IInv, OrderInv
  <2>4. env.ok[order'[1]] = 1
    <3>1. \E s \in Slots : env.ok[s] = 1
      BY DEF IInv, EnvInv, OpenFlags, Slots
    <3>2. \A s \in Slots : s = order[1] \/ s = order'[1]
      BY <2>3
    <3> QED
      BY <2>1, <3>1, <3>2
  <2>5. OrderInv' /\ GoodInv'
    BY <2>1, <2>2, <2>4 DEF OrderInv, GoodInv
  <2>6. ASSUME lost # 0 PROVE order'[1] = Other(last)
    <3>1. env.ok[last] = 0
      BY <2>1, <2>6 DEF LostInv, IInv, EnvInv
    <3>2. order'[1] # last
      BY <2>4, <3>1
    <3> QED
      BY <1>0, <2>3, <3>2
  <2>7. LostInv'
    BY <2>1, <2>2, <2>6 DEF LostInv, UBoot
  <2> QED
    BY <2>5, <2>7
<1>7. CASE GiveUp
  BY <1>7 DEF OrderInv, GoodInv, LostInv, GiveUp
<1>8. CASE SaveTry
  <2>1. OrderInv' /\ GoodInv'
    BY <1>8 DEF OrderInv, GoodInv, SaveTry, SaveVars, SaveFails
  <2>2. ASSUME lost' # 0 PROVE recorded' /\ lost' = lost /\ lost = 1 /\ image'[slot'] = "good"
    <3>1. lost' = lost /\ recorded' /\ image' = image /\ slot' = slot /\ pc = "save"
      BY <1>8, <2>2 DEF SaveTry, SaveVars, SaveFails, Fault
    <3>2. lost = 1 /\ recorded /\ ~lastOk /\ image[Other(last)] = "good"
      BY <2>2, <3>1 DEF LostInv
    <3>3. slot = Other(last)
      BY <1>0, <3>1, <3>2 DEF TryInv
    <3> QED
      BY <3>1, <3>2, <3>3
  <2>3. pc' = "bootm"
    BY <1>8 DEF SaveTry, SaveVars, SaveFails
  <2>4. LostInv'
    BY <2>2, <2>3 DEF LostInv, UBoot
  <2> QED
    BY <2>1, <2>4
<1>9. CASE Bootm
  <2>1. /\ pc = "bootm" /\ UNCHANGED <<image, env, slot, order, last, lastOk, recorded>>
        /\ last = slot /\ env.ok[slot] = 0
        /\ pc' = "try" => image[slot] = "unloadable"
        /\ pc' \in {"try", "run"}
    BY <1>9 DEF Bootm, IInv, SlotInv, EnvInv
  <2>2. env.ok[Other(slot)] = 1
    BY <1>0, <2>1 DEF IInv, EnvInv, OpenFlags, Slots, Other
  <2>3. OrderInv'
    BY <1>0, <2>1, <2>2 DEF OrderInv
  <2>4. GoodInv'
    BY <2>1 DEF GoodInv
  <2>5. lost' = 0
    BY <1>9 DEF Bootm, LostInv
  <2> QED
    BY <2>3, <2>4, <2>5 DEF LostInv
<1>10. CASE ConfirmBoot
  <2>1. /\ pc = "run" /\ pc' = "confirmed" /\ image[slot] = "good"
        /\ UNCHANGED <<image, order, last, recorded, lost>>
    BY <1>10 DEF ConfirmBoot, Up
  <2>2. last = slot
    BY <2>1 DEF IInv, SlotInv, Linux
  <2> QED
    BY <2>1, <2>2 DEF OrderInv, GoodInv, LostInv, UBoot
<1>11. CASE InstallUpdate
  <2>1. /\ pc = "confirmed" /\ pc' = "staged" /\ lost' = 0
        /\ UNCHANGED <<last, lastOk, recorded>>
    BY <1>11 DEF InstallUpdate
  <2>2. recorded => image'[last] = image[last]
    <3>1. ASSUME recorded PROVE file.part = last /\ Other(file.part) # last
      BY <1>0, <3>1 DEF IInv, FileInv
    <3> QED
      BY <1>11, <3>1 DEF InstallUpdate
  <2> QED
    BY <2>1, <2>2 DEF OrderInv, GoodInv, LostInv
<1>12. CASE ActivateUpdate
  <2>1. pc = "staged"
    BY <1>12 DEF ActivateUpdate
  <2> QED
    BY <1>12, <2>1 DEF OrderInv, GoodInv, LostInv, UBoot, ActivateUpdate
<1>13. CASE Restart
  <2>1. pc' = "off" /\ UNCHANGED <<image, last, lastOk, recorded>>
    BY <1>13 DEF Restart
  <2>2. lost = 0 /\ image[last] # "good"
    BY <1>13 DEF Restart, LostInv, OrderInv, UBoot, Linux, Up, IInv, SlotInv
  <2>3. recorded => ~lastOk
    BY <2>2 DEF GoodInv
  <2>4. GoodSlotExists => image[Other(last)] = "good"
    BY <1>0, <2>2 DEF GoodSlotExists
  <2>5. lost' # 0 => lost' = 1 /\ recorded /\ GoodSlotExists
    BY <1>13, <2>2 DEF Restart
  <2> QED
    BY <2>1, <2>2, <2>3, <2>4, <2>5 DEF OrderInv, GoodInv, LostInv
<1>14. CASE Reboot
  <2>1. pc \in Linux
    BY <1>14 DEF Reboot, Up
  <2> QED
    BY <1>14, <2>1 DEF OrderInv, GoodInv, LostInv, UBoot, Linux, Reboot
<1>15. CASE PowerCut
  BY <1>15 DEF OrderInv, GoodInv, LostInv, PowerCut, Fault
<1>16. CASE UNCHANGED vars
  BY <1>16 DEF vars, OrderInv, GoodInv, LostInv
<1> QED
  BY <1>1, <1>2, <1>3, <1>4, <1>5, <1>6, <1>7, <1>8, <1>9, <1>10, <1>11, <1>12, <1>13,
     <1>14, <1>15, <1>16 DEF Next, UBootStep, UpdateStep

LEMMA BootInductive == Spec => [](IInv /\ TryInv /\ BootInv)
<1>1. Init => TryInv /\ BootInv
  BY DEF Init, TryInv, BootInv, OrderInv, GoodInv, LostInv
<1> QED
  BY <1>1, InitIInv, NextIInv, TryInvStep, NextBootInv, PTL DEF Spec

\* While one slot is good, no second boot on record comes to nothing before a
\* good slot runs, for any number of faults and of updates.
THEOREM LosesOneBoot == Spec => []OneLostBoot
<1>1. IInv /\ BootInv => OneLostBoot
  BY DEF BootInv, LostInv, OneLostBoot
<1> QED
  BY <1>1, BootInductive, PTL

=============================================================================
