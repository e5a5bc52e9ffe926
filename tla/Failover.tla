------------------------------ MODULE Failover ------------------------------
(***************************************************************************)
(* What the A/B boot of Dom0 promises, without a word of how: no boot      *)
(* loader, no environment file and no flags.  There are two slots, one of  *)
(* which runs or none; a start that is on record and that nobody confirmed *)
(* makes its slot the suspect, and a suspect is not started again before   *)
(* the other slot was.  SlotBoot implements it.                            *)
(***************************************************************************)
CONSTANTS
  Slots,    (* the boot partitions                                        *)
  None,     (* not one of them: no slot                                   *)
  Images    (* what a boot partition may hold                             *)

VARIABLES
  image,    (* what each slot holds                                       *)
  running,  (* the slot that was started, or None                         *)
  suspect,  (* the slot of a recorded start nobody confirmed, or None     *)
  known     (* is the last start on record                                *)

vars == <<image, running, suspect, known>>

Init ==
  /\ image \in [Slots -> Images]
  /\ running = None /\ suspect = None /\ known = FALSE

\* A slot that is not the suspect is started; the start may fail to be put
\* on record, and then nothing is known any more.
Start(s) ==
  /\ running = None /\ s # suspect
  /\ running' = s
  /\ known' \in BOOLEAN
  /\ suspect' = IF known' THEN s ELSE None
  /\ UNCHANGED image

\* The slot that runs turns out to work.
Confirm ==
  /\ running # None
  /\ suspect' = None
  /\ UNCHANGED <<image, running, known>>

\* A slot gets another image. It is not the one that runs, unless the record
\* of the start was lost.
Install(s) ==
  /\ running # None
  /\ known => s # running
  /\ \E i \in Images : image' = [image EXCEPT ![s] = i]
  /\ UNCHANGED <<running, suspect, known>>

\* The slot stops, for whatever reason.
Stop ==
  /\ running' = None
  /\ UNCHANGED <<image, suspect, known>>

\* Power is lost, and the record of the last start with it.
Lose ==
  /\ running' = None /\ suspect' = None /\ known' = FALSE
  /\ UNCHANGED image

Next == \/ \E s \in Slots : Start(s) \/ Install(s)
        \/ Confirm \/ Stop \/ Lose

Spec == Init /\ [][Next]_vars

=============================================================================
