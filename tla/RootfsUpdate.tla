---------------------------- MODULE RootfsUpdate ----------------------------
(***************************************************************************)
(* The update of the root file system of DomD and DomF: the last script of *)
(* their initramfs (initrdscripts/initramfs-framework/finish, the same in  *)
(* both), the flag files in /data/update/rootfs by which it talks to the   *)
(* update manager, aos-reboot.service, and the update manager itself       *)
(* (external: from its configuration and the flags it shares).             *)
(*                                                                         *)
(* A command of the script that changes storage is one action, so that     *)
(* power can be lost between any two; rm -rf and cp -rafd of a whole root  *)
(* file system are two actions each, around the loss and the return of     *)
(* its /dev.                                                               *)
(***************************************************************************)
EXTENDS Naturals

CONSTANTS
  MaxUpdates,   (* updates the update manager may stage                   *)
  MaxFaults     (* power cuts, failing mounts and failing copies          *)

ASSUME BoundsAssumption == MaxUpdates \in Nat /\ MaxFaults \in Nat

VARIABLES
  flags,     (* the flag files that exist                                 *)
  image,     (* the update image next to them                             *)
  rootfs,    (* the root file system's partition                          *)
  pc,        (* how far the domain is                                     *)
  root,      (* what is, or will be, the root of the running system       *)
  mounted,   (* is /data (in the running system /var) mounted             *)
  accepted,  (* history: versions the update manager accepted             *)
  tried,     (* history: versions marked as updated                       *)
  torn,      (* history: power was lost between clearing the two flags    *)
  lostCopy,  (* history: an error of the incremental copy went unnoticed  *)
  staged, faults

storage == <<flags, image, rootfs>>
booting == <<pc, root, mounted>>
history == <<accepted, tried, torn, lostCopy>>
vars == <<storage, booting, history, staged, faults>>

Flags == {"updated", "failed", "do_update", "do_apply"}
Versions == 0..MaxUpdates

(***************************************************************************)
(* A good image runs and a bad one runs so badly that the update manager   *)
(* does not start; a corrupt one cannot be mounted. The type of the update *)
(* is what the do_update flag holds.                                       *)
(***************************************************************************)
Images == [ver : Versions \ {0}, type : {"full", "incremental"},
           is : {"good", "bad", "corrupt"}]
NoImage == [ver |-> 0, type |-> "full", is |-> "corrupt"]

\* get_update_type: an empty or missing do_update flag stands for "full".
UpdateType == IF "do_update" \in flags THEN image.type ELSE "full"

\* The update directory holds an image that can be mounted.
Mountable == image.is # "corrupt"

\* What runs works: the partition's files are all there, or the image is good.
Healthy == IF root = "partition" THEN rootfs.whole ELSE image.is = "good"

OnUpdate == pc = "run" /\ root # "partition"

Fault == faults < MaxFaults /\ faults' = faults + 1
NoFault == UNCHANGED faults

Goto(next) == pc' = next
SetFlags(f) == flags' = f /\ UNCHANGED <<image, rootfs>>

Init ==
  /\ flags = {} /\ image = NoImage
  /\ rootfs = [ver |-> 0, whole |-> TRUE, dev |-> TRUE]
  /\ pc = "off" /\ root = "partition" /\ mounted = FALSE
  /\ accepted = {0} /\ tried = {} /\ torn = FALSE /\ lostCopy = FALSE
  /\ staged = 0 /\ faults = 0

-----------------------------------------------------------------------------
(* finish                                                                  *)

PowerOn ==
  /\ pc = "off" /\ Goto("init")
  /\ UNCHANGED <<storage, root, mounted, history, staged, faults>>

\* finish_run gives up on a root file system without /dev.
CheckDev ==
  /\ pc = "init"
  /\ Goto(IF rootfs.dev THEN "data" ELSE "fatal")
  /\ UNCHANGED <<storage, root, mounted, history, staged, faults>>

\* mount_data; without /data, switch_if_fail starts the partition's system
\* and cannot leave a flag.
MountData ==
  /\ pc = "data"
  /\ \/ /\ NoFault
        /\ mounted' = TRUE /\ SetFlags(flags \ {"failed"}) /\ Goto("action")
     \/ Fault /\ Goto("switch") /\ UNCHANGED <<storage, mounted>>
  /\ UNCHANGED <<root, history, staged>>

\* Mutant: an update that was tried is tried again.
GetActionIgnoresUpdated ==
  /\ pc = "action"
  /\ Goto(CASE "do_apply" \in flags -> "apply"
            [] "do_apply" \notin flags /\ "do_update" \in flags -> "mount"
            [] OTHER -> "clear")
  /\ UNCHANGED <<storage, root, mounted, history, staged, faults>>

\* Mutant: an update that was tried is taken for an accepted one.
GetActionAppliesUpdated ==
  /\ pc = "action"
  /\ Goto(CASE {"do_apply", "updated"} \cap flags # {} -> "apply"
            [] {"do_apply", "updated"} \cap flags = {} /\ "do_update" \in flags
                 -> "mount"
            [] OTHER -> "clear")
  /\ UNCHANGED <<storage, root, mounted, history, staged, faults>>

\* get_action: an accepted update is applied; one that was tried is ignored,
\* and one that was not is mounted.
GetAction ==
  /\ pc = "action"
  /\ Goto(CASE "do_apply" \in flags -> "apply"
            [] flags \cap {"do_apply", "updated"} = {} /\ "do_update" \in flags
                 -> "mount"
            [] OTHER -> "clear")
  /\ UNCHANGED <<storage, root, mounted, history, staged, faults>>

\* Mutant: a failing step also ends the update.
SwitchIfFailDrops ==
  /\ SetFlags((flags \ {"do_apply"}) \cup {"failed"}) /\ Goto("switch")
  /\ UNCHANGED <<root, mounted, history, staged>>

\* switch_if_fail with /data mounted.
SwitchIfFail ==
  /\ SetFlags(flags \cup {"failed"}) /\ Goto("switch")
  /\ UNCHANGED <<root, mounted, history, staged>>

\* A step of an update fails, because it must or by a fault.
CannotMount == (~Mountable /\ NoFault) \/ Fault

\* do_mount_full_update and do_mount_inc_update.
MountUpdate ==
  /\ pc = "mount" /\ Mountable
  /\ root' = IF UpdateType = "full" THEN "image" ELSE "overlay"
  /\ Goto("mark")
  /\ UNCHANGED <<storage, mounted, history, staged, faults>>

MountUpdateFails == pc = "mount" /\ CannotMount /\ SwitchIfFail

\* Mutant: the do_update flag is renamed.
MarkRenames ==
  /\ pc = "mark"
  /\ SetFlags((flags \ {"do_update"}) \cup {"updated"}) /\ Goto("switch")
  /\ tried' = tried \cup {image.ver}
  /\ UNCHANGED <<root, mounted, accepted, torn, lostCopy, staged, faults>>

\* Mutant: the flag's name is misspelt.
MarkMisspelt ==
  /\ pc = "mark"
  /\ SetFlags(flags \cup {"update"}) /\ Goto("switch")
  /\ tried' = tried \cup {image.ver}
  /\ UNCHANGED <<root, mounted, accepted, torn, lostCopy, staged, faults>>

\* set_updated_part_flag
MarkUpdated ==
  /\ pc = "mark"
  /\ SetFlags(flags \cup {"updated"}) /\ Goto("switch")
  /\ tried' = tried \cup {image.ver}
  /\ UNCHANGED <<root, mounted, accepted, torn, lostCopy, staged, faults>>

\* clear_update_part_flags, one file after the other.
ClearUpdated ==
  /\ pc = "clear"
  /\ SetFlags(flags \ {"updated"}) /\ Goto("clear2")
  /\ UNCHANGED <<root, mounted, history, staged, faults>>

\* Mutant: the do_update flag stays.
ClearNothingMore ==
  /\ pc = "clear2"
  /\ SetFlags(flags) /\ Goto("switch")
  /\ UNCHANGED <<root, mounted, history, staged, faults>>

ClearDoUpdate ==
  /\ pc = "clear2"
  /\ SetFlags(flags \ {"do_update"}) /\ Goto("switch")
  /\ UNCHANGED <<root, mounted, history, staged, faults>>

\* Mutant: the do_apply flag goes before the files are copied.
MountAppliedClears ==
  /\ pc = "apply" /\ Mountable
  /\ SetFlags(flags \ {"do_apply"})
  /\ Goto(IF UpdateType = "full" THEN "wipe" ELSE "merge")
  /\ UNCHANGED <<root, mounted, history, staged, faults>>

\* do_apply_update finds and mounts the image, and makes the partition
\* writable.
MountApplied ==
  /\ pc = "apply" /\ Mountable
  /\ Goto(IF UpdateType = "full" THEN "wipe" ELSE "merge")
  /\ UNCHANGED <<storage, root, mounted, history, staged, faults>>

MountAppliedFails == pc = "apply" /\ CannotMount /\ SwitchIfFail

\* A step of a copy to the partition.
Copying(from, next, dev, whole, ver) ==
  /\ pc = from /\ Goto(next)
  /\ rootfs' = [ver |-> ver, whole |-> whole, dev |-> dev]
  /\ UNCHANGED <<flags, image, root, mounted, history, staged, faults>>

\* Full update: rm -rf of everything on the partition, then cp -rafd.
Wipe         == Copying("wipe", "wipe2", rootfs.dev, FALSE, rootfs.ver)
WipeDev      == Copying("wipe2", "copy", FALSE, FALSE, rootfs.ver)
CopyDev      == Copying("copy", "copy2", TRUE, FALSE, rootfs.ver)
CopyTheRest  == Copying("copy2", "applied", TRUE, TRUE, image.ver)
CopyFails    == pc \in {"copy", "copy2"} /\ Fault /\ SwitchIfFail

\* Incremental update: nothing tests whether the three find -exec worked.
MergeSome    == Copying("merge", "merge2", rootfs.dev, FALSE, rootfs.ver)
MergeTheRest == Copying("merge2", "applied", rootfs.dev, TRUE, image.ver)
MergeFails ==
  /\ pc = "merge2" /\ Fault
  /\ lostCopy' = TRUE
  /\ Goto("applied")
  /\ UNCHANGED <<storage, root, mounted, accepted, tried, torn, staged>>

ApplyDone ==
  /\ pc = "applied"
  /\ SetFlags(flags \ {"do_apply"}) /\ Goto("switch")
  /\ UNCHANGED <<root, mounted, history, staged, faults>>

\* do_switchroot
SwitchRoot ==
  /\ pc = "switch" /\ Goto("run")
  /\ UNCHANGED <<storage, root, mounted, history, staged, faults>>

BootStep ==
  \/ PowerOn \/ CheckDev \/ MountData \/ GetAction
  \/ MountUpdate \/ MountUpdateFails \/ MarkUpdated
  \/ ClearUpdated \/ ClearDoUpdate
  \/ MountApplied \/ MountAppliedFails
  \/ Wipe \/ WipeDev \/ CopyDev \/ CopyTheRest \/ CopyFails
  \/ MergeSome \/ MergeTheRest \/ MergeFails
  \/ ApplyDone \/ SwitchRoot

-----------------------------------------------------------------------------
(* The running system                                                      *)

\* The update manager stages an update: an image for the version that runs,
\* and then the do_update flag. It has one update at a time.
StageUpdate ==
  /\ pc = "run" /\ mounted /\ root = "partition" /\ Healthy
  /\ flags \cap {"do_update", "do_apply"} = {}
  /\ staged < MaxUpdates
  /\ staged' = staged + 1
  /\ image' \in {i \in Images : i.ver = staged + 1}
  /\ flags' = {"do_update"}
  /\ torn' = FALSE
  /\ UNCHANGED <<rootfs, booting, accepted, tried, lostCopy, faults>>

\* It accepts the update it runs on, once its checks have passed.
AcceptUpdate ==
  /\ OnUpdate /\ Healthy
  /\ "updated" \in flags /\ "do_apply" \notin flags
  /\ SetFlags(flags \cup {"do_apply"})
  /\ accepted' = accepted \cup {image.ver}
  /\ UNCHANGED <<booting, tried, torn, lostCopy, staged, faults>>

\* It drops an update that could not be mounted.
DropUpdate ==
  /\ pc = "run" /\ mounted /\ Healthy
  /\ "failed" \in flags /\ "do_apply" \notin flags
  /\ flags' = {} /\ image' = NoImage
  /\ UNCHANGED <<rootfs, booting, history, staged, faults>>

Restarted == pc' = "off" /\ root' = "partition" /\ mounted' = FALSE

\* The system is restarted: by the update manager (after staging, accepting or
\* rejecting an update) or by a user.
Reboot ==
  /\ pc \in {"run", "fatal"}
  /\ Restarted
  /\ UNCHANGED <<storage, history, staged, faults>>

\* aos-reboot.service: the update manager keeps failing and the updated flag
\* exists.
RebootFailed ==
  /\ OnUpdate /\ ~Healthy /\ "updated" \in flags
  /\ Restarted
  /\ UNCHANGED <<storage, history, staged, faults>>

PowerCut ==
  /\ pc # "off" /\ Fault
  /\ Restarted
  /\ torn' = (torn \/ pc = "clear2")
  /\ UNCHANGED <<storage, accepted, tried, lostCopy, staged>>

Next ==
  \/ BootStep
  \/ StageUpdate \/ AcceptUpdate \/ DropUpdate
  \/ Reboot \/ RebootFailed \/ PowerCut

(***************************************************************************)
(* The script runs to its end and power comes back; systemd starts         *)
(* aos-reboot.service when the update manager has failed. Nothing is       *)
(* assumed of the update manager.                                          *)
(***************************************************************************)
Fairness == WF_vars(BootStep) /\ WF_vars(RebootFailed)

Spec == Init /\ [][Next]_vars /\ Fairness

-----------------------------------------------------------------------------
(* Properties                                                              *)

\* Every variable has its type.
TypeOK ==
  /\ flags \subseteq Flags
  /\ image \in Images \cup {NoImage}
  /\ rootfs \in [ver : Versions, whole : BOOLEAN, dev : BOOLEAN]
  /\ pc \in {"off", "init", "data", "action", "mount", "mark", "clear", "clear2",
             "apply", "wipe", "wipe2", "copy", "copy2", "merge", "merge2",
             "applied", "switch", "run", "fatal"}
  /\ root \in {"partition", "image", "overlay"}
  /\ mounted \in BOOLEAN /\ torn \in BOOLEAN /\ lostCopy \in BOOLEAN
  /\ accepted \subseteq Versions /\ tried \subseteq Versions
  /\ staged \in Versions /\ faults \in 0..MaxFaults

\* A partition that is not all there is known to be: the do_apply flag tells
\* the next start to apply the update again. (The errors of the incremental
\* copy, which nobody tests, are excused.)
IncompleteIsKnown ==
  (~rootfs.whole /\ ~lostCopy) => "do_apply" \in flags

\* An incremental update is not applied as a full one, which would leave only
\* the files that differ: when an update is applied the flag with its type is
\* still there.
WipedForFullOnly ==
  pc \in {"wipe", "wipe2", "copy", "copy2"} => image.type = "full"

\* Unless power was lost between clearing the two flags, an update that ran
\* and was not accepted does not run again.
TriedOnce ==
  [][(pc = "mount" /\ pc' = "mark") => (image.ver \notin tried \/ torn)]_vars

\* An update that does not work is left: the partition's system runs again.
RolledBack ==
  (OnUpdate /\ ~Healthy) ~> (pc = "run" /\ root = "partition")

\* An accepted update is on the partition at last, if the domain keeps being
\* started, unless the start fails for want of /dev.
AcceptedIsApplied ==
  ([]<>(pc = "init") /\ [](pc # "fatal" /\ ~lostCopy)) =>
    \A v \in Versions : (v \in accepted) ~> (rootfs.whole /\ rootfs.ver >= v)

\* finish_run takes it that there is a /dev on the root file system.
DevOnRootfs == pc # "fatal"

-----------------------------------------------------------------------------
(* What the update promises: StagedUpdate. A candidate is the image with a *)
(* do_update flag; it runs from the moment it is marked.                   *)

candidate == IF "do_update" \in flags THEN image.ver ELSE 0

verdict ==
  IF "do_apply" \in flags THEN "accepted"
  ELSE IF candidate # 0 /\ ("updated" \in flags \/ pc = "clear2") THEN "tried"
  ELSE "new"

running ==
  IF root # "partition" /\ pc \in {"switch", "run"} THEN "candidate"
  ELSE IF root = "partition" /\ pc = "run" THEN "installed"
  ELSE "none"

Staged == INSTANCE StagedUpdate WITH
  None <- 0, installed <- rootfs.ver, complete <- rootfs.whole, spoilt <- lostCopy

\* The flags, the script and the update manager, with every fault, implement the
\* staged update: a candidate runs once (again only if a power cut made its trial
\* forgotten) and is dropped or, if it was accepted, kept until it is installed.
ImplementsStaged == Staged!Spec

=============================================================================
