------------------------ MODULE RootfsUpdate_proofs ------------------------
(***************************************************************************)
(* What finish guarantees for any number of updates and of faults.         *)
(*                                                                         *)
(* The properties are not inductive: what a start does to the partition    *)
(* hangs on flags that earlier starts and the update manager left. IInv    *)
(* says which flags there are at each point of the script, and what they   *)
(* say of the image next to them.                                          *)
(* KeptInv is about what the update manager has accepted: it is not lost.  *)
(* With TrialInv they give the refinement of StagedUpdate.                 *)
(***************************************************************************)
EXTENDS RootfsUpdate, TLAPS

Applying == {"apply", "wipe", "wipe2", "copy", "copy2", "merge", "merge2", "applied"}

\* What the script has seen of the flags is still so.
ScriptInv ==
  /\ pc \in Applying => "do_apply" \in flags
  /\ pc \in {"wipe", "wipe2", "copy", "copy2"} => image.type = "full"
  /\ pc \in {"clear", "clear2", "mount", "mark"} => "do_apply" \notin flags
  /\ pc \in {"mount", "mark"} => "do_update" \in flags
  /\ pc = "mount" => "updated" \notin flags
  /\ pc \in {"action", "mount", "mark"} => "failed" \notin flags

\* An update runs only with its flag, and not after a failure.
RootInv ==
  root # "partition" =>
    pc \in {"mark", "switch", "run"} /\ "do_update" \in flags /\ "failed" \notin flags

\* The do_apply flag is there for an accepted image whose type is known.
AcceptedInv ==
  /\ rootfs.ver \in accepted
  /\ "do_apply" \in flags => "do_update" \in flags /\ image.ver \in accepted

\* The copy is not over before the partition is whole.
WholeInv ==
  /\ IncompleteIsKnown
  /\ pc = "applied" => rootfs.whole \/ lostCopy

\* An image that was tried, and whose flag is there, is marked.
TriedInv ==
  /\ image.ver <= staged /\ \A v \in tried : v <= staged
  /\ (image.ver \in tried /\ ~torn /\ "do_update" \in flags) =>
       ("updated" \in flags \/ pc = "clear2")

IInv == TypeOK /\ ScriptInv /\ RootInv /\ AcceptedInv /\ WholeInv /\ TriedInv

-----------------------------------------------------------------------------
\* Every image has a version.
LEMMA ImageTyped == \A i \in Images \cup {NoImage} : i.ver \in Versions
  BY BoundsAssumption DEF Images, NoImage, Versions

LEMMA InitIInv == Init => IInv
<1> SUFFICES ASSUME Init PROVE IInv
  OBVIOUS
<1>1. TypeOK
  <2>1. mounted \in BOOLEAN /\ torn \in BOOLEAN /\ lostCopy \in BOOLEAN
    BY Zenon DEF Init
  <2> QED
    BY <2>1, BoundsAssumption DEF Init, TypeOK, Versions
<1>2. ScriptInv /\ RootInv
  BY DEF Init, ScriptInv, RootInv, Applying
<1>3. AcceptedInv /\ WholeInv /\ TriedInv
  BY DEF Init, AcceptedInv, WholeInv, IncompleteIsKnown, TriedInv, NoImage
<1> QED
  BY <1>1, <1>2, <1>3 DEF IInv

\* The invariant holds through every step.
LEMMA NextIInv == IInv /\ [Next]_vars => IInv'
<1> SUFFICES ASSUME IInv, [Next]_vars PROVE IInv'
  OBVIOUS
<1> USE BoundsAssumption DEF IInv, vars, storage, booting, history, SetFlags, Goto, NoFault
<1>1. CASE PowerOn
  <2>1. TypeOK'
    BY <1>1 DEF PowerOn, TypeOK
  <2>2. ScriptInv'
    BY <1>1 DEF PowerOn, ScriptInv, Applying
  <2>3. RootInv'
    BY <1>1 DEF PowerOn, RootInv
  <2>4. AcceptedInv'
    BY <1>1 DEF PowerOn, AcceptedInv
  <2>5. WholeInv'
    BY <1>1 DEF PowerOn, WholeInv, IncompleteIsKnown
  <2>6. TriedInv'
    BY <1>1 DEF PowerOn, TriedInv
  <2> QED
    BY <2>1, <2>2, <2>3, <2>4, <2>5, <2>6
<1>2. CASE CheckDev
  <2>1. TypeOK'
    BY <1>2 DEF CheckDev, TypeOK
  <2>2. ScriptInv'
    BY <1>2 DEF CheckDev, ScriptInv, Applying
  <2>3. RootInv'
    BY <1>2 DEF CheckDev, RootInv
  <2>4. AcceptedInv'
    BY <1>2 DEF CheckDev, AcceptedInv
  <2>5. WholeInv'
    BY <1>2 DEF CheckDev, WholeInv, IncompleteIsKnown
  <2>6. TriedInv'
    BY <1>2 DEF CheckDev, TriedInv
  <2> QED
    BY <2>1, <2>2, <2>3, <2>4, <2>5, <2>6
<1>3. CASE MountData
  <2>1. TypeOK'
    <3>1. mounted' \in BOOLEAN
      BY <1>3, Zenon DEF MountData, TypeOK
    <3>2. faults' \in 0..MaxFaults
      BY <1>3 DEF MountData, Fault, TypeOK
    <3>3. flags' \subseteq Flags
      BY <1>3, Zenon DEF MountData, TypeOK
    <3> QED
      BY <1>3, <3>1, <3>2, <3>3 DEF MountData, TypeOK
  <2>2. ScriptInv'
    BY <1>3 DEF MountData, ScriptInv, Applying
  <2>3. RootInv'
    BY <1>3 DEF MountData, RootInv
  <2>4. AcceptedInv'
    BY <1>3 DEF MountData, AcceptedInv
  <2>5. WholeInv'
    BY <1>3 DEF MountData, WholeInv, IncompleteIsKnown
  <2>6. TriedInv'
    BY <1>3 DEF MountData, TriedInv
  <2> QED
    BY <2>1, <2>2, <2>3, <2>4, <2>5, <2>6
<1>4. CASE GetAction
  <2>1. TypeOK'
    BY <1>4 DEF GetAction, TypeOK
  <2>2. ScriptInv'
    BY <1>4 DEF GetAction, ScriptInv, Applying
  <2>3. RootInv'
    BY <1>4 DEF GetAction, RootInv
  <2>4. AcceptedInv'
    BY <1>4 DEF GetAction, AcceptedInv
  <2>5. WholeInv'
    BY <1>4 DEF GetAction, WholeInv, IncompleteIsKnown
  <2>6. TriedInv'
    BY <1>4 DEF GetAction, TriedInv
  <2> QED
    BY <2>1, <2>2, <2>3, <2>4, <2>5, <2>6
<1>5. CASE MountUpdate
  <2>1. TypeOK'
    BY <1>5 DEF MountUpdate, TypeOK
  <2>2. ScriptInv'
    BY <1>5 DEF MountUpdate, ScriptInv, Applying
  <2>3. RootInv'
    BY <1>5 DEF MountUpdate, ScriptInv, RootInv
  <2>4. AcceptedInv'
    BY <1>5 DEF MountUpdate, AcceptedInv
  <2>5. WholeInv'
    BY <1>5 DEF MountUpdate, WholeInv, IncompleteIsKnown
  <2>6. TriedInv'
    BY <1>5 DEF MountUpdate, TriedInv
  <2> QED
    BY <2>1, <2>2, <2>3, <2>4, <2>5, <2>6
<1>6. CASE MountUpdateFails
  <2>1. TypeOK'
    BY <1>6 DEF MountUpdateFails, SwitchIfFail, CannotMount, Fault, TypeOK, Flags
  <2>2. ScriptInv'
    BY <1>6 DEF MountUpdateFails, SwitchIfFail, ScriptInv, Applying
  <2>3. RootInv'
    BY <1>6 DEF MountUpdateFails, SwitchIfFail, RootInv
  <2>4. AcceptedInv'
    BY <1>6 DEF MountUpdateFails, SwitchIfFail, AcceptedInv
  <2>5. WholeInv'
    BY <1>6 DEF MountUpdateFails, SwitchIfFail, WholeInv, IncompleteIsKnown
  <2>6. TriedInv'
    BY <1>6 DEF MountUpdateFails, SwitchIfFail, TriedInv
  <2> QED
    BY <2>1, <2>2, <2>3, <2>4, <2>5, <2>6
<1>7. CASE MarkUpdated
  <2>1. TypeOK'
    BY ImageTyped, <1>7 DEF MarkUpdated, TypeOK, Flags
  <2>2. ScriptInv'
    BY <1>7 DEF MarkUpdated, ScriptInv, Applying
  <2>3. RootInv'
    BY <1>7 DEF MarkUpdated, RootInv
  <2>4. AcceptedInv'
    BY <1>7 DEF MarkUpdated, AcceptedInv
  <2>5. WholeInv'
    BY <1>7 DEF MarkUpdated, WholeInv, IncompleteIsKnown
  <2>6. TriedInv'
    BY <1>7 DEF MarkUpdated, TriedInv
  <2> QED
    BY <2>1, <2>2, <2>3, <2>4, <2>5, <2>6
<1>8. CASE ClearUpdated
  <2>1. TypeOK'
    BY <1>8 DEF ClearUpdated, TypeOK
  <2>2. ScriptInv'
    BY <1>8 DEF ClearUpdated, ScriptInv, Applying
  <2>3. RootInv'
    BY <1>8 DEF ClearUpdated, RootInv
  <2>4. AcceptedInv'
    BY <1>8 DEF ClearUpdated, AcceptedInv
  <2>5. WholeInv'
    BY <1>8 DEF ClearUpdated, WholeInv, IncompleteIsKnown
  <2>6. TriedInv'
    BY <1>8 DEF ClearUpdated, TriedInv
  <2> QED
    BY <2>1, <2>2, <2>3, <2>4, <2>5, <2>6
<1>9. CASE ClearDoUpdate
  <2>1. TypeOK'
    BY <1>9 DEF ClearDoUpdate, TypeOK
  <2>2. ScriptInv'
    BY <1>9 DEF ClearDoUpdate, ScriptInv, Applying
  <2>3. RootInv'
    BY <1>9 DEF ClearDoUpdate, RootInv
  <2>4. AcceptedInv'
    BY <1>9 DEF ClearDoUpdate, ScriptInv, AcceptedInv
  <2>5. WholeInv'
    BY <1>9 DEF ClearDoUpdate, WholeInv, IncompleteIsKnown
  <2>6. TriedInv'
    BY <1>9 DEF ClearDoUpdate, TriedInv
  <2> QED
    BY <2>1, <2>2, <2>3, <2>4, <2>5, <2>6
<1>10. CASE MountApplied
  <2>1. TypeOK'
    BY <1>10 DEF MountApplied, TypeOK
  <2>2. ScriptInv'
    BY <1>10 DEF MountApplied, UpdateType, ScriptInv, AcceptedInv, Applying
  <2>3. RootInv'
    BY <1>10 DEF MountApplied, RootInv
  <2>4. AcceptedInv'
    BY <1>10 DEF MountApplied, AcceptedInv
  <2>5. WholeInv'
    BY <1>10 DEF MountApplied, WholeInv, IncompleteIsKnown
  <2>6. TriedInv'
    BY <1>10 DEF MountApplied, TriedInv
  <2> QED
    BY <2>1, <2>2, <2>3, <2>4, <2>5, <2>6
<1>11. CASE MountAppliedFails
  <2>1. TypeOK'
    BY <1>11 DEF MountAppliedFails, SwitchIfFail, CannotMount, Fault, TypeOK, Flags
  <2>2. ScriptInv'
    BY <1>11 DEF MountAppliedFails, SwitchIfFail, ScriptInv, Applying
  <2>3. RootInv'
    BY <1>11 DEF MountAppliedFails, SwitchIfFail, RootInv
  <2>4. AcceptedInv'
    BY <1>11 DEF MountAppliedFails, SwitchIfFail, AcceptedInv
  <2>5. WholeInv'
    BY <1>11 DEF MountAppliedFails, SwitchIfFail, WholeInv, IncompleteIsKnown
  <2>6. TriedInv'
    BY <1>11 DEF MountAppliedFails, SwitchIfFail, TriedInv
  <2> QED
    BY <2>1, <2>2, <2>3, <2>4, <2>5, <2>6
<1>12. CASE Wipe
  <2>1. TypeOK'
    BY <1>12 DEF Wipe, Copying, TypeOK
  <2>2. ScriptInv'
    BY <1>12 DEF Wipe, Copying, ScriptInv, Applying
  <2>3. RootInv'
    BY <1>12 DEF Wipe, Copying, RootInv
  <2>4. AcceptedInv'
    BY <1>12 DEF Wipe, Copying, AcceptedInv
  <2>5. WholeInv'
    BY <1>12 DEF Wipe, Copying, ScriptInv, WholeInv, IncompleteIsKnown, Applying
  <2>6. TriedInv'
    BY <1>12 DEF Wipe, Copying, TriedInv
  <2> QED
    BY <2>1, <2>2, <2>3, <2>4, <2>5, <2>6
<1>13. CASE WipeDev
  <2>1. TypeOK'
    BY <1>13 DEF WipeDev, Copying, TypeOK
  <2>2. ScriptInv'
    BY <1>13 DEF WipeDev, Copying, ScriptInv, Applying
  <2>3. RootInv'
    BY <1>13 DEF WipeDev, Copying, RootInv
  <2>4. AcceptedInv'
    BY <1>13 DEF WipeDev, Copying, AcceptedInv
  <2>5. WholeInv'
    BY <1>13 DEF WipeDev, Copying, ScriptInv, WholeInv, IncompleteIsKnown, Applying
  <2>6. TriedInv'
    BY <1>13 DEF WipeDev, Copying, TriedInv
  <2> QED
    BY <2>1, <2>2, <2>3, <2>4, <2>5, <2>6
<1>14. CASE CopyDev
  <2>1. TypeOK'
    BY <1>14 DEF CopyDev, Copying, TypeOK
  <2>2. ScriptInv'
    BY <1>14 DEF CopyDev, Copying, ScriptInv, Applying
  <2>3. RootInv'
    BY <1>14 DEF CopyDev, Copying, RootInv
  <2>4. AcceptedInv'
    BY <1>14 DEF CopyDev, Copying, AcceptedInv
  <2>5. WholeInv'
    BY <1>14 DEF CopyDev, Copying, ScriptInv, WholeInv, IncompleteIsKnown, Applying
  <2>6. TriedInv'
    BY <1>14 DEF CopyDev, Copying, TriedInv
  <2> QED
    BY <2>1, <2>2, <2>3, <2>4, <2>5, <2>6
<1>15. CASE CopyTheRest
  <2>1. TypeOK'
    BY ImageTyped, <1>15 DEF CopyTheRest, Copying, TypeOK
  <2>2. ScriptInv'
    BY <1>15 DEF CopyTheRest, Copying, ScriptInv, Applying
  <2>3. RootInv'
    BY <1>15 DEF CopyTheRest, Copying, RootInv
  <2>4. AcceptedInv'
    BY <1>15 DEF CopyTheRest, Copying, ScriptInv, AcceptedInv, Applying
  <2>5. WholeInv'
    BY <1>15 DEF CopyTheRest, Copying, WholeInv, IncompleteIsKnown
  <2>6. TriedInv'
    BY <1>15 DEF CopyTheRest, Copying, TriedInv
  <2> QED
    BY <2>1, <2>2, <2>3, <2>4, <2>5, <2>6
<1>16. CASE CopyFails
  <2>1. TypeOK'
    BY <1>16 DEF CopyFails, SwitchIfFail, Fault, TypeOK, Flags
  <2>2. ScriptInv'
    BY <1>16 DEF CopyFails, SwitchIfFail, ScriptInv, Applying
  <2>3. RootInv'
    BY <1>16 DEF CopyFails, SwitchIfFail, RootInv
  <2>4. AcceptedInv'
    BY <1>16 DEF CopyFails, SwitchIfFail, AcceptedInv
  <2>5. WholeInv'
    BY <1>16 DEF CopyFails, SwitchIfFail, WholeInv, IncompleteIsKnown
  <2>6. TriedInv'
    BY <1>16 DEF CopyFails, SwitchIfFail, TriedInv
  <2> QED
    BY <2>1, <2>2, <2>3, <2>4, <2>5, <2>6
<1>17. CASE MergeSome
  <2>1. TypeOK'
    BY <1>17 DEF MergeSome, Copying, TypeOK
  <2>2. ScriptInv'
    BY <1>17 DEF MergeSome, Copying, ScriptInv, Applying
  <2>3. RootInv'
    BY <1>17 DEF MergeSome, Copying, RootInv
  <2>4. AcceptedInv'
    BY <1>17 DEF MergeSome, Copying, AcceptedInv
  <2>5. WholeInv'
    BY <1>17 DEF MergeSome, Copying, ScriptInv, WholeInv, IncompleteIsKnown, Applying
  <2>6. TriedInv'
    BY <1>17 DEF MergeSome, Copying, TriedInv
  <2> QED
    BY <2>1, <2>2, <2>3, <2>4, <2>5, <2>6
<1>18. CASE MergeTheRest
  <2>1. TypeOK'
    BY ImageTyped, <1>18 DEF MergeTheRest, Copying, TypeOK
  <2>2. ScriptInv'
    BY <1>18 DEF MergeTheRest, Copying, ScriptInv, Applying
  <2>3. RootInv'
    BY <1>18 DEF MergeTheRest, Copying, RootInv
  <2>4. AcceptedInv'
    BY <1>18 DEF MergeTheRest, Copying, ScriptInv, AcceptedInv, Applying
  <2>5. WholeInv'
    BY <1>18 DEF MergeTheRest, Copying, WholeInv, IncompleteIsKnown
  <2>6. TriedInv'
    BY <1>18 DEF MergeTheRest, Copying, TriedInv
  <2> QED
    BY <2>1, <2>2, <2>3, <2>4, <2>5, <2>6
<1>19. CASE MergeFails
  <2>1. TypeOK'
    BY <1>19 DEF MergeFails, Fault, TypeOK
  <2>2. ScriptInv'
    BY <1>19 DEF MergeFails, ScriptInv, Applying
  <2>3. RootInv'
    BY <1>19 DEF MergeFails, RootInv
  <2>4. AcceptedInv'
    BY <1>19 DEF MergeFails, AcceptedInv
  <2>5. WholeInv'
    BY <1>19 DEF MergeFails, WholeInv, IncompleteIsKnown
  <2>6. TriedInv'
    BY <1>19 DEF MergeFails, TriedInv
  <2> QED
    BY <2>1, <2>2, <2>3, <2>4, <2>5, <2>6
<1>20. CASE ApplyDone
  <2>1. TypeOK'
    BY <1>20 DEF ApplyDone, TypeOK
  <2>2. ScriptInv'
    BY <1>20 DEF ApplyDone, ScriptInv, Applying
  <2>3. RootInv'
    BY <1>20 DEF ApplyDone, RootInv
  <2>4. AcceptedInv'
    BY <1>20 DEF ApplyDone, AcceptedInv
  <2>5. WholeInv'
    BY <1>20 DEF ApplyDone, WholeInv, IncompleteIsKnown
  <2>6. TriedInv'
    BY <1>20 DEF ApplyDone, TriedInv
  <2> QED
    BY <2>1, <2>2, <2>3, <2>4, <2>5, <2>6
<1>21. CASE SwitchRoot
  <2>1. TypeOK'
    BY <1>21 DEF SwitchRoot, TypeOK
  <2>2. ScriptInv'
    BY <1>21 DEF SwitchRoot, ScriptInv, Applying
  <2>3. RootInv'
    BY <1>21 DEF SwitchRoot, RootInv
  <2>4. AcceptedInv'
    BY <1>21 DEF SwitchRoot, AcceptedInv
  <2>5. WholeInv'
    BY <1>21 DEF SwitchRoot, WholeInv, IncompleteIsKnown
  <2>6. TriedInv'
    BY <1>21 DEF SwitchRoot, TriedInv
  <2> QED
    BY <2>1, <2>2, <2>3, <2>4, <2>5, <2>6
<1>22. CASE StageUpdate
  <2>1. TypeOK'
    BY <1>22 DEF StageUpdate, TypeOK, Flags, Images
  <2>2. ScriptInv'
    BY <1>22 DEF StageUpdate, ScriptInv
  <2>3. RootInv'
    BY <1>22 DEF StageUpdate, RootInv
  <2>4. AcceptedInv'
    BY <1>22 DEF StageUpdate, AcceptedInv
  <2>5. WholeInv'
    BY <1>22 DEF StageUpdate, WholeInv, IncompleteIsKnown
  <2>6. TriedInv'
    BY <1>22 DEF StageUpdate, TypeOK, TriedInv, Versions
  <2> QED
    BY <2>1, <2>2, <2>3, <2>4, <2>5, <2>6
<1>23. CASE AcceptUpdate
  <2>1. TypeOK'
    BY ImageTyped, <1>23 DEF AcceptUpdate, TypeOK, Flags
  <2>2. ScriptInv'
    BY <1>23 DEF AcceptUpdate, OnUpdate, ScriptInv
  <2>3. RootInv'
    BY <1>23 DEF AcceptUpdate, RootInv
  <2>4. AcceptedInv'
    BY <1>23 DEF AcceptUpdate, OnUpdate, AcceptedInv, RootInv
  <2>5. WholeInv'
    BY <1>23 DEF AcceptUpdate, WholeInv, IncompleteIsKnown
  <2>6. TriedInv'
    BY <1>23 DEF AcceptUpdate, TriedInv
  <2> QED
    BY <2>1, <2>2, <2>3, <2>4, <2>5, <2>6
<1>24. CASE DropUpdate
  <2>1. TypeOK'
    BY <1>24 DEF DropUpdate, TypeOK
  <2>2. ScriptInv'
    BY <1>24 DEF DropUpdate, ScriptInv
  <2>3. RootInv'
    BY <1>24 DEF DropUpdate, RootInv
  <2>4. AcceptedInv'
    BY <1>24 DEF DropUpdate, AcceptedInv
  <2>5. WholeInv'
    BY <1>24 DEF DropUpdate, WholeInv, IncompleteIsKnown
  <2>6. TriedInv'
    BY <1>24 DEF DropUpdate, TypeOK, TriedInv, Versions, NoImage
  <2> QED
    BY <2>1, <2>2, <2>3, <2>4, <2>5, <2>6
<1>25. CASE Reboot
  <2>1. TypeOK'
    BY <1>25 DEF Reboot, Restarted, TypeOK
  <2>2. ScriptInv'
    BY <1>25 DEF Reboot, Restarted, ScriptInv, Applying
  <2>3. RootInv'
    BY <1>25 DEF Reboot, Restarted, RootInv
  <2>4. AcceptedInv'
    BY <1>25 DEF Reboot, AcceptedInv
  <2>5. WholeInv'
    BY <1>25 DEF Reboot, Restarted, WholeInv, IncompleteIsKnown
  <2>6. TriedInv'
    BY <1>25 DEF Reboot, TriedInv
  <2> QED
    BY <2>1, <2>2, <2>3, <2>4, <2>5, <2>6
<1>26. CASE RebootFailed
  <2>1. TypeOK'
    BY <1>26 DEF RebootFailed, Restarted, TypeOK
  <2>2. ScriptInv'
    BY <1>26 DEF RebootFailed, Restarted, ScriptInv, Applying
  <2>3. RootInv'
    BY <1>26 DEF RebootFailed, Restarted, RootInv
  <2>4. AcceptedInv'
    BY <1>26 DEF RebootFailed, AcceptedInv
  <2>5. WholeInv'
    BY <1>26 DEF RebootFailed, Restarted, WholeInv, IncompleteIsKnown
  <2>6. TriedInv'
    BY <1>26 DEF RebootFailed, TriedInv
  <2> QED
    BY <2>1, <2>2, <2>3, <2>4, <2>5, <2>6
<1>27. CASE PowerCut
  <2>1. TypeOK'
    <3>1. torn' \in BOOLEAN
      BY <1>27, Zenon DEF PowerCut
    <3>2. faults' \in 0..MaxFaults
      BY <1>27 DEF PowerCut, Fault, TypeOK
    <3>3. flags' \subseteq Flags
      BY <1>27, Zenon DEF PowerCut, TypeOK
    <3> QED
      BY <1>27, <3>1, <3>2, <3>3 DEF PowerCut, Restarted, TypeOK
  <2>2. ScriptInv'
    BY <1>27 DEF PowerCut, Restarted, ScriptInv, Applying
  <2>3. RootInv'
    BY <1>27 DEF PowerCut, Restarted, RootInv
  <2>4. AcceptedInv'
    BY <1>27 DEF PowerCut, AcceptedInv
  <2>5. WholeInv'
    BY <1>27 DEF PowerCut, Restarted, WholeInv, IncompleteIsKnown
  <2>6. TriedInv'
    BY <1>27 DEF PowerCut, TriedInv
  <2> QED
    BY <2>1, <2>2, <2>3, <2>4, <2>5, <2>6
<1>28. CASE UNCHANGED vars
  BY <1>28 DEF TypeOK, ScriptInv, RootInv, AcceptedInv, WholeInv, IncompleteIsKnown,
     TriedInv
<1> QED
  BY <1>1, <1>2, <1>3, <1>4, <1>5, <1>6, <1>7, <1>8, <1>9, <1>10, <1>11, <1>12, <1>13,
     <1>14, <1>15, <1>16, <1>17, <1>18, <1>19, <1>20, <1>21, <1>22, <1>23, <1>24, <1>25,
     <1>26, <1>27, <1>28 DEF Next, BootStep

THEOREM Invariant == Spec => []IInv
  BY InitIInv, NextIInv, PTL DEF Spec

\* Every variable keeps its type.
THEOREM TypeCorrect == Spec => []TypeOK
<1>1. IInv => TypeOK
  BY DEF IInv
<1> QED
  BY <1>1, Invariant, PTL

\* Nothing of an update gets to the partition before the update manager has
\* accepted it, whatever is lost or fails and however often the domain starts.
OnlyAccepted ==
  /\ rootfs.ver \in accepted
  /\ pc \in {"wipe2", "copy", "copy2", "merge2", "applied"} => image.ver \in accepted

\* What reaches the partition was accepted, in any number of starts.
THEOREM OnlyAcceptedApplied == Spec => []OnlyAccepted
<1>1. IInv => OnlyAccepted
  BY DEF IInv, OnlyAccepted, AcceptedInv, ScriptInv, Applying
<1> QED
  BY <1>1, Invariant, PTL

\* Only a full update wipes the partition.
THEOREM FullOnlyWipes == Spec => []WipedForFullOnly
<1>1. IInv => WipedForFullOnly
  BY DEF IInv, WipedForFullOnly, ScriptInv
<1> QED
  BY <1>1, Invariant, PTL

\* A partition that is not all there is applied to again at the next start.
THEOREM IncompleteKnown == Spec => []IncompleteIsKnown
<1>1. IInv => IncompleteIsKnown
  BY DEF IInv, WholeInv
<1> QED
  BY <1>1, Invariant, PTL

\* An update that was tried is not tried again, unless power was lost between
\* clearing the two flags.
THEOREM NotTriedAgain == Spec => TriedOnce
<1>1. IInv /\ [Next]_vars => [(pc = "mount" /\ pc' = "mark") =>
                                (image.ver \notin tried \/ torn)]_vars
  BY DEF IInv, ScriptInv, TriedInv
<1> QED
  BY <1>1, Invariant, PTL DEF Spec, TriedOnce

-----------------------------------------------------------------------------
(***************************************************************************)
(* What becomes of an accepted update. That it gets to the partition at    *)
(* last (AcceptedIsApplied) needs fairness; that no crash, fault or later  *)
(* update takes it away is an invariant.                                   *)
(***************************************************************************)

\* An accepted update, or a later one, is on the partition, or the flag and the
\* image of it are still there for the next start. (The untested errors of the
\* incremental copy are excused.)
AcceptedKept ==
  \A v \in accepted : \/ lostCopy \/ rootfs.ver >= v
                      \/ "do_apply" \in flags /\ image.ver = v

\* Only an image that ran well is marked for the partition, and the partition
\* has the marked version before the flag goes.
KeptInv ==
  /\ image = NoImage \/ image.ver = staged
  /\ \A v \in accepted : v <= staged
  /\ "do_apply" \in flags => image.is = "good"
  /\ pc = "applied" => lostCopy \/ rootfs.ver = image.ver
  /\ AcceptedKept

\* A step that takes no part in it.
KeptQuiet ==
  /\ UNCHANGED <<image, rootfs.ver, accepted, staged, lostCopy>>
  /\ ("do_apply" \in flags') <=> ("do_apply" \in flags)
  /\ pc' # "applied"

KeptStep ==
  CopyTheRest \/ MergeTheRest \/ MergeFails \/ ApplyDone \/ StageUpdate \/ AcceptUpdate
    \/ DropUpdate

LEMMA NextKept ==
  ASSUME IInv, [Next]_vars, ~KeptStep
  PROVE  KeptQuiet \/ UNCHANGED vars
<1> USE DEF KeptQuiet, storage, booting, history, SetFlags, Goto
<1>0. rootfs \in [ver : Versions, whole : BOOLEAN, dev : BOOLEAN]
  BY DEF IInv, TypeOK
<1>1. CASE PowerOn \/ CheckDev \/ MountData \/ GetAction
  BY <1>1 DEF PowerOn, CheckDev, MountData, GetAction
<1>2. CASE MountUpdate \/ MountUpdateFails \/ MarkUpdated
  BY <1>2 DEF MountUpdate, MountUpdateFails, MarkUpdated, SwitchIfFail
<1>3. CASE ClearUpdated \/ ClearDoUpdate
  BY <1>3 DEF ClearUpdated, ClearDoUpdate
<1>4. CASE MountApplied \/ MountAppliedFails \/ CopyFails
  BY <1>4 DEF MountApplied, MountAppliedFails, CopyFails, SwitchIfFail
<1>5. CASE Wipe \/ WipeDev \/ CopyDev \/ MergeSome
  BY <1>0, <1>5 DEF Wipe, WipeDev, CopyDev, MergeSome, Copying
<1>6. CASE SwitchRoot \/ Reboot \/ RebootFailed \/ PowerCut
  BY <1>6 DEF SwitchRoot, Reboot, RebootFailed, PowerCut, Restarted
<1> QED
  BY <1>1, <1>2, <1>3, <1>4, <1>5, <1>6 DEF KeptStep, Next, BootStep

\* KeptInv holds through every step, and none takes the version back.
LEMMA NextKeptInv ==
  IInv /\ KeptInv /\ [Next]_vars => KeptInv' /\ rootfs'.ver >= rootfs.ver
<1> SUFFICES ASSUME IInv, KeptInv, [Next]_vars
             PROVE  KeptInv' /\ rootfs'.ver >= rootfs.ver
  OBVIOUS
<1> USE BoundsAssumption DEF storage, booting, history, SetFlags, Goto
<1>0. /\ rootfs.ver \in Nat /\ image.ver \in Nat /\ staged \in Nat
      /\ accepted \subseteq Nat /\ rootfs.ver <= staged
      /\ pc \in Applying => "do_apply" \in flags
      /\ NoImage.is = "corrupt"
  <2>1. image.ver \in Versions
    BY ImageTyped DEF IInv, TypeOK
  <2> QED
    BY <2>1 DEF IInv, TypeOK, AcceptedInv, ScriptInv, KeptInv, Versions, NoImage
<1>1. ASSUME "do_apply" \in flags PROVE image.ver = staged
  BY <1>0, <1>1 DEF KeptInv
<1>2. CASE CopyTheRest \/ MergeTheRest
  <2>1. pc \in Applying /\ rootfs'.ver = image.ver /\ pc' = "applied"
        /\ UNCHANGED <<image, flags, accepted, staged, lostCopy>>
    BY <1>2 DEF CopyTheRest, MergeTheRest, Copying, Applying
  <2> QED
    BY <1>0, <1>1, <2>1 DEF KeptInv, AcceptedKept
<1>3. CASE MergeFails
  <2>1. lostCopy' /\ UNCHANGED <<image, rootfs, flags, accepted, staged>>
    BY <1>3 DEF MergeFails
  <2> QED
    BY <1>0, <2>1 DEF KeptInv, AcceptedKept
<1>4. CASE ApplyDone
  <2>1. /\ pc = "applied" /\ pc' = "switch" /\ flags' = flags \ {"do_apply"}
        /\ UNCHANGED <<image, rootfs, accepted, staged, lostCopy>>
    BY <1>4 DEF ApplyDone
  <2> QED
    BY <1>0, <2>1 DEF KeptInv, AcceptedKept
<1>5. CASE StageUpdate
  <2>1. /\ "do_apply" \notin flags /\ flags' = {"do_update"} /\ staged' = staged + 1
        /\ image'.ver = staged + 1 /\ pc' = pc /\ pc = "run"
        /\ UNCHANGED <<rootfs, accepted, lostCopy>>
    BY <1>5 DEF StageUpdate
  <2> QED
    BY <1>0, <2>1 DEF KeptInv, AcceptedKept
<1>6. CASE AcceptUpdate
  <2>1. /\ image.is = "good" /\ "do_apply" \notin flags /\ "do_apply" \in flags'
        /\ accepted' = accepted \cup {image.ver} /\ pc' = pc /\ pc = "run"
        /\ UNCHANGED <<image, rootfs, staged, lostCopy>>
    BY <1>6 DEF AcceptUpdate, OnUpdate, Healthy
  <2> QED
    BY <1>0, <2>1 DEF KeptInv, AcceptedKept
<1>7. CASE DropUpdate
  <2>1. /\ "do_apply" \notin flags /\ flags' = {} /\ image' = NoImage /\ pc' = pc /\ pc = "run"
        /\ UNCHANGED <<rootfs, accepted, staged, lostCopy>>
    BY <1>7 DEF DropUpdate
  <2> QED
    BY <1>0, <2>1 DEF KeptInv, AcceptedKept
<1>8. CASE KeptQuiet
  BY <1>0, <1>8 DEF KeptQuiet, KeptInv, AcceptedKept
<1>9. CASE UNCHANGED vars
  <2>1. UNCHANGED <<flags, image, rootfs, pc, accepted, lostCopy, staged>>
    BY <1>9 DEF vars
  <2> QED
    BY <1>0, <2>1 DEF KeptInv, AcceptedKept
<1> QED
  BY <1>2, <1>3, <1>4, <1>5, <1>6, <1>7, <1>8, <1>9, NextKept DEF KeptStep

LEMMA KeptInductive == Spec => []KeptInv
<1>1. Init => KeptInv
  BY DEF Init, KeptInv, AcceptedKept, NoImage
<1> QED
  BY <1>1, Invariant, NextKeptInv, PTL DEF Spec

\* Whatever is lost or fails, and whatever is staged after it, an accepted
\* update is not lost.
THEOREM AcceptedNotLost == Spec => []AcceptedKept
<1>1. KeptInv => AcceptedKept
  BY DEF KeptInv
<1> QED
  BY <1>1, KeptInductive, PTL

\* Only an image that ran well is copied to the partition, and the partition
\* never goes back to an earlier version.
THEOREM NeverDowngraded ==
  Spec => [][/\ rootfs'.ver >= rootfs.ver
             /\ rootfs'.ver # rootfs.ver => image.is = "good"]_vars
<1>1. IInv /\ KeptInv /\ [Next]_vars =>
        [/\ rootfs'.ver >= rootfs.ver
         /\ rootfs'.ver # rootfs.ver => image.is = "good"]_vars
  <2> SUFFICES ASSUME IInv, KeptInv, [Next]_vars, rootfs'.ver # rootfs.ver
               PROVE  image.is = "good"
    BY NextKeptInv
  <2>1. ~KeptQuiet /\ ~UNCHANGED vars
    BY DEF KeptQuiet, vars, storage
  <2>2. CopyTheRest \/ MergeTheRest
    BY <2>1, NextKept DEF KeptStep, MergeFails, ApplyDone, StageUpdate, AcceptUpdate,
       DropUpdate, SetFlags, storage
  <2>3. pc \in Applying
    BY <2>2 DEF CopyTheRest, MergeTheRest, Copying, Applying
  <2> QED
    BY <2>3 DEF IInv, ScriptInv, KeptInv
<1> QED
  BY <1>1, Invariant, KeptInductive, PTL DEF Spec

-----------------------------------------------------------------------------
(***************************************************************************)
(* The refinement of StagedUpdate.  TrialInv says when the updated flag is *)
(* there: from the mark until the update is dropped.                       *)
(***************************************************************************)

TrialInv ==
  /\ "do_update" \in flags => image.ver # 0
  /\ "do_apply" \in flags => "updated" \in flags
  /\ pc = "mark" => root # "partition" /\ "updated" \notin flags
  /\ pc = "clear" /\ "do_update" \in flags => "updated" \in flags
  /\ root # "partition" /\ pc \in {"switch", "run"} => "updated" \in flags

\* It holds through every step.
LEMMA NextTrialInv == IInv /\ TrialInv /\ [Next]_vars => TrialInv'
<1> SUFFICES ASSUME IInv, TrialInv, [Next]_vars PROVE TrialInv'
  OBVIOUS
<1> USE DEF TrialInv, storage, booting, SetFlags, Goto
<1>0. ScriptInv /\ RootInv /\ rootfs \in [ver : Versions, whole : BOOLEAN, dev : BOOLEAN]
  BY DEF IInv, TypeOK
<1>1. CASE PowerOn \/ CheckDev \/ MountData
  BY <1>0, <1>1 DEF PowerOn, CheckDev, MountData, RootInv
<1>2. CASE GetAction
  BY <1>0, <1>2 DEF GetAction, RootInv
<1>3. CASE MountUpdate
  BY <1>0, <1>3 DEF MountUpdate, ScriptInv, UpdateType
<1>4. CASE MountUpdateFails \/ MountAppliedFails \/ CopyFails
  BY <1>0, <1>4 DEF MountUpdateFails, MountAppliedFails, CopyFails, SwitchIfFail, RootInv
<1>5. CASE MarkUpdated
  BY <1>5 DEF MarkUpdated
<1>6. CASE ClearUpdated \/ ClearDoUpdate
  BY <1>0, <1>6 DEF ClearUpdated, ClearDoUpdate, ScriptInv, RootInv
<1>7. CASE MountApplied \/ Wipe \/ WipeDev \/ CopyDev \/ CopyTheRest \/ MergeSome \/ MergeTheRest
  BY <1>0, <1>7 DEF MountApplied, Wipe, WipeDev, CopyDev, CopyTheRest, MergeSome,
     MergeTheRest, Copying, RootInv
<1>8. CASE MergeFails \/ ApplyDone \/ SwitchRoot
  BY <1>0, <1>8 DEF MergeFails, ApplyDone, SwitchRoot, RootInv
<1>9. CASE StageUpdate
  BY <1>9, BoundsAssumption DEF StageUpdate, Images, Versions
<1>10. CASE AcceptUpdate \/ DropUpdate
  BY <1>0, <1>10 DEF AcceptUpdate, DropUpdate, OnUpdate, RootInv
<1>11. CASE Reboot \/ RebootFailed \/ PowerCut
  BY <1>11 DEF Reboot, RebootFailed, PowerCut, Restarted
<1>12. CASE UNCHANGED vars
  BY <1>12 DEF vars
<1> QED
  BY <1>1, <1>2, <1>3, <1>4, <1>5, <1>6, <1>7, <1>8, <1>9, <1>10, <1>11, <1>12
     DEF Next, BootStep

\* What the abstract update has of the state.
Seen == <<rootfs.ver, rootfs.whole, candidate, verdict, running, lostCopy>>

LEMMA StepStaged ==
  IInv /\ KeptInv /\ TrialInv /\ [Next]_vars => [Staged!Next]_(Staged!vars)
<1> SUFFICES ASSUME IInv, KeptInv, TrialInv, [Next]_vars
             PROVE  Staged!Next \/ UNCHANGED Seen
  BY DEF Staged!vars, Seen
<1> USE DEF storage, booting, history, SetFlags, Goto, Seen
<1>0. /\ rootfs \in [ver : Versions, whole : BOOLEAN, dev : BOOLEAN]
      /\ rootfs.ver \in Nat /\ staged \in Nat /\ rootfs.ver <= staged
      /\ ScriptInv /\ RootInv /\ WholeInv
      /\ "do_apply" \in flags => "do_update" \in flags
  BY BoundsAssumption DEF IInv, TypeOK, AcceptedInv, KeptInv, Versions
\* The script, where the abstract update sees nothing or a start.
<1>1. CASE PowerOn \/ CheckDev \/ MountData
  BY <1>0, <1>1 DEF PowerOn, CheckDev, MountData, RootInv, candidate, verdict, running
<1>2. CASE GetAction \/ MountUpdate
  BY <1>0, <1>2 DEF GetAction, MountUpdate, ScriptInv, RootInv, candidate, verdict, running
<1>3. CASE MountUpdateFails \/ MountAppliedFails \/ CopyFails
  BY <1>0, <1>3 DEF MountUpdateFails, MountAppliedFails, CopyFails, SwitchIfFail, RootInv,
     candidate, verdict, running
<1>4. CASE MarkUpdated
  <2>1. Staged!Try
    BY <1>0, <1>4 DEF Staged!Try, MarkUpdated, ScriptInv, TrialInv, candidate, verdict,
       running
  <2> QED
    BY <2>1 DEF Staged!Next
<1>5. CASE SwitchRoot
  <2>1. CASE root = "partition"
    <3>1. Staged!Start
      BY <1>5, <2>1 DEF Staged!Start, SwitchRoot, candidate, verdict, running
    <3> QED
      BY <3>1 DEF Staged!Next
  <2>2. CASE root # "partition"
    BY <1>5, <2>2 DEF SwitchRoot, candidate, verdict, running
  <2> QED
    BY <2>1, <2>2
\* The end of a candidate.
<1>6. CASE ClearUpdated
  BY <1>0, <1>6 DEF ClearUpdated, ScriptInv, RootInv, TrialInv, candidate, verdict, running
<1>7. CASE ClearDoUpdate
  <2>0. /\ pc = "clear2" /\ flags' = flags \ {"do_update"} /\ pc' = "switch"
        /\ UNCHANGED <<image, rootfs, root, lostCopy>>
        /\ "do_apply" \notin flags /\ root = "partition"
    BY <1>0, <1>7 DEF ClearDoUpdate, ScriptInv, RootInv
  <2>1. CASE "do_update" \in flags
    <3>1. Staged!Drop
      BY <2>0, <2>1 DEF Staged!Drop, TrialInv, candidate, verdict, running
    <3> QED
      BY <3>1 DEF Staged!Next
  <2>2. CASE "do_update" \notin flags
    BY <2>0, <2>2 DEF candidate, verdict, running
  <2> QED
    BY <2>1, <2>2
<1>8. CASE DropUpdate
  <2>0. /\ pc = "run" /\ pc' = pc /\ "do_apply" \notin flags /\ flags' = {}
        /\ UNCHANGED <<rootfs, root, lostCopy>>
    BY <1>8 DEF DropUpdate
  <2>1. CASE "do_update" \in flags
    <3>1. Staged!Drop
      BY <2>0, <2>1 DEF Staged!Drop, TrialInv, candidate, verdict, running
    <3> QED
      BY <3>1 DEF Staged!Next
  <2>2. CASE "do_update" \notin flags
    BY <2>0, <2>2 DEF candidate, verdict, running
  <2> QED
    BY <2>1, <2>2
\* What is done to the partition.
<1>9. CASE MountApplied
  BY <1>0, <1>9 DEF MountApplied, ScriptInv, RootInv, Applying, candidate, verdict, running
<1>10. CASE Wipe \/ WipeDev \/ CopyDev \/ MergeSome
  <2>0. /\ pc \in Applying /\ pc' \in Applying /\ "do_apply" \in flags /\ root = "partition"
        /\ rootfs'.ver = rootfs.ver /\ rootfs'.whole = FALSE
        /\ UNCHANGED <<image, flags, root, lostCopy>>
    BY <1>0, <1>10 DEF Wipe, WipeDev, CopyDev, MergeSome, Copying, ScriptInv, RootInv, Applying
  <2>1. Staged!Replace
    BY <2>0 DEF Staged!Replace, Applying, candidate, verdict, running
  <2> QED
    BY <2>1 DEF Staged!Next
<1>11. CASE CopyTheRest \/ MergeTheRest
  <2>0. /\ pc \in Applying /\ pc' \in Applying /\ "do_apply" \in flags /\ root = "partition"
        /\ rootfs'.ver = image.ver /\ rootfs'.whole = TRUE
        /\ UNCHANGED <<image, flags, root, lostCopy>>
    BY <1>0, <1>11 DEF CopyTheRest, MergeTheRest, Copying, ScriptInv, RootInv, Applying
  <2>1. Staged!Install
    BY <1>0, <2>0 DEF Staged!Install, Applying, candidate, verdict, running
  <2> QED
    BY <2>1 DEF Staged!Next
<1>12. CASE MergeFails
  <2>1. Staged!Spoil
    BY <1>0, <1>12 DEF Staged!Spoil, MergeFails, ScriptInv, RootInv, Applying, candidate,
       verdict, running
  <2> QED
    BY <2>1 DEF Staged!Next
<1>13. CASE ApplyDone
  <2>0. /\ pc = "applied" /\ pc' = "switch" /\ "do_apply" \in flags
        /\ flags' = flags \ {"do_apply"} /\ root = "partition"
        /\ UNCHANGED <<image, rootfs, root, lostCopy>>
        /\ (rootfs.ver = image.ver /\ rootfs.whole) \/ lostCopy
    BY <1>0, <1>13 DEF ApplyDone, ScriptInv, RootInv, WholeInv, KeptInv, Applying
  <2>1. Staged!Installed
    BY <1>0, <2>0 DEF Staged!Installed, TrialInv, candidate, verdict, running
  <2> QED
    BY <2>1 DEF Staged!Next
\* The update manager, and the ends of a run.
<1>14. CASE StageUpdate
  <2>0. /\ pc = "run" /\ root = "partition" /\ flags \cap {"do_update", "do_apply"} = {}
        /\ flags' = {"do_update"} /\ image'.ver = staged + 1 /\ staged + 1 \in Versions
        /\ UNCHANGED <<rootfs, pc, root, lostCopy>>
    BY <1>0, <1>14, BoundsAssumption DEF StageUpdate, Versions
  <2>1. Staged!Offer(staged + 1)
    BY <1>0, <2>0 DEF Staged!Offer, candidate, verdict, running
  <2> QED
    BY <2>0, <2>1 DEF Staged!Next
<1>15. CASE AcceptUpdate
  <2>1. Staged!Accept
    BY <1>0, <1>15 DEF Staged!Accept, AcceptUpdate, OnUpdate, RootInv, TrialInv, candidate,
       verdict, running
  <2> QED
    BY <2>1 DEF Staged!Next
<1>16. CASE Reboot \/ RebootFailed \/ PowerCut
  <2>0. /\ pc' = "off" /\ root' = "partition"
        /\ pc = "clear2" => root = "partition" /\ "do_apply" \notin flags
        /\ UNCHANGED <<flags, image, rootfs, lostCopy>>
    BY <1>0, <1>16 DEF Reboot, RebootFailed, PowerCut, Restarted, ScriptInv, RootInv
  <2>1. CASE verdict' = verdict
    <3>1. Staged!Stop
      BY <2>0, <2>1 DEF Staged!Stop, candidate, running
    <3> QED
      BY <3>1 DEF Staged!Next
  <2>2. CASE verdict' # verdict
    <3>1. Staged!Forget
      BY <2>0, <2>2 DEF Staged!Forget, candidate, verdict, running
    <3> QED
      BY <3>1 DEF Staged!Next
  <2> QED
    BY <2>1, <2>2
<1>17. CASE UNCHANGED vars
  BY <1>17 DEF vars, candidate, verdict, running
<1> QED
  BY <1>1, <1>2, <1>3, <1>4, <1>5, <1>6, <1>7, <1>8, <1>9, <1>10, <1>11, <1>12, <1>13,
     <1>14, <1>15, <1>16, <1>17 DEF Next, BootStep

LEMMA InitStaged == Init => Staged!Init
  BY BoundsAssumption DEF Init, Staged!Init, candidate, verdict, running, Versions

\* For any number of updates and of faults, finish, its flags and the update
\* manager together are the staged update that StagedUpdate describes.
THEOREM Implements == Spec => ImplementsStaged
<1>1. Init => TrialInv
  BY DEF Init, TrialInv
<1>2. Spec => [](IInv /\ KeptInv /\ TrialInv)
  BY <1>1, Invariant, KeptInductive, NextTrialInv, PTL DEF Spec
<1>3. QED
  BY <1>2, InitStaged, StepStaged, PTL DEF Spec, ImplementsStaged, Staged!Spec

=============================================================================
