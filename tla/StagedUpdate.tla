---------------------------- MODULE StagedUpdate ----------------------------
(***************************************************************************)
(* What the update of a root file system promises, without a word of how:  *)
(* no start script, no flags, no mounts.  A candidate is offered, runs     *)
(* once on trial, is accepted or not, and only an accepted one replaces    *)
(* what is installed; it is kept until it has.  RootfsUpdate implements    *)
(* it.                                                                     *)
(***************************************************************************)
EXTENDS Naturals

CONSTANTS
  Versions,   (* what may be installed: numbers                           *)
  None        (* no candidate: a version that is never offered             *)

VARIABLES
  installed,  (* the version that is installed                            *)
  complete,   (* is all of it there                                       *)
  candidate,  (* the version on offer, or None                            *)
  verdict,    (* of the candidate: "new", "tried" or "accepted"           *)
  running,    (* "installed", "candidate" or "none"                       *)
  spoilt      (* an installation went wrong and nobody noticed            *)

vars == <<installed, complete, candidate, verdict, running, spoilt>>

Init ==
  /\ installed \in Versions /\ complete = TRUE
  /\ candidate = None /\ verdict = "new"
  /\ running = "none" /\ spoilt = FALSE

\* What is installed runs, and is offered a later version.
Offer(v) ==
  /\ running = "installed" /\ candidate = None
  /\ v > installed
  /\ candidate' = v /\ verdict' = "new"
  /\ UNCHANGED <<installed, complete, running, spoilt>>

\* A new candidate runs on trial.
Try ==
  /\ running = "none" /\ candidate # None /\ verdict = "new"
  /\ running' = "candidate" /\ verdict' = "tried"
  /\ UNCHANGED <<installed, complete, candidate, spoilt>>

\* What is installed runs.
Start ==
  /\ running = "none" /\ running' = "installed"
  /\ UNCHANGED <<installed, complete, candidate, verdict, spoilt>>

\* Only a candidate that runs is accepted.
Accept ==
  /\ running = "candidate" /\ verdict = "tried"
  /\ verdict' = "accepted"
  /\ UNCHANGED <<installed, complete, candidate, running, spoilt>>

\* A candidate that was not accepted, or has been installed, is dropped.
Drop ==
  /\ candidate # None /\ verdict # "accepted"
  /\ candidate' = None /\ verdict' = "new"
  /\ UNCHANGED <<installed, complete, running, spoilt>>

\* Only an accepted candidate replaces what is installed, while nothing runs.
Replace ==
  /\ running = "none" /\ verdict = "accepted"
  /\ complete' = FALSE
  /\ UNCHANGED <<installed, candidate, verdict, running, spoilt>>

Install ==
  /\ running = "none" /\ verdict = "accepted"
  /\ installed' = candidate /\ complete' = TRUE
  /\ UNCHANGED <<candidate, verdict, running, spoilt>>

Spoil ==
  /\ running = "none" /\ verdict = "accepted"
  /\ spoilt' = TRUE
  /\ UNCHANGED <<installed, complete, candidate, verdict, running>>

\* It is accepted until it is installed.
Installed ==
  /\ running = "none" /\ verdict = "accepted"
  /\ (installed = candidate /\ complete) \/ spoilt
  /\ verdict' = "tried"
  /\ UNCHANGED <<installed, complete, candidate, running, spoilt>>

\* Whatever runs stops.
Stop ==
  /\ running' = "none"
  /\ UNCHANGED <<installed, complete, candidate, verdict, spoilt>>

\* Power is lost while a tried candidate is dropped: it is a new one again.
Forget ==
  /\ running = "none" /\ verdict = "tried"
  /\ verdict' = "new"
  /\ UNCHANGED <<installed, complete, candidate, running, spoilt>>

Next ==
  \/ \E v \in Versions : Offer(v)
  \/ Try \/ Start \/ Accept \/ Drop
  \/ Replace \/ Install \/ Spoil \/ Installed
  \/ Stop \/ Forget

Spec == Init /\ [][Next]_vars

=============================================================================
