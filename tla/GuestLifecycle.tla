--------------------------- MODULE GuestLifecycle ---------------------------
(***************************************************************************)
(* How Dom0 starts, watches and stops DomF: the init script guest_domf,    *)
(* the background shells it starts (start_guest.sh, which waits for DomD's *)
(* bridge, and then dom_watcher.sh, which waits for DomF's wish to have    *)
(* the board rebooted), and what they meet in xenstore: DomD and its unit  *)
(* bridge-up-notification, DomF and its finish.sh.  DomD's own init script *)
(* is seen from outside; its watcher is the same script.                   *)
(***************************************************************************)
EXTENDS Integers, FiniteSets

CONSTANTS
  Shells,   (* bound: background shells at a time                         *)
  MaxIds    (* bound: domain ids given                                    *)

ASSUME ShellsAssumption == IsFiniteSet(Shells)
ASSUME BoundsAssumption == MaxIds \in Nat

Ids == 1..MaxIds
NoId == 0     \* xl domid fails, the id is empty

VARIABLES
  domd, domf,       (* the ids of the domains that run                    *)
  lastId,           (* the last id given                                  *)
  status,           (* drivers/bridge/status of DomD                      *)
  over,             (* systemd starts the bridge unit no more             *)
  reboot, writable, (* DomF's control/user-reboot, may DomF write it      *)
  cmd,              (* how far guest_domf has got                         *)
  waitFor,          (* the domain xl shutdown -w waits for                *)
  pipe,             (* /tmp/domf_xenstore exists                          *)
  rebootPipes,      (* the ids of /tmp/<id>-reboot                        *)
  (* background shells *)
  pc, killed, backend, watched,
  event,            (* xenstore-watch has written something to the pipe   *)
  rebooting         (* Dom0 goes down                                     *)

bridge == <<status, over>>
node   == <<reboot, writable>>
init   == <<cmd, waitFor>>
pipes  == <<pipe, rebootPipes>>
shell  == <<pc, killed, backend, watched, event>>
ids    == <<domd, domf, lastId>>
vars   == <<ids, bridge, node, init, pipes, shell, rebooting>>

StartGuest == {"mkfifo", "wait", "check", "create"}
Watcher == {"domid", "mark", "chmod", "listen", "watch"}

Init ==
  /\ domd = NoId /\ domf = NoId /\ lastId = 0
  /\ status = "none" /\ over = FALSE /\ reboot = 0 /\ writable = FALSE
  /\ cmd = "idle" /\ waitFor = NoId
  /\ pipe = FALSE /\ rebootPipes = {}
  /\ pc = [s \in Shells |-> "done"] /\ killed = [s \in Shells |-> FALSE]
  /\ backend = [s \in Shells |-> NoId] /\ watched = [s \in Shells |-> NoId]
  /\ event = [s \in Shells |-> FALSE] /\ rebooting = FALSE

Goto(s, to) == pc' = [pc EXCEPT ![s] = to]

\* A script's process ends, with its variables: start_guest.sh, after which
\* its shell runs dom_watcher.sh, and that one.
GuestEnds(s) ==
  /\ Goto(s, "domid")
  /\ killed' = [killed EXCEPT ![s] = FALSE]
  /\ backend' = [backend EXCEPT ![s] = NoId]
  /\ event' = [event EXCEPT ![s] = FALSE]

WatcherEnds(s) ==
  /\ Goto(s, "done")
  /\ watched' = [watched EXCEPT ![s] = NoId]
  /\ event' = [event EXCEPT ![s] = FALSE]

-----------------------------------------------------------------------------
(* Domains and xenstore                                                    *)

\* DomF ends or is there again under another id; its part of xenstore is new.
DomfIs(id) == domf' = id /\ reboot' = 0 /\ writable' = FALSE

NewId == lastId < MaxIds /\ lastId' = lastId + 1

\* Whoever waits for DomD's bridge gets an event.
BridgeEvent ==
  event' = [s \in Shells |-> event[s] \/ (pc[s] \in {"wait", "check"} /\ backend[s] = domd)]

DomdStarts ==
  /\ domd = NoId /\ NewId /\ domd' = lastId'
  /\ UNCHANGED <<domf, bridge, node, init, pipes, shell, rebooting>>

DomdGone ==
  /\ domd # NoId /\ domd' = NoId /\ status' = "none" /\ over' = FALSE
  /\ BridgeEvent
  /\ UNCHANGED <<domf, lastId, node, init, pipes, pc, killed, backend, watched,
                 rebooting>>

BridgeStatus(to) ==
  /\ domd # NoId /\ status' = to
  /\ BridgeEvent
  /\ UNCHANGED <<ids, node, init, pipes, pc, killed, backend, watched, rebooting>>

BridgeUp == ~over /\ status # "ready" /\ BridgeStatus("ready") /\ UNCHANGED over

\* xenbr0 is not there: dead is written and the unit starts again, or has
\* reached systemd's start limit.
BridgeFails ==
  /\ ~over /\ status # "ready"
  /\ BridgeStatus("dead") /\ over' \in BOOLEAN

\* Mutant: a status that no reader knows.
BridgeStopsOddly == status = "ready" /\ BridgeStatus("off") /\ over' = TRUE

BridgeStops == status = "ready" /\ BridgeStatus("dead") /\ over' = TRUE

\* DomF shuts down, or the timer of do_stop destroys it; an xl destroy that
\* the timer has begun outlives it and may hit a DomF that is there again.
DomfGone ==
  /\ domf # NoId /\ DomfIs(NoId)
  /\ UNCHANGED <<domd, lastId, bridge, init, pipes, shell, rebooting>>

\* on_reboot is xl's default, restart.
DomfReboots ==
  /\ domf # NoId /\ NewId /\ DomfIs(lastId')
  /\ UNCHANGED <<domd, bridge, init, pipes, shell, rebooting>>

\* finish.sh: refused before dom_watcher.sh has granted it.
DomfAsksReboot ==
  /\ domf # NoId /\ writable /\ reboot' = 2
  /\ event' = [s \in Shells |-> event[s] \/ (pc[s] = "watch" /\ watched[s] = domf)]
  /\ UNCHANGED <<ids, bridge, writable, init, pipes, pc, killed, backend, watched, rebooting>>

-----------------------------------------------------------------------------
(* guest_domf                                                              *)

\* ps | grep finds one process, the test of $PID succeeds; with two it fails
\* like with none. (A child that is still a copy of the script counts too.)
FoundOne(pcs) == Cardinality({s \in Shells : pc[s] \in pcs}) = 1

\* do_start: a domain that runs is not started.
StartDomid ==
  /\ cmd = "idle" /\ domf = NoId /\ cmd' = "schedule"
  /\ \E s \in Shells : pc[s] = "done"
  /\ UNCHANGED <<ids, bridge, node, waitFor, pipes, shell, rebooting>>

\* A background shell is started unless a start_guest.sh is found.
Schedule ==
  /\ cmd = "schedule" /\ cmd' = "idle"
  /\ \/ FoundOne(StartGuest) /\ UNCHANGED pc
     \/ \E s \in Shells : pc[s] = "done" /\ Goto(s, "spawned")
  /\ UNCHANGED <<ids, bridge, node, waitFor, pipes, killed, backend, watched, event,
                 rebooting>>

\* do_stop: the watcher dies at once. /tmp/<id>-reboot stays, for DOM_ID is
\* empty here. (restart is stop and start, if the stop finds a domain.)
StopWatcher ==
  /\ cmd = "idle" /\ cmd' = "stopGuest"
  /\ \/ FoundOne(Watcher) /\ \E s \in Shells : pc[s] \in Watcher /\ WatcherEnds(s)
     \/ UNCHANGED <<pc, watched, event>>
  /\ rebootPipes' = rebootPipes \ {NoId}
  /\ UNCHANGED <<ids, bridge, node, waitFor, pipe, killed, backend, rebooting>>

\* start_guest.sh gets its SIGTERM.
StopGuest ==
  /\ cmd = "stopGuest" /\ cmd' = "stopDomid"
  /\ \/ FoundOne(StartGuest)
        /\ killed' = [s \in Shells |-> pc[s] \in StartGuest]
     \/ UNCHANGED killed
  /\ UNCHANGED <<ids, bridge, node, waitFor, pipes, pc, backend, watched, event, rebooting>>

\* Without a domain the script exits, else it runs xl shutdown -w ...
StopDomid ==
  /\ cmd = "stopDomid"
  /\ IF domf = NoId THEN cmd' = "idle" /\ UNCHANGED waitFor
                    ELSE cmd' = "wait" /\ waitFor' = domf
  /\ UNCHANGED <<ids, bridge, node, pipes, shell, rebooting>>

\* ... which is back when that domain is gone.
StopDone ==
  /\ cmd = "wait" /\ domf # waitFor
  /\ waitFor' = NoId /\ cmd' = "idle"
  /\ UNCHANGED <<ids, bridge, node, pipes, shell, rebooting>>

InitScript == StartDomid \/ Schedule \/ StopWatcher \/ StopGuest \/ StopDomid \/ StopDone

-----------------------------------------------------------------------------
(* start_guest.sh                                                          *)

\* The shell runs start_guest.sh, which reads DOMD_ID; without it the script
\* exits and the watcher is next.
ReadBackend(s) ==
  /\ pc[s] = "spawned"
  /\ IF domd = NoId
     THEN GuestEnds(s)
     ELSE /\ backend' = [backend EXCEPT ![s] = domd] /\ Goto(s, "mkfifo")
          /\ UNCHANGED <<killed, event>>
  /\ UNCHANGED <<ids, bridge, node, init, pipes, watched, rebooting>>

\* Mutant: only changes are reported.
MakePipeQuiet(s) ==
  /\ pc[s] = "mkfifo" /\ ~killed[s]
  /\ IF pipe
     THEN GuestEnds(s) /\ UNCHANGED pipe
     ELSE Goto(s, "wait") /\ pipe' = TRUE /\ UNCHANGED <<killed, backend, event>>
  /\ UNCHANGED <<ids, bridge, node, init, rebootPipes, watched, rebooting>>

\* mkfifo decides between two; xenstore-watch reports once when it begins.
MakePipe(s) ==
  /\ pc[s] = "mkfifo" /\ ~killed[s]
  /\ IF pipe
     THEN GuestEnds(s) /\ UNCHANGED pipe
     ELSE /\ Goto(s, "wait") /\ pipe' = TRUE
          /\ event' = [event EXCEPT ![s] = TRUE] /\ UNCHANGED <<killed, backend>>
  /\ UNCHANGED <<ids, bridge, node, init, rebootPipes, watched, rebooting>>

ReadEvent(s) ==
  /\ pc[s] = "wait" /\ event[s] /\ ~killed[s]
  /\ event' = [event EXCEPT ![s] = FALSE]
  /\ Goto(s, "check")
  /\ UNCHANGED <<ids, bridge, node, init, pipes, killed, backend, watched, rebooting>>

CheckBackends(s) ==
  /\ pc[s] = "check" /\ ~killed[s]
  /\ Goto(s, IF backend[s] = domd /\ status = "ready" THEN "create" ELSE "wait")
  /\ UNCHANGED <<ids, bridge, node, init, pipes, killed, backend, watched, event, rebooting>>

\* xl create fails when the name is taken, or for reasons of its own. Either
\* way exit_function ends the script; the watcher is next.
CreateGuest(s) ==
  /\ pc[s] = "create"
  /\ \/ domf = NoId /\ NewId /\ DomfIs(lastId')
     \/ UNCHANGED <<domf, lastId, node>>
  /\ pipe' = FALSE /\ GuestEnds(s)
  /\ UNCHANGED <<domd, bridge, init, rebootPipes, watched, rebooting>>

\* Mutant: no trap.
TermKeepsPipe(s) ==
  /\ killed[s] /\ pc[s] \in {"mkfifo", "wait", "check"}
  /\ GuestEnds(s)
  /\ UNCHANGED <<ids, bridge, node, init, pipes, watched, rebooting>>

\* exit_function, on SIGTERM (if xl create runs, after it: CreateGuest). It
\* removes a pipe by its name, whoever made it, once the script has set that.
Term(s) ==
  /\ killed[s] /\ pc[s] \in {"mkfifo", "wait", "check"}
  /\ pipe' = FALSE \/ (pc[s] = "mkfifo" /\ pipe' = pipe)
  /\ GuestEnds(s)
  /\ UNCHANGED <<ids, bridge, node, init, rebootPipes, watched, rebooting>>

-----------------------------------------------------------------------------
(* dom_watcher.sh                                                          *)

WatcherDomid(s) ==
  /\ pc[s] = "domid" /\ Goto(s, "mark")
  /\ watched' = [watched EXCEPT ![s] = domf]
  /\ UNCHANGED <<ids, bridge, node, init, pipes, killed, backend, event, rebooting>>

\* DomF is there, and it is the one that is watched.
Watches(s) == watched[s] # NoId /\ watched[s] = domf

\* Mutant: the pipe's name is the same for every domain.
MarkNodeOnePipe(s) ==
  /\ pc[s] = "mark"
  /\ IF rebootPipes # {}
     THEN WatcherEnds(s) /\ UNCHANGED reboot
     ELSE /\ Goto(s, "chmod") /\ UNCHANGED <<watched, event>>
          /\ reboot' = IF Watches(s) THEN 1 ELSE reboot
  /\ rebootPipes' = rebootPipes \cup {watched[s]}
  /\ UNCHANGED <<ids, bridge, writable, init, pipe, killed, backend, rebooting>>

\* mkfifo decides between two watchers of a domain; the node is made.
MarkNode(s) ==
  /\ pc[s] = "mark"
  /\ IF watched[s] \in rebootPipes
     THEN WatcherEnds(s) /\ UNCHANGED reboot
     ELSE /\ Goto(s, "chmod") /\ UNCHANGED <<watched, event>>
          /\ reboot' = IF Watches(s) THEN 1 ELSE reboot
  /\ rebootPipes' = rebootPipes \cup {watched[s]}
  /\ UNCHANGED <<ids, bridge, writable, init, pipe, killed, backend, rebooting>>

GrantNode(s) ==
  /\ pc[s] = "chmod" /\ Goto(s, "listen")
  /\ writable' = (writable \/ Watches(s))
  /\ UNCHANGED <<ids, bridge, reboot, init, pipes, killed, backend, watched, event, rebooting>>

\* Mutant: only changes are reported.
ListenQuietly(s) ==
  /\ pc[s] = "listen"
  /\ IF watched[s] = NoId THEN WatcherEnds(s)
                          ELSE Goto(s, "watch") /\ UNCHANGED <<watched, event>>
  /\ UNCHANGED <<ids, bridge, node, init, pipes, killed, backend, rebooting>>

\* xenstore-watch reports once when it begins, and ends without a domain.
Listen(s) ==
  /\ pc[s] = "listen"
  /\ IF watched[s] = NoId
     THEN WatcherEnds(s)
     ELSE Goto(s, "watch") /\ event' = [event EXCEPT ![s] = TRUE] /\ UNCHANGED watched
  /\ UNCHANGED <<ids, bridge, node, init, pipes, killed, backend, rebooting>>

ReadRequest(s) ==
  /\ pc[s] = "watch" /\ event[s]
  /\ event' = [event EXCEPT ![s] = FALSE]
  /\ rebooting' = (Watches(s) /\ reboot = 2)
  /\ UNCHANGED <<ids, bridge, node, init, pipes, pc, killed, backend, watched>>

ShellStep(s) ==
  \/ ReadBackend(s) \/ MakePipe(s) \/ ReadEvent(s) \/ CheckBackends(s) \/ CreateGuest(s)
  \/ Term(s)
  \/ WatcherDomid(s) \/ MarkNode(s) \/ GrantNode(s) \/ Listen(s) \/ ReadRequest(s)

-----------------------------------------------------------------------------

DomainStep ==
  \/ DomdStarts \/ DomdGone \/ BridgeUp \/ BridgeFails \/ BridgeStops
  \/ DomfGone \/ DomfReboots \/ DomfAsksReboot

\* What happens while Dom0 goes down is left out.
Next == ~rebooting /\ (DomainStep \/ InitScript \/ \E s \in Shells : ShellStep(s))

\* The shells of Dom0 run on.
Fairness == \A s \in Shells : WF_vars(~rebooting /\ ShellStep(s))

Spec == Init /\ [][Next]_vars /\ Fairness

-----------------------------------------------------------------------------
(* Properties                                                              *)

\* Every variable has its type.
TypeOK ==
  /\ domd \in Ids \cup {NoId} /\ domf \in Ids \cup {NoId} /\ lastId \in 0..MaxIds
  /\ status \in {"none", "ready", "dead"} /\ over \in BOOLEAN
  /\ reboot \in 0..2 /\ writable \in BOOLEAN
  /\ cmd \in {"idle", "schedule", "stopGuest", "stopDomid", "wait"}
  /\ waitFor \in Ids \cup {NoId}
  /\ pipe \in BOOLEAN /\ rebootPipes \subseteq Ids \cup {NoId}
  /\ pc \in [Shells -> {"spawned", "done"} \cup StartGuest \cup Watcher]
  /\ killed \in [Shells -> BOOLEAN] /\ event \in [Shells -> BOOLEAN]
  /\ backend \in [Shells -> Ids \cup {NoId}] /\ watched \in [Shells -> Ids \cup {NoId}]
  /\ rebooting \in BOOLEAN

\* A pipe left behind would keep DomF from being started ever again: whichever
\* of two shells made it, was killed, or removed the other's, there is none
\* unless a start_guest.sh waits or creates.
NoStalePipe ==
  pipe => \E s \in Shells : pc[s] \in {"wait", "check", "create"}

\* While the DomD that start_guest.sh asked for has its bridge, the wait ends,
\* whether the bridge was there first or the watch.
StartedWhenReady ==
  \A s \in Shells :
    LET waits == pc[s] \in {"wait", "check"} /\ backend[s] = domd /\ status = "ready"
    IN waits ~> (~waits \/ rebooting)

\* A request that DomF was let write is heard, also one that comes before the
\* watch, unless DomF ends or its watcher is killed first.
RequestHeard ==
  LET heard == \E s \in Shells : pc[s] \in {"listen", "watch"} /\ Watches(s)
  IN (reboot = 2) ~> (rebooting \/ reboot # 2 \/ ~heard)

\* A DomF that is there when a start_guest.sh ends is watched at last, although
\* pipes of earlier watchers are left behind and another one may be at its
\* pipe first, unless it ends, gets another id, or is being stopped. (Id 1 is
\* DomD's: there is no DomF before.)
DomfWatched ==
  \A d \in Ids \ {1} :
    (domf = d /\ \E s \in Shells : pc[s] = "domid")
      ~> \/ domf # d \/ rebooting \/ cmd \in {"stopGuest", "stopDomid", "wait"}
         \/ \E s \in Shells : pc[s] \in {"listen", "watch"} /\ watched[s] = d

=============================================================================
