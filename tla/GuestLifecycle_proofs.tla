----------------------- MODULE GuestLifecycle_proofs -----------------------
(***************************************************************************)
(* What GuestLifecycle guarantees for any number of background shells and  *)
(* of domains.  NoStalePipe is inductive: whoever leaves the states of its *)
(* right side removes the pipe, its own or not.                            *)
(* WakeInv says that nobody sleeps on what is already there.               *)
(***************************************************************************)
EXTENDS GuestLifecycle, TLAPS

IInv == TypeOK /\ NoStalePipe

Pcs == {"spawned", "done"} \cup StartGuest \cup Watcher

LEMMA InitInv == Init => IInv
<1> SUFFICES ASSUME Init PROVE IInv
  OBVIOUS
<1>1. killed \in [Shells -> BOOLEAN] /\ event \in [Shells -> BOOLEAN]
  BY Zenon DEF Init
<1>2. /\ over \in BOOLEAN /\ writable \in BOOLEAN /\ pipe \in BOOLEAN
      /\ rebooting \in BOOLEAN
  BY Zenon DEF Init
<1>3. TypeOK
  BY <1>1, <1>2, BoundsAssumption DEF Init, TypeOK, NoId, Ids
<1>4. QED
  BY <1>3 DEF Init, IInv, NoStalePipe

-----------------------------------------------------------------------------
(* The types that several actions keep                                     *)

LEMMA GotoType ==
  ASSUME TypeOK, NEW s \in Shells, NEW to \in Pcs, Goto(s, to)
  PROVE  pc' \in [Shells -> Pcs]
  BY DEF TypeOK, Goto, Pcs

LEMMA GuestEndsType ==
  ASSUME TypeOK, NEW s \in Shells, GuestEnds(s)
  PROVE  /\ pc' \in [Shells -> Pcs]
         /\ killed' \in [Shells -> BOOLEAN] /\ event' \in [Shells -> BOOLEAN]
         /\ backend' \in [Shells -> Ids \cup {NoId}]
<1>1. pc' \in [Shells -> Pcs]
  BY GotoType DEF GuestEnds, Pcs, Watcher
<1>2. killed' \in [Shells -> BOOLEAN] /\ event' \in [Shells -> BOOLEAN]
  BY Zenon DEF TypeOK, GuestEnds
<1>3. backend' \in [Shells -> Ids \cup {NoId}]
  BY DEF TypeOK, GuestEnds
<1>4. QED
  BY <1>1, <1>2, <1>3

LEMMA WatcherEndsType ==
  ASSUME TypeOK, NEW s \in Shells, WatcherEnds(s)
  PROVE  /\ pc' \in [Shells -> Pcs] /\ event' \in [Shells -> BOOLEAN]
         /\ watched' \in [Shells -> Ids \cup {NoId}]
<1>1. pc' \in [Shells -> Pcs]
  BY GotoType DEF WatcherEnds, Pcs
<1>2. event' \in [Shells -> BOOLEAN]
  BY Zenon DEF TypeOK, WatcherEnds
<1>3. watched' \in [Shells -> Ids \cup {NoId}]
  BY DEF TypeOK, WatcherEnds
<1>4. QED
  BY <1>1, <1>2, <1>3

\* A new id is one.
LEMMA NewIdType ==
  ASSUME TypeOK, NewId PROVE lastId' \in Ids /\ lastId' \in 0..MaxIds
  BY BoundsAssumption DEF TypeOK, NewId, Ids

LEMMA BridgeEventType ==
  ASSUME TypeOK, BridgeEvent PROVE event' \in [Shells -> BOOLEAN]
  BY Zenon DEF TypeOK, BridgeEvent

\* TypeOK by its parts.
LEMMA TypeParts ==
  ASSUME domd \in Ids \cup {NoId}, domf \in Ids \cup {NoId}, lastId \in 0..MaxIds,
         status \in {"none", "ready", "dead"}, over \in BOOLEAN,
         reboot \in 0..2, writable \in BOOLEAN,
         cmd \in {"idle", "schedule", "stopGuest", "stopDomid", "wait"},
         waitFor \in Ids \cup {NoId}, pipe \in BOOLEAN,
         rebootPipes \subseteq Ids \cup {NoId}, pc \in [Shells -> Pcs],
         killed \in [Shells -> BOOLEAN], event \in [Shells -> BOOLEAN],
         backend \in [Shells -> Ids \cup {NoId}], watched \in [Shells -> Ids \cup {NoId}],
         rebooting \in BOOLEAN
  PROVE  TypeOK
  BY Zenon DEF TypeOK, Pcs

-----------------------------------------------------------------------------
(* Steps                                                                   *)

\* What is typed now, as facts of their own.
LEMMA Typed ==
  ASSUME TypeOK
  PROVE  /\ domd \in Ids \cup {NoId} /\ domf \in Ids \cup {NoId} /\ lastId \in 0..MaxIds
         /\ status \in {"none", "ready", "dead"} /\ over \in BOOLEAN
         /\ reboot \in 0..2 /\ writable \in BOOLEAN
         /\ cmd \in {"idle", "schedule", "stopGuest", "stopDomid", "wait"}
         /\ waitFor \in Ids \cup {NoId} /\ pipe \in BOOLEAN
         /\ rebootPipes \subseteq Ids \cup {NoId} /\ pc \in [Shells -> Pcs]
         /\ killed \in [Shells -> BOOLEAN] /\ event \in [Shells -> BOOLEAN]
         /\ backend \in [Shells -> Ids \cup {NoId}] /\ watched \in [Shells -> Ids \cup {NoId}]
         /\ rebooting \in BOOLEAN
  BY Zenon DEF TypeOK, Pcs

LEMMA DomainType ==
  ASSUME TypeOK, DomainStep PROVE TypeOK'
<1> USE DEF bridge, node, init, pipes, shell, ids
<1>1. CASE DomdStarts
  <2>1. domd' \in Ids \cup {NoId} /\ lastId' \in 0..MaxIds
    BY <1>1, NewIdType DEF DomdStarts
  <2>2. UNCHANGED <<domf, status, over, reboot, writable, cmd, waitFor, pipe, rebootPipes,
                    pc, killed, backend, watched, event, rebooting>>
    BY <1>1 DEF DomdStarts
  <2>3. QED
    BY <2>1, <2>2, Typed, Zenon DEF TypeOK, Pcs
<1>2. CASE DomdGone \/ BridgeUp \/ BridgeFails \/ BridgeStops
  <2>1. event' \in [Shells -> BOOLEAN]
    BY <1>2, BridgeEventType DEF DomdGone, BridgeUp, BridgeFails, BridgeStops, BridgeStatus
  <2>2. status' \in {"none", "ready", "dead"} /\ domd' \in Ids \cup {NoId}
    BY <1>2 DEF TypeOK, DomdGone, BridgeUp, BridgeFails, BridgeStops, BridgeStatus
  <2>3. over' \in BOOLEAN
    BY <1>2, Zenon DEF TypeOK, DomdGone, BridgeUp, BridgeFails, BridgeStops
  <2>4. UNCHANGED <<domf, lastId, reboot, writable, cmd, waitFor, pipe, rebootPipes,
                    pc, killed, backend, watched, rebooting>>
    BY <1>2 DEF DomdGone, BridgeUp, BridgeFails, BridgeStops, BridgeStatus
  <2>5. QED
    BY <2>1, <2>2, <2>3, <2>4, Typed, Zenon DEF TypeOK, Pcs
<1>3. CASE DomfGone \/ DomfReboots
  <2>1. /\ domf' \in Ids \cup {NoId} /\ lastId' \in 0..MaxIds
        /\ reboot' \in 0..2
    BY <1>3, NewIdType DEF TypeOK, DomfGone, DomfReboots, DomfIs
  <2>2. writable' \in BOOLEAN
    BY <1>3, Zenon DEF DomfGone, DomfReboots, DomfIs
  <2>3. UNCHANGED <<domd, status, over, cmd, waitFor, pipe, rebootPipes,
                    pc, killed, backend, watched, event, rebooting>>
    BY <1>3 DEF DomfGone, DomfReboots
  <2>4. QED
    BY <2>1, <2>2, <2>3, Typed, Zenon DEF TypeOK, Pcs
<1>4. CASE DomfAsksReboot
  <2>1. event' \in [Shells -> BOOLEAN]
    BY <1>4, Zenon DEF TypeOK, DomfAsksReboot
  <2>2. reboot' \in 0..2
    BY <1>4 DEF DomfAsksReboot
  <2>3. UNCHANGED <<domd, domf, lastId, status, over, writable, cmd, waitFor, pipe,
                    rebootPipes, pc, killed, backend, watched, rebooting>>
    BY <1>4 DEF DomfAsksReboot
  <2>4. QED
    BY <2>1, <2>2, <2>3, Typed, Zenon DEF TypeOK, Pcs
<1>5. QED
  BY <1>1, <1>2, <1>3, <1>4 DEF DomainStep

LEMMA InitScriptType ==
  ASSUME TypeOK, InitScript PROVE TypeOK'
<1> USE DEF bridge, node, init, pipes, shell, ids
<1>1. UNCHANGED <<domd, domf, lastId, status, over, reboot, writable, pipe, backend,
                  rebooting>>
  BY DEF InitScript, StartDomid, Schedule, StopWatcher, StopGuest, StopDomid, StopDone
<1>2. /\ cmd' \in {"idle", "schedule", "stopGuest", "stopDomid", "wait"}
      /\ waitFor' \in Ids \cup {NoId} /\ rebootPipes' \subseteq Ids \cup {NoId}
  BY DEF TypeOK, InitScript, StartDomid, Schedule, StopWatcher, StopGuest, StopDomid,
     StopDone
<1>3. /\ pc' \in [Shells -> Pcs]
      /\ killed' \in [Shells -> BOOLEAN] /\ event' \in [Shells -> BOOLEAN]
      /\ watched' \in [Shells -> Ids \cup {NoId}]
  <2>1. CASE UNCHANGED <<pc, killed, event, watched>>
    BY <2>1, Typed, Zenon
  <2>2. CASE Schedule
    <3>1. UNCHANGED <<killed, event, watched>>
      BY <2>2 DEF Schedule
    <3>2. pc' \in [Shells -> Pcs]
      BY <2>2, GotoType, Typed DEF Schedule, Pcs
    <3>3. QED
      BY <3>1, <3>2, Typed, Zenon
  <2>3. CASE StopWatcher
    <3>1. killed' = killed
      BY <2>3 DEF StopWatcher
    <3>2. CASE UNCHANGED <<pc, watched, event>>
      BY <3>1, <3>2, Typed, Zenon
    <3>3. CASE \E s \in Shells : pc[s] \in Watcher /\ WatcherEnds(s)
      BY <3>1, <3>3, WatcherEndsType, Typed, Zenon
    <3>4. QED
      BY <2>3, <3>2, <3>3 DEF StopWatcher
  <2>4. CASE StopGuest
    <3>1. killed' \in [Shells -> BOOLEAN]
      <4>1. CASE killed' = [s \in Shells |-> pc[s] \in StartGuest]
        <5>1. \A s \in Shells : (pc[s] \in StartGuest) \in BOOLEAN
          BY SMT DEF StartGuest
        <5>2. QED
          BY <4>1, <5>1, Zenon
      <4>2. CASE UNCHANGED killed
        BY <4>2, Zenon DEF TypeOK
      <4>3. QED
        BY <2>4, <4>1, <4>2, Zenon DEF StopGuest
    <3>2. UNCHANGED <<pc, event, watched>>
      BY <2>4 DEF StopGuest
    <3>3. QED
      BY <3>1, <3>2, Typed, Zenon
  <2>5. QED
    BY <2>1, <2>2, <2>3, <2>4 DEF InitScript, StartDomid, StopDomid, StopDone
<1>4. QED
  BY <1>1, <1>2, <1>3, Typed, Zenon DEF TypeOK, Pcs

LEMMA StartGuestType ==
  ASSUME TypeOK, NEW s \in Shells,
         ReadBackend(s) \/ MakePipe(s) \/ ReadEvent(s) \/ CheckBackends(s)
           \/ CreateGuest(s) \/ Term(s)
  PROVE  TypeOK'
<1> USE DEF bridge, node, init, pipes, shell, ids
<1>1. UNCHANGED <<domd, status, over, cmd, waitFor, rebootPipes, watched, rebooting>>
  BY DEF ReadBackend, MakePipe, ReadEvent, CheckBackends, CreateGuest, Term
<1>2. /\ domf' \in Ids \cup {NoId} /\ lastId' \in 0..MaxIds /\ reboot' \in 0..2
  BY NewIdType DEF TypeOK, ReadBackend, MakePipe, ReadEvent, CheckBackends, CreateGuest, Term,
     DomfIs
<1>3. writable' \in BOOLEAN /\ pipe' \in BOOLEAN
  <2>1. writable' = writable \/ writable' = FALSE
    BY DEF ReadBackend, MakePipe, ReadEvent, CheckBackends, CreateGuest, Term, DomfIs
  <2>2. pipe' = pipe \/ pipe' = FALSE \/ pipe' = TRUE
    BY DEF ReadBackend, MakePipe, ReadEvent, CheckBackends, CreateGuest, Term
  <2>3. QED
    BY <2>1, <2>2, Typed, Zenon
<1>4. /\ pc' \in [Shells -> Pcs]
      /\ killed' \in [Shells -> BOOLEAN] /\ event' \in [Shells -> BOOLEAN]
      /\ backend' \in [Shells -> Ids \cup {NoId}]
  <2>1. CASE GuestEnds(s)
    BY <2>1, GuestEndsType
  <2>2. CASE ~GuestEnds(s)
    <3>1. \E to \in Pcs : Goto(s, to)
      BY <2>2 DEF ReadBackend, MakePipe, ReadEvent, CheckBackends, CreateGuest, Term, Pcs,
         StartGuest
    <3>2. killed' = killed
      BY <2>2 DEF ReadBackend, MakePipe, ReadEvent, CheckBackends, CreateGuest, Term
    <3>3. \/ event' = event \/ event' = [event EXCEPT ![s] = TRUE]
          \/ event' = [event EXCEPT ![s] = FALSE]
      BY <2>2 DEF ReadBackend, MakePipe, ReadEvent, CheckBackends, CreateGuest, Term
    <3>4. event' \in [Shells -> BOOLEAN]
      BY <3>3, Zenon DEF TypeOK
    <3>5. backend' = backend \/ backend' = [backend EXCEPT ![s] = domd]
      BY <2>2 DEF ReadBackend, MakePipe, ReadEvent, CheckBackends, CreateGuest, Term
    <3>6. backend' \in [Shells -> Ids \cup {NoId}]
      BY <3>5 DEF TypeOK
    <3>7. QED
      BY <3>1, <3>2, <3>4, <3>6, GotoType, Typed, Zenon
  <2>3. QED
    BY <2>1, <2>2
<1>5. QED
  BY <1>1, <1>2, <1>3, <1>4, Typed, Zenon DEF TypeOK, Pcs

LEMMA WatcherType ==
  ASSUME TypeOK, NEW s \in Shells,
         WatcherDomid(s) \/ MarkNode(s) \/ GrantNode(s) \/ Listen(s) \/ ReadRequest(s)
  PROVE  TypeOK'
<1> USE DEF bridge, node, init, pipes, shell, ids
<1>1. UNCHANGED <<domd, domf, lastId, status, over, cmd, waitFor, pipe, killed, backend>>
  BY DEF WatcherDomid, MarkNode, GrantNode, Listen, ReadRequest
<1>2. rebootPipes' \subseteq Ids \cup {NoId} /\ reboot' \in 0..2
  BY DEF TypeOK, WatcherDomid, MarkNode, GrantNode, Listen, ReadRequest
<1>3. writable' \in BOOLEAN /\ rebooting' \in BOOLEAN
  BY Typed, Zenon DEF WatcherDomid, MarkNode, GrantNode, Listen, ReadRequest
<1>4. /\ pc' \in [Shells -> Pcs] /\ event' \in [Shells -> BOOLEAN]
      /\ watched' \in [Shells -> Ids \cup {NoId}]
  <2>1. CASE WatcherEnds(s)
    BY <2>1, WatcherEndsType
  <2>2. CASE ~WatcherEnds(s)
    <3>1. pc' = pc \/ \E to \in Pcs : Goto(s, to)
      BY <2>2 DEF WatcherDomid, MarkNode, GrantNode, Listen, ReadRequest, Pcs, Watcher
    <3>2. \/ event' = event \/ event' = [event EXCEPT ![s] = TRUE]
          \/ event' = [event EXCEPT ![s] = FALSE]
      BY <2>2 DEF WatcherDomid, MarkNode, GrantNode, Listen, ReadRequest
    <3>3. event' \in [Shells -> BOOLEAN]
      BY <3>2, Zenon DEF TypeOK
    <3>4. watched' = watched \/ watched' = [watched EXCEPT ![s] = domf]
      BY <2>2 DEF WatcherDomid, MarkNode, GrantNode, Listen, ReadRequest
    <3>5. watched' \in [Shells -> Ids \cup {NoId}]
      BY <3>4 DEF TypeOK
    <3>6. QED
      BY <3>1, <3>3, <3>5, GotoType, Typed, Zenon
  <2>3. QED
    BY <2>1, <2>2
<1>5. QED
  BY <1>1, <1>2, <1>3, <1>4, Typed, Zenon DEF TypeOK, Pcs

\* A shell that waits or creates has the pipe removed when it stops to.
LEMMA PipeStep ==
  ASSUME IInv, [Next]_vars PROVE NoStalePipe'
<1> USE DEF bridge, node, init, pipes, shell, ids
<1> DEFINE Holding == {"wait", "check", "create"}
<1>1. TypeOK /\ NoStalePipe
  BY DEF IInv
<1>2. ASSUME pipe' = pipe, \A s \in Shells : pc[s] \in Holding => pc'[s] \in Holding
      PROVE  NoStalePipe'
  BY <1>1, <1>2 DEF NoStalePipe
<1>3. ASSUME pipe' = FALSE PROVE NoStalePipe'
  BY <1>3 DEF NoStalePipe
<1>4. ASSUME NEW s \in Shells, NEW to, Goto(s, to), pc[s] \notin Holding \/ to \in Holding
      PROVE  \A t \in Shells : pc[t] \in Holding => pc'[t] \in Holding
  BY <1>1, <1>4 DEF TypeOK, Goto
<1>5. CASE DomainStep
  <2>1. UNCHANGED <<pc, pipe>>
    BY <1>5 DEF DomainStep, DomdStarts, DomdGone, BridgeUp, BridgeFails, BridgeStops,
       BridgeStatus, DomfGone, DomfReboots, DomfAsksReboot
  <2>2. QED
    BY <1>2, <2>1
<1>6. CASE InitScript
  <2>1. pipe' = pipe
    BY <1>6 DEF InitScript, StartDomid, Schedule, StopWatcher, StopGuest, StopDomid, StopDone
  <2>2. CASE pc' = pc
    BY <1>2, <2>1, <2>2
  <2>3. CASE pc' # pc
    <3>1. PICK s \in Shells, to \in Pcs : Goto(s, to) /\ pc[s] \in Watcher \cup {"done"}
      BY <1>6, <2>3 DEF InitScript, StartDomid, Schedule, StopWatcher, StopGuest, StopDomid,
         StopDone, WatcherEnds, Pcs
    <3>2. pc[s] \notin Holding
      BY <3>1 DEF Watcher
    <3>3. QED
      BY <1>2, <1>4, <2>1, <3>1, <3>2
  <2>4. QED
    BY <2>2, <2>3
<1>7. ASSUME NEW s \in Shells, ReadBackend(s) \/ ReadEvent(s) \/ CheckBackends(s)
      PROVE  NoStalePipe'
  <2>1. pipe' = pipe
    BY <1>7 DEF ReadBackend, ReadEvent, CheckBackends
  <2>2. \E to \in Pcs : Goto(s, to) /\ (pc[s] \notin Holding \/ to \in Holding)
    BY <1>7 DEF ReadBackend, ReadEvent, CheckBackends, GuestEnds, Pcs, StartGuest, Watcher
  <2>3. QED
    BY <1>2, <1>4, <2>1, <2>2
<1>8. ASSUME NEW s \in Shells, MakePipe(s) PROVE NoStalePipe'
  <2>1. CASE pipe
    <3>1. pipe' = pipe /\ Goto(s, "domid") /\ pc[s] \notin Holding
      BY <1>8, <2>1 DEF MakePipe, GuestEnds
    <3>2. QED
      BY <1>2, <1>4, <3>1
  <2>2. CASE ~pipe
    <3>1. pc'[s] = "wait"
      BY <1>1, <1>8, <2>2 DEF TypeOK, MakePipe, Goto
    <3>2. QED
      BY <3>1 DEF NoStalePipe
  <2>3. QED
    BY <2>1, <2>2
<1>9. ASSUME NEW s \in Shells, CreateGuest(s) \/ Term(s) PROVE NoStalePipe'
  <2>1. CASE pipe' = FALSE
    BY <1>3, <2>1
  <2>2. CASE pc[s] = "mkfifo" /\ pipe' = pipe
    <3>1. Goto(s, "domid") /\ pc[s] \notin Holding
      BY <1>9, <2>2 DEF CreateGuest, Term, GuestEnds
    <3>2. QED
      BY <1>2, <1>4, <2>2, <3>1
  <2>3. QED
    BY <1>9, <2>1, <2>2 DEF CreateGuest, Term
<1>10. ASSUME NEW s \in Shells,
              WatcherDomid(s) \/ MarkNode(s) \/ GrantNode(s) \/ Listen(s) \/ ReadRequest(s)
       PROVE  NoStalePipe'
  <2>1. pipe' = pipe /\ pc[s] \notin Holding
    BY <1>10 DEF WatcherDomid, MarkNode, GrantNode, Listen, ReadRequest
  <2>2. pc' = pc \/ \E to \in Pcs : Goto(s, to)
    BY <1>10 DEF WatcherDomid, MarkNode, GrantNode, Listen, ReadRequest, WatcherEnds, Pcs,
       Watcher
  <2>3. QED
    BY <1>2, <1>4, <2>1, <2>2
<1>11. CASE UNCHANGED vars
  BY <1>2, <1>11 DEF vars
<1>12. QED
  BY <1>5, <1>6, <1>7, <1>8, <1>9, <1>10, <1>11 DEF Next, ShellStep

LEMMA Invariant == Spec => []IInv
<1>1. IInv /\ [Next]_vars => IInv'
  <2> SUFFICES ASSUME IInv, [Next]_vars PROVE IInv'
    OBVIOUS
  <2>1. TypeOK'
    <3>1. CASE UNCHANGED vars
      BY <3>1, Zenon DEF IInv, TypeOK, vars, bridge, node, init, pipes, shell, ids
    <3>2. CASE Next
      BY <3>2, DomainType, InitScriptType, StartGuestType, WatcherType
         DEF IInv, Next, ShellStep
    <3>3. QED
      BY <3>1, <3>2
  <2>2. QED
    BY <2>1, PipeStep DEF IInv
<1>2. QED
  BY InitInv, <1>1, PTL DEF Spec

-----------------------------------------------------------------------------
(* Theorems                                                                *)

\* Every variable has its type, whatever domains and scripts do.
THEOREM TypeCorrect == Spec => []TypeOK
<1>1. IInv => TypeOK
  BY DEF IInv
<1>2. QED
  BY <1>1, Invariant, PTL

\* No pipe of start_guest.sh is left behind, for any number of shells at a
\* time: DomF can be started again.
THEOREM PipeRemoved == Spec => []NoStalePipe
<1>1. IInv => NoStalePipe
  BY DEF IInv
<1>2. QED
  BY <1>1, Invariant, PTL

-----------------------------------------------------------------------------
(***************************************************************************)
(* No wake-up is lost. That a wait ends needs fairness; what fairness       *)
(* needs, that a shell with something to find is not left asleep, is an     *)
(* invariant.                                                               *)
(***************************************************************************)

\* Past mkfifo: the watcher goes by its domain's name for the pipe.
Listening == {"chmod", "listen", "watch"}

\* A start_guest.sh that sleeps while its DomD has the bridge has an event in
\* its pipe, whichever came first.
BridgeNotMissed ==
  \A s \in Shells : (pc[s] = "wait" /\ backend[s] = domd /\ status = "ready") => event[s]

\* A watcher that sleeps on DomF's request has an event in its pipe.
RequestNotMissed ==
  \A s \in Shells : (pc[s] = "watch" /\ Watches(s) /\ reboot = 2) => event[s] \/ rebooting

\* Of two shells only one watches a domain, the one whose mkfifo made its pipe.
OneWatcher ==
  \A s, t \in Shells :
    (pc[s] \in Listening /\ pc[t] \in Listening
       /\ watched[s] # NoId /\ watched[s] = watched[t]) => s = t

WakeInv ==
  /\ status # "none" => domd # NoId
  /\ BridgeNotMissed /\ RequestNotMissed /\ OneWatcher
  /\ \A s \in Shells : (pc[s] \in Listening /\ watched[s] # NoId) =>
                         watched[s] \in rebootPipes

\* A step that ends a shell's script, or only moves it where it waits for
\* nothing, keeps the invariant; so does one of another domain.
LEMMA WakeElsewhere ==
  ASSUME IInv, WakeInv, NEW s \in Shells,
         UNCHANGED <<domd, domf, status, reboot, rebooting>>,
         rebootPipes \subseteq rebootPipes',
         \A t \in Shells \ {s} : UNCHANGED <<pc[t], backend[t], watched[t], event[t]>>,
         pc'[s] \notin {"wait", "watch"} \cup Listening
  PROVE  WakeInv'
  BY DEF WakeInv, BridgeNotMissed, RequestNotMissed, OneWatcher, Watches, Listening

LEMMA NextWakeInv == IInv /\ WakeInv /\ [Next]_vars => WakeInv'
<1> SUFFICES ASSUME IInv, WakeInv, [Next]_vars PROVE WakeInv'
  OBVIOUS
<1> USE DEF bridge, node, init, pipes, shell, ids
<1>0. TypeOK /\ NoId \notin Ids
  BY BoundsAssumption DEF IInv, Ids, NoId
<1>t. /\ pc \in [Shells -> Pcs] /\ event \in [Shells -> BOOLEAN]
      /\ backend \in [Shells -> Ids \cup {NoId}] /\ watched \in [Shells -> Ids \cup {NoId}]
  BY <1>0, Typed, Zenon
<1>1. CASE DomdStarts
  <2>1. status = "none" /\ UNCHANGED <<domf, status, reboot, rebootPipes, pc, watched, event, rebooting>>
    BY <1>1 DEF DomdStarts, WakeInv
  <2> QED
    BY <2>1 DEF WakeInv, BridgeNotMissed, RequestNotMissed, OneWatcher, Watches
<1>2. CASE DomdGone \/ BridgeUp \/ BridgeFails \/ BridgeStops
  <2>1. /\ UNCHANGED <<domf, reboot, rebootPipes, pc, backend, watched, rebooting>>
        /\ (domd' = NoId /\ status' = "none") \/ (domd # NoId /\ domd' = domd)
        /\ event' = [s \in Shells |->
                       event[s] \/ (pc[s] \in {"wait", "check"} /\ backend[s] = domd)]
    BY <1>2 DEF DomdGone, BridgeUp, BridgeFails, BridgeStops, BridgeStatus, BridgeEvent
  <2>2. \A s \in Shells : /\ event[s] => event'[s]
                          /\ (pc[s] = "wait" /\ backend[s] = domd) => event'[s]
    BY <2>1, Zenon
  <2> QED
    BY <2>1, <2>2 DEF WakeInv, BridgeNotMissed, RequestNotMissed, OneWatcher, Watches
<1>3. CASE DomfGone \/ DomfReboots
  <2>1. reboot' = 0 /\ UNCHANGED <<domd, status, rebootPipes, pc, backend, watched, event>>
    BY <1>3 DEF DomfGone, DomfReboots, DomfIs
  <2> QED
    BY <2>1 DEF WakeInv, BridgeNotMissed, RequestNotMissed, OneWatcher
<1>4. CASE DomfAsksReboot
  <2>1. /\ UNCHANGED <<domd, domf, status, rebootPipes, pc, backend, watched, rebooting>>
        /\ event' = [s \in Shells |-> event[s] \/ (pc[s] = "watch" /\ watched[s] = domf)]
    BY <1>4 DEF DomfAsksReboot
  <2>2. \A s \in Shells : /\ event[s] => event'[s]
                          /\ (pc[s] = "watch" /\ watched[s] = domf) => event'[s]
    BY <2>1, Zenon
  <2> QED
    BY <2>1, <2>2 DEF WakeInv, BridgeNotMissed, RequestNotMissed, OneWatcher, Watches
<1>5. CASE StartDomid \/ StopDomid \/ StopDone \/ StopGuest
  <2>1. UNCHANGED <<domd, domf, status, reboot, rebootPipes, pc, backend, watched, event,
                    rebooting>>
    BY <1>5 DEF StartDomid, StopDomid, StopDone, StopGuest
  <2> QED
    BY <2>1 DEF WakeInv, BridgeNotMissed, RequestNotMissed, OneWatcher, Watches
<1>6. CASE Schedule
  <2>1. UNCHANGED <<domd, domf, status, reboot, rebootPipes, backend, watched, event,
                    rebooting>>
    BY <1>6 DEF Schedule
  <2>2. CASE UNCHANGED pc
    BY <2>1, <2>2 DEF WakeInv, BridgeNotMissed, RequestNotMissed, OneWatcher, Watches
  <2>3. CASE \E s \in Shells : pc[s] = "done" /\ Goto(s, "spawned")
    <3>1. PICK s \in Shells : Goto(s, "spawned")
      BY <2>3
    <3>2. pc'[s] = "spawned" /\ \A t \in Shells \ {s} : pc'[t] = pc[t]
      BY <1>t, <3>1 DEF Goto
    <3> QED
      BY <2>1, <3>2, WakeElsewhere DEF Listening
  <2> QED
    BY <1>6, <2>2, <2>3 DEF Schedule
<1>7. CASE StopWatcher
  <2>1. /\ UNCHANGED <<domd, domf, status, reboot, backend, rebooting>>
        /\ rebootPipes' = rebootPipes \ {NoId}
    BY <1>7 DEF StopWatcher
  <2>2. \A s \in Shells : \/ UNCHANGED <<pc[s], watched[s], event[s]>>
                          \/ pc'[s] = "done"
    BY <1>t, <1>7 DEF StopWatcher, WatcherEnds, Goto
  <2>3. BridgeNotMissed' /\ RequestNotMissed'
    BY <2>1, <2>2 DEF WakeInv, BridgeNotMissed, RequestNotMissed, Watches
  <2>4. OneWatcher' /\ \A s \in Shells : (pc'[s] \in Listening /\ watched'[s] # NoId) =>
                                           watched'[s] \in rebootPipes'
    BY <2>1, <2>2 DEF WakeInv, OneWatcher, Listening
  <2> QED
    BY <2>1, <2>3, <2>4 DEF WakeInv
<1>8. ASSUME NEW s \in Shells, ReadBackend(s) \/ ReadEvent(s) PROVE WakeInv'
  <2>1. /\ UNCHANGED <<domd, domf, status, reboot, rebootPipes, watched, rebooting>>
        /\ \A t \in Shells \ {s} : UNCHANGED <<pc[t], backend[t], event[t]>>
        /\ pc'[s] \in {"domid", "mkfifo", "check"}
    BY <1>t, <1>8 DEF ReadBackend, ReadEvent, GuestEnds, Goto
  <2> QED
    BY <2>1, WakeElsewhere DEF Listening
<1>9. ASSUME NEW s \in Shells, MakePipe(s) PROVE WakeInv'
  <2>1. /\ UNCHANGED <<domd, domf, status, reboot, rebootPipes, watched, rebooting>>
        /\ \A t \in Shells \ {s} : UNCHANGED <<pc[t], backend[t], event[t]>>
        /\ pc'[s] = "domid" \/ (pc'[s] = "wait" /\ event'[s])
    BY <1>t, <1>9 DEF MakePipe, GuestEnds, Goto
  <2> QED
    BY <2>1 DEF WakeInv, BridgeNotMissed, RequestNotMissed, OneWatcher, Watches, Listening
<1>10. ASSUME NEW s \in Shells, CheckBackends(s) PROVE WakeInv'
  <2>1. /\ UNCHANGED <<domd, domf, status, reboot, rebootPipes, backend, watched, event,
                       rebooting>>
        /\ \A t \in Shells \ {s} : pc'[t] = pc[t]
        /\ \/ pc'[s] = "create"
           \/ pc'[s] = "wait" /\ ~(backend[s] = domd /\ status = "ready")
    BY <1>t, <1>10 DEF CheckBackends, Goto
  <2> QED
    BY <2>1 DEF WakeInv, BridgeNotMissed, RequestNotMissed, OneWatcher, Watches, Listening
<1>11. ASSUME NEW s \in Shells, CreateGuest(s) \/ Term(s) PROVE WakeInv'
  <2>1. /\ UNCHANGED <<domd, status, rebootPipes, watched, rebooting>>
        /\ \A t \in Shells \ {s} : UNCHANGED <<pc[t], backend[t], event[t]>>
        /\ pc'[s] = "domid" /\ (UNCHANGED <<domf, reboot>> \/ reboot' = 0)
    BY <1>t, <1>11 DEF CreateGuest, Term, GuestEnds, Goto, DomfIs
  <2> QED
    BY <2>1 DEF WakeInv, BridgeNotMissed, RequestNotMissed, OneWatcher, Watches, Listening
<1>12. ASSUME NEW s \in Shells, WatcherDomid(s) PROVE WakeInv'
  <2>1. /\ UNCHANGED <<domd, domf, status, reboot, rebootPipes, backend, event, rebooting>>
        /\ \A t \in Shells \ {s} : UNCHANGED <<pc[t], watched[t]>>
        /\ pc'[s] = "mark"
    BY <1>t, <1>12 DEF WatcherDomid, Goto
  <2> QED
    BY <2>1, WakeElsewhere DEF Listening
<1>13. ASSUME NEW s \in Shells, MarkNode(s) PROVE WakeInv'
  <2>1. /\ UNCHANGED <<domd, domf, status, backend, rebooting>>
        /\ reboot' # 2 \/ UNCHANGED reboot
        /\ rebootPipes' = rebootPipes \cup {watched[s]}
        /\ \A t \in Shells \ {s} : UNCHANGED <<pc[t], watched[t], event[t]>>
        /\ \/ pc'[s] = "done"
           \/ pc'[s] = "chmod" /\ watched[s] \notin rebootPipes /\ watched'[s] = watched[s]
    BY <1>t, <1>13 DEF MarkNode, WatcherEnds, Goto
  <2>2. BridgeNotMissed' /\ RequestNotMissed'
    BY <2>1 DEF WakeInv, BridgeNotMissed, RequestNotMissed, Watches
  <2>3. OneWatcher' /\ \A t \in Shells : (pc'[t] \in Listening /\ watched'[t] # NoId) =>
                                           watched'[t] \in rebootPipes'
    BY <2>1 DEF WakeInv, OneWatcher, Listening
  <2> QED
    BY <2>1, <2>2, <2>3 DEF WakeInv
<1>14. ASSUME NEW s \in Shells, GrantNode(s) \/ Listen(s) PROVE WakeInv'
  <2>1. /\ UNCHANGED <<domd, domf, status, reboot, rebootPipes, backend, rebooting>>
        /\ \A t \in Shells \ {s} : UNCHANGED <<pc[t], watched[t], event[t]>>
        /\ pc[s] \in Listening
        /\ \/ pc'[s] = "done"
           \/ pc'[s] = "listen" /\ watched'[s] = watched[s]
           \/ pc'[s] = "watch" /\ event'[s] /\ watched'[s] = watched[s]
    BY <1>t, <1>14 DEF GrantNode, Listen, WatcherEnds, Goto, Listening
  <2> QED
    BY <2>1 DEF WakeInv, BridgeNotMissed, RequestNotMissed, OneWatcher, Watches, Listening
<1>15. ASSUME NEW s \in Shells, ~rebooting, ReadRequest(s) PROVE WakeInv'
  <2>1. /\ UNCHANGED <<domd, domf, status, reboot, rebootPipes, pc, backend, watched>>
        /\ \A t \in Shells \ {s} : event'[t] = event[t]
        /\ pc[s] = "watch" /\ (Watches(s) /\ reboot = 2 => rebooting')
    BY <1>t, <1>15 DEF ReadRequest
  <2> QED
    BY <1>15, <2>1 DEF WakeInv, BridgeNotMissed, RequestNotMissed, OneWatcher, Watches
<1>16. CASE UNCHANGED vars
  <2>1. UNCHANGED <<domd, domf, status, reboot, rebootPipes, pc, backend, watched, event,
                    rebooting>>
    BY <1>16 DEF vars
  <2> QED
    BY <2>1 DEF WakeInv, BridgeNotMissed, RequestNotMissed, OneWatcher, Watches
<1> QED
  BY <1>1, <1>2, <1>3, <1>4, <1>5, <1>6, <1>7, <1>8, <1>9, <1>10, <1>11, <1>12, <1>13,
     <1>14, <1>15, <1>16 DEF Next, DomainStep, InitScript, ShellStep

\* No order of bridge, DomF, watcher and init script leaves a shell asleep that
\* has something to find, and no domain has two watchers.
THEOREM NoWakeUpLost == Spec => [](BridgeNotMissed /\ RequestNotMissed /\ OneWatcher)
<1>1. Init => WakeInv
  BY DEF Init, WakeInv, BridgeNotMissed, RequestNotMissed, OneWatcher, Listening
<1>2. WakeInv => BridgeNotMissed /\ RequestNotMissed /\ OneWatcher
  BY DEF WakeInv
<1> QED
  BY <1>1, <1>2, Invariant, NextWakeInv, PTL DEF Spec

=============================================================================
