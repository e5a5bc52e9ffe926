-------------------------- MODULE SjaDriver_proofs --------------------------
(***************************************************************************)
(* What the driver guarantees for any number of ports, registers, frames   *)
(* and packets and for every size of the timestamp registers.              *)
(*                                                                         *)
(* TimestampExact rests on RecreateExact, once StampInv shows that a stamp *)
(* meets a clock value of less than one lap later.  CountInv bounds the    *)
(* completions of a register by the frames sent, and ListInv says that a   *)
(* packet is waiting for one poll at a time, and for one that reads the    *)
(* clock after it asked.                                                   *)
(*                                                                         *)
(* ConfiguredSpeed rests on SpeedInv (which ports the poll thread is past),*)
(* TimestampOwn on OwnInv (whose stamp is where).  EntryInv and KeptInv say*)
(* what is not lost while no transfer fails.                               *)
(***************************************************************************)
EXTENDS SjaDriver, SjaClock_proofs, SequenceTheorems, TLAPS

(* TypeOK by the variables that change together. *)

ClockTypes ==
  /\ clock \in 0..MaxClock
  /\ inflight \in [Regs -> Seq(1..MaxFrames)]
  /\ egress \in [Regs -> Stamps]

SpeedTypes ==
  /\ macSpeed \in [Ports -> Speeds \cup {0}] /\ clkSpeed \in [Ports -> Speeds \cup {0}]

PollTypes ==
  /\ ppc \in {"idle", "read", "clock", "conf", "stamp", "call"}
  /\ rx \in [ts : [Regs -> Stamps], clk : 0..MaxClock]
  /\ todo \subseteq PhyPorts
  /\ cur \subseteq [port : PhyPorts, speed : Speeds]

PacketStates == [state : {"new", "waiting", "cancelled", "answered"},
                 asked : 0..MaxClock, clk : 0..MaxClock]

ListTypes ==
  /\ local \in Seq(Packets) /\ tsList \in Seq(Packets)
  /\ pkt \in [Packets -> PacketStates]

ClientTypes ==
  /\ cpc \in [Regs -> {"idle", "write", "check", "send", "sent", "wait"}]
  /\ frame \in [Regs -> 0..MaxFrames] /\ frames \in 0..MaxFrames
  /\ done \in [Regs -> 0..MaxFrames]

MarkTypes == tainted \in [Regs -> BOOLEAN] /\ missed \in [PhyPorts -> BOOLEAN]

EgressTsTypes ==
  egressTs \in [Regs -> [frame : 0..MaxFrames, at : 0..MaxClock, ts : Nat]]

PhyTypes ==
  /\ hpc \in [PhyPorts -> {"idle", "check", "write"}]
  /\ lastSpeed \in [PhyPorts -> Speeds \cup {0}]
  /\ changes \in 0..MaxLinkChanges
  /\ uploads \in 0..MaxUploads /\ errors \in 0..MaxErrors

BoolTypes ==
  /\ hwConf \in BOOLEAN /\ localCb \in BOOLEAN /\ switchConfd \in BOOLEAN
  /\ pollEnable \in BOOLEAN /\ tsCb \in BOOLEAN /\ sawDown \in BOOLEAN
  /\ unseen \in BOOLEAN

\* A stamp is less than one lap older than the clock until it is paired with a
\* clock value, and than that value from then on.
StampInv ==
  /\ \A r \in Regs : Valid(egress[r]) =>
       egress[r].at <= clock /\ clock < egress[r].at + Wrap
  /\ \A r \in Regs : (ppc = "clock" /\ Valid(rx.ts[r])) =>
       rx.ts[r].at <= clock /\ clock < rx.ts[r].at + Wrap
  /\ \A r \in Regs : (ppc \in {"conf", "stamp"} /\ Valid(rx.ts[r])) =>
       rx.ts[r].at <= rx.clk /\ rx.clk < rx.ts[r].at + Wrap

\* A caller that has prepared its frame and not sent it.
Owed(r) == IF cpc[r] \in {"write", "check", "send"} THEN 1 ELSE 0

Unread(r) == IF Valid(egress[r]) THEN 1 ELSE 0
Unpublished(r) == IF Valid(rx.ts[r]) THEN 1 ELSE 0

\* Every frame that was prepared is in at most one place.
CountAt(r) ==
  /\ cpc[r] # "idle" => frame[r] # 0
  /\ Owed(r) + Len(inflight[r]) + Unread(r) + Unpublished(r) + done[r] <= frames

CountInv == \A r \in Regs : CountAt(r)

\* The packets on the two lists are waiting, and each is on one of them; those
\* a poll has taken asked before it reads the clock.
ListInv ==
  /\ \A k \in Packets : (Contains(local, k) \/ Contains(tsList, k)) =>
                          pkt[k].state = "waiting"
  /\ \A k \in Packets : ~(Contains(local, k) /\ Contains(tsList, k))
  /\ \A k \in Packets : pkt[k].asked <= clock
  /\ ppc \in {"conf", "stamp", "call"} =>
       \A k \in Packets : Contains(local, k) => pkt[k].asked <= rx.clk

IInv ==
  /\ ClockTypes /\ SpeedTypes /\ PollTypes /\ ListTypes /\ ClientTypes
  /\ MarkTypes /\ EgressTsTypes /\ PhyTypes /\ BoolTypes
  /\ StampInv /\ TimestampExact /\ CountInv /\ ListInv /\ ClkvalFresh

-----------------------------------------------------------------------------
LEMMA Bounds ==
  /\ PhyPorts \subseteq Ports /\ Speeds \subseteq Nat \ {0}
  /\ MaxClock \in Nat /\ MaxFrames \in Nat /\ MaxLinkChanges \in Nat
  /\ MaxUploads \in Nat /\ MaxErrors \in Nat
  BY PortsAssumption, SpeedsAssumption, BoundsAssumption

\* What is on an empty list, a longer list and a list that was put together.
LEMMA ContainsEmpty == \A e : ~Contains(<<>>, e)
  BY DEF Contains

LEMMA ContainsAppend ==
  ASSUME NEW S, NEW s \in Seq(S), NEW x \in S, NEW e \in S
  PROVE  Contains(Append(s, x), e) <=> (Contains(s, e) \/ e = x)
  BY AppendProperties DEF Contains

\* A part of the invariant is kept by a step that changes none of its variables.
LEMMA Frame ==
  /\ ClockTypes /\ UNCHANGED <<clock, inflight, egress>> => ClockTypes'
  /\ SpeedTypes /\ UNCHANGED <<macSpeed, clkSpeed>> => SpeedTypes'
  /\ PollTypes /\ UNCHANGED <<ppc, rx, todo, cur>> => PollTypes'
  /\ ListTypes /\ UNCHANGED <<local, tsList, pkt>> => ListTypes'
  /\ ClientTypes /\ UNCHANGED <<cpc, frame, frames, done>> => ClientTypes'
  /\ MarkTypes /\ UNCHANGED <<tainted, missed>> => MarkTypes'
  /\ EgressTsTypes /\ UNCHANGED <<egressTs>> => EgressTsTypes'
  /\ PhyTypes /\ UNCHANGED <<hpc, lastSpeed, changes, uploads, errors>> => PhyTypes'
  /\ BoolTypes /\ UNCHANGED <<hwConf, localCb, switchConfd, pollEnable, tsCb, sawDown,
       unseen>> => BoolTypes'
  /\ StampInv /\ UNCHANGED <<egress, clock, ppc, rx>> => StampInv'
  /\ TimestampExact /\ UNCHANGED <<egressTs>> => TimestampExact'
  /\ CountInv /\ UNCHANGED <<inflight, egress, rx, done, cpc, frames, frame>> => CountInv'
  /\ ListInv /\ UNCHANGED <<local, tsList, pkt, clock, ppc, rx>> => ListInv'
  /\ ClkvalFresh /\ UNCHANGED <<pkt>> => ClkvalFresh'
<1>1. ClockTypes /\ UNCHANGED <<clock, inflight, egress>> => ClockTypes'
  BY DEF ClockTypes
<1>2. SpeedTypes /\ UNCHANGED <<macSpeed, clkSpeed>> => SpeedTypes'
  BY DEF SpeedTypes
<1>3. PollTypes /\ UNCHANGED <<ppc, rx, todo, cur>> => PollTypes'
  BY DEF PollTypes
<1>4. ListTypes /\ UNCHANGED <<local, tsList, pkt>> => ListTypes'
  BY DEF ListTypes
<1>5. ClientTypes /\ UNCHANGED <<cpc, frame, frames, done>> => ClientTypes'
  BY DEF ClientTypes
<1>6. MarkTypes /\ UNCHANGED <<tainted, missed>> => MarkTypes'
  BY DEF MarkTypes
<1>7. EgressTsTypes /\ UNCHANGED <<egressTs>> => EgressTsTypes'
  BY DEF EgressTsTypes
<1>8. PhyTypes /\ UNCHANGED <<hpc, lastSpeed, changes, uploads, errors>> => PhyTypes'
  BY DEF PhyTypes
<1>9. BoolTypes /\ UNCHANGED <<hwConf, localCb, switchConfd, pollEnable, tsCb, sawDown,
        unseen>> => BoolTypes'
  BY DEF BoolTypes
<1>10. StampInv /\ UNCHANGED <<egress, clock, ppc, rx>> => StampInv'
  BY DEF StampInv
<1>11. TimestampExact /\ UNCHANGED <<egressTs>> => TimestampExact'
  BY DEF TimestampExact
<1>12. CountInv /\ UNCHANGED <<inflight, egress, rx, done, cpc, frames, frame>> => CountInv'
  BY DEF CountInv, CountAt, Owed, Unread, Unpublished
<1>13. ListInv /\ UNCHANGED <<local, tsList, pkt, clock, ppc, rx>> => ListInv'
  BY DEF ListInv
<1>14. ClkvalFresh /\ UNCHANGED <<pkt>> => ClkvalFresh'
  BY DEF ClkvalFresh
<1> QED
  BY <1>1, <1>2, <1>3, <1>4, <1>5, <1>6, <1>7, <1>8, <1>9, <1>10, <1>11, <1>12, <1>13,
     <1>14

LEMMA CountTypes ==
  ASSUME ClockTypes, ClientTypes, NEW r \in Regs
  PROVE  Len(inflight[r]) \in Nat /\ done[r] \in Nat /\ frames \in Nat
<1>1. inflight[r] \in Seq(1..MaxFrames)
  BY DEF ClockTypes
<1> QED
  BY <1>1 DEF ClientTypes

LEMMA InitIInv == Init => IInv
<1> SUFFICES ASSUME Init PROVE IInv
  OBVIOUS
<1>1. ClockTypes /\ SpeedTypes /\ PollTypes
  BY Bounds DEF Init, ClockTypes, SpeedTypes, PollTypes, Stamps, NoStamp
<1>2. ListTypes /\ ClientTypes /\ EgressTsTypes /\ PhyTypes
  BY Bounds DEF Init, ListTypes, PacketStates, ClientTypes, EgressTsTypes, PhyTypes
<1>3. MarkTypes /\ BoolTypes
  BY Zenon DEF Init, MarkTypes, BoolTypes
<1>4. StampInv /\ TimestampExact /\ CountInv
  BY DEF Init, StampInv, CountInv, CountAt, TimestampExact, Valid, NoStamp, Owed,
     Unread, Unpublished
<1>5. ListInv /\ ClkvalFresh
  BY ContainsEmpty DEF Init, ListInv, ClkvalFresh
<1> QED
  BY <1>1, <1>2, <1>3, <1>4, <1>5 DEF IInv

\* The invariant holds through every step.
LEMMA NextIInv == IInv /\ [Next]_vars => IInv'
<1> SUFFICES ASSUME IInv, [Next]_vars PROVE IInv'
  OBVIOUS
<1> USE Bounds, WrapAssumption DEF IInv
<1>1. CASE PollStart
  <2>1. UNCHANGED <<clock, inflight, egress, macSpeed, clkSpeed, rx, todo, cur, pkt,
                    cpc, frame, frames, done, tainted, missed, egressTs, hpc, lastSpeed,
                    changes, uploads, errors, hwConf, switchConfd, pollEnable, sawDown,
                    unseen>>
    BY <1>1 DEF PollStart, hwClock, hwSpeed, client, stamps, phy, seen
  <2>2. ClockTypes' /\ SpeedTypes' /\ ClientTypes' /\ MarkTypes' /\ EgressTsTypes' /\
       PhyTypes' /\ TimestampExact' /\ CountInv' /\ ClkvalFresh'
    BY <2>1, Frame
  <2>3. PollTypes'
    BY <1>1, <2>1 DEF PollStart, PollTypes
  <2>4. ListTypes'
    BY <1>1, <2>1 DEF PollStart, ListTypes
  <2>5. BoolTypes'
    BY <1>1, <2>1, Zenon DEF PollStart, BoolTypes
  <2>6. StampInv'
    BY <1>1, <2>1 DEF PollStart, StampInv
  <2>7. ListInv'
    BY <1>1, <2>1, ContainsEmpty DEF PollStart, ListInv
  <2> QED
    BY <2>2, <2>3, <2>4, <2>5, <2>6, <2>7
<1>2. CASE PollReadStamps
  <2>1. UNCHANGED <<clock, inflight, macSpeed, clkSpeed, todo, cur, local, tsList, pkt,
                    cpc, frame, frames, done, tainted, missed, egressTs, hpc, lastSpeed,
                    changes, uploads, errors, hwConf, localCb, switchConfd, pollEnable,
                    tsCb, sawDown, unseen>>
    BY <1>2 DEF PollReadStamps, hwSpeed, clkval, client, stamps, phy, seen
  <2>2. SpeedTypes' /\ ListTypes' /\ ClientTypes' /\ MarkTypes' /\ EgressTsTypes' /\
       PhyTypes' /\ BoolTypes' /\ TimestampExact' /\ ClkvalFresh'
    BY <2>1, Frame
  <2>3. ClockTypes'
    BY <1>2, <2>1 DEF PollReadStamps, ClockTypes, Stamps, NoStamp
  <2>4. PollTypes'
    BY <1>2, <2>1 DEF PollReadStamps, PollTypes, ClockTypes
  <2>5. StampInv'
    BY <1>2, <2>1 DEF PollReadStamps, StampInv, Valid, NoStamp
  <2>6. CountInv'
    <3> SUFFICES ASSUME NEW q \in Regs PROVE CountAt(q)'
      BY DEF CountInv
    <3>1. CountAt(q) /\ Len(inflight[q]) \in Nat /\ done[q] \in Nat /\ frames \in Nat
      BY CountTypes DEF CountInv
    <3>2. Unpublished(q)' = Unread(q) /\ Unread(q)' = 0
      BY <1>2 DEF PollReadStamps, Unpublished, Unread, Valid, NoStamp
    <3>3. Unpublished(q) \in 0..1 /\ Unread(q) \in 0..1 /\ Owed(q) \in 0..1 /\ Owed(q)' = Owed(q)
      BY <2>1 DEF Unpublished, Unread, Owed
    <3> QED
      BY <2>1, <3>1, <3>2, <3>3 DEF CountAt
  <2>7. ListInv'
    BY <1>2, <2>1 DEF PollReadStamps, ListInv
  <2> QED
    BY <2>2, <2>3, <2>4, <2>5, <2>6, <2>7
<1>3. CASE PollReadClock
  <2>1. UNCHANGED <<clock, inflight, egress, macSpeed, clkSpeed, cur, local, tsList,
                    pkt, cpc, frame, frames, done, tainted, egressTs, hpc, lastSpeed,
                    changes, uploads, errors, hwConf, localCb, pollEnable, tsCb,
                    unseen>>
    BY <1>3 DEF PollReadClock, hwClock, hwSpeed, clkval, client, stamps, phy
  <2>2. ClockTypes' /\ SpeedTypes' /\ ListTypes' /\ ClientTypes' /\ EgressTsTypes' /\
       PhyTypes' /\ TimestampExact' /\ ClkvalFresh'
    BY <2>1, Frame
  <2>3. PollTypes'
    BY <1>3, <2>1 DEF PollReadClock, PollTypes, ClockTypes
  <2>4. MarkTypes'
    BY <1>3, <2>1 DEF PollReadClock, MarkTypes
  <2>5. BoolTypes'
    BY <1>3, <2>1, Zenon DEF PollReadClock, BoolTypes
  <2>6. StampInv'
    BY <1>3, <2>1 DEF PollReadClock, StampInv
  <2>7. CountInv'
    BY <1>3, <2>1 DEF PollReadClock, CountInv, CountAt, Owed, Unread, Unpublished,
       PollTypes
  <2>8. ListInv'
    BY <1>3, <2>1 DEF PollReadClock, ListInv
  <2> QED
    BY <2>2, <2>3, <2>4, <2>5, <2>6, <2>7, <2>8
<1>4. CASE PollFails
  <2>1. UNCHANGED <<clock, inflight, egress, macSpeed, clkSpeed, rx, todo, cur, tsList,
                    pkt, cpc, frame, frames, done, tainted, missed, egressTs, hpc,
                    lastSpeed, changes, uploads, hwConf, switchConfd, pollEnable, tsCb,
                    sawDown, unseen>>
    BY <1>4 DEF PollFails, hwClock, hwSpeed, clkval, client, stamps, phy, seen
  <2>2. ClockTypes' /\ SpeedTypes' /\ ClientTypes' /\ MarkTypes' /\ EgressTsTypes' /\
       TimestampExact' /\ CountInv' /\ ClkvalFresh'
    BY <2>1, Frame
  <2>3. PollTypes'
    BY <1>4, <2>1 DEF PollFails, PollTypes
  <2>4. ListTypes'
    BY <1>4, <2>1 DEF PollFails, ListTypes
  <2>5. PhyTypes'
    BY <1>4, <2>1 DEF PollFails, Fails, PhyTypes
  <2>6. BoolTypes'
    BY <1>4, <2>1, Zenon DEF PollFails, BoolTypes
  <2>7. StampInv'
    BY <1>4, <2>1 DEF PollFails, StampInv
  <2>8. ListInv'
    BY <1>4, <2>1, ContainsEmpty DEF PollFails, ListInv
  <2> QED
    BY <2>2, <2>3, <2>4, <2>5, <2>6, <2>7, <2>8
<1>5. ASSUME NEW p \in PhyPorts, PollPickPort(p) PROVE IInv'
  <2>1. UNCHANGED <<clock, inflight, egress, macSpeed, clkSpeed, ppc, rx, local, tsList,
                    pkt, cpc, frame, frames, done, tainted, missed, egressTs, hpc,
                    lastSpeed, changes, uploads, errors, hwConf, localCb, switchConfd,
                    pollEnable, tsCb, sawDown, unseen>>
    BY <1>5 DEF PollPickPort, hwClock, hwSpeed, clkval, client, stamps, phy, seen
  <2>2. ClockTypes' /\ SpeedTypes' /\ ListTypes' /\ ClientTypes' /\ MarkTypes' /\
       EgressTsTypes' /\ PhyTypes' /\ BoolTypes' /\ StampInv' /\ TimestampExact' /\
       CountInv' /\ ListInv' /\ ClkvalFresh'
    BY <2>1, Frame
  <2>3. PollTypes'
    BY <1>5, <2>1 DEF PollPickPort, PollTypes, PhyTypes
  <2> QED
    BY <2>2, <2>3
<1>6. CASE PollWriteSpeed
  <2>1. UNCHANGED <<clock, inflight, egress, ppc, rx, todo, local, tsList, pkt, cpc,
                    frame, frames, done, tainted, egressTs, hpc, lastSpeed, changes,
                    uploads, hwConf, localCb, switchConfd, pollEnable, tsCb, sawDown,
                    unseen>>
    BY <1>6 DEF PollWriteSpeed, hwClock, clkval, client, stamps, phy
  <2>2. ClockTypes' /\ ListTypes' /\ ClientTypes' /\ EgressTsTypes' /\ BoolTypes' /\
       StampInv' /\ TimestampExact' /\ CountInv' /\ ListInv' /\ ClkvalFresh'
    BY <2>1, Frame
  <2>3. SpeedTypes'
    <3>1. PICK w \in cur :
            \/ UNCHANGED <<macSpeed, clkSpeed>>
            \/ /\ macSpeed' = [macSpeed EXCEPT ![w.port] = w.speed]
               /\ clkSpeed' = [clkSpeed EXCEPT ![w.port] = lastSpeed[w.port]]
      BY <1>6 DEF PollWriteSpeed
    <3>2. w.port \in PhyPorts /\ w.speed \in Speeds
      BY DEF PollTypes
    <3> QED
      BY <3>1, <3>2 DEF SpeedTypes, PhyTypes
  <2>4. PollTypes'
    BY <1>6, <2>1 DEF PollWriteSpeed, PollTypes
  <2>5. MarkTypes'
    BY <1>6, <2>1 DEF PollWriteSpeed, MarkTypes
  <2>6. PhyTypes'
    BY <1>6, <2>1 DEF PollWriteSpeed, Works, Fails, PhyTypes
  <2> QED
    BY <2>2, <2>3, <2>4, <2>5, <2>6
<1>7. CASE PollConfd
  <2>1. UNCHANGED <<clock, inflight, egress, macSpeed, clkSpeed, rx, todo, cur, local,
                    tsList, pkt, cpc, frame, frames, done, tainted, missed, egressTs,
                    hpc, lastSpeed, changes, uploads, errors, hwConf, localCb,
                    pollEnable, tsCb, sawDown, unseen>>
    BY <1>7 DEF PollConfd, hwClock, hwSpeed, clkval, client, stamps, phy, seen
  <2>2. ClockTypes' /\ SpeedTypes' /\ ListTypes' /\ ClientTypes' /\ MarkTypes' /\
       EgressTsTypes' /\ PhyTypes' /\ TimestampExact' /\ CountInv' /\ ClkvalFresh'
    BY <2>1, Frame
  <2>3. PollTypes'
    BY <1>7, <2>1 DEF PollConfd, PollTypes
  <2>4. BoolTypes'
    BY <1>7, <2>1, Zenon DEF PollConfd, BoolTypes
  <2>5. StampInv'
    BY <1>7, <2>1 DEF PollConfd, StampInv
  <2>6. ListInv'
    BY <1>7, <2>1 DEF PollConfd, ListInv
  <2> QED
    BY <2>2, <2>3, <2>4, <2>5, <2>6
<1>8. CASE PollComplete
  <2>1. UNCHANGED <<clock, inflight, egress, macSpeed, clkSpeed, todo, cur, local,
                    tsList, pkt, cpc, frame, frames, tainted, missed, hpc, lastSpeed,
                    changes, uploads, errors, hwConf, localCb, switchConfd, pollEnable,
                    tsCb, sawDown, unseen>>
    BY <1>8 DEF PollComplete, hwClock, hwSpeed, clkval, client, phy, seen
  <2>2. ClockTypes' /\ SpeedTypes' /\ ListTypes' /\ MarkTypes' /\ PhyTypes' /\
       BoolTypes' /\ ClkvalFresh'
    BY <2>1, Frame
  <2>3. PollTypes'
    <3>1. rx' = [ts |-> [r \in Regs |-> NoStamp], clk |-> rx.clk]
      BY <1>8 DEF PollComplete, PollTypes
    <3>2. NoStamp \in Stamps
      BY DEF NoStamp, Stamps
    <3> QED
      BY <1>8, <2>1, <3>1, <3>2 DEF PollComplete, PollTypes
  <2>4. ClientTypes'
    <3>1. ASSUME NEW q \in Regs PROVE done'[q] \in 0..MaxFrames
      <4>1. CountAt(q) /\ Len(inflight[q]) \in Nat /\ done[q] \in Nat /\ frames \in 0..MaxFrames
        BY CountTypes DEF CountInv, ClientTypes
      <4>2. Unpublished(q) \in 0..1 /\ Unread(q) \in 0..1 /\ Owed(q) \in 0..1
        BY DEF Unpublished, Unread, Owed
      <4>3. done'[q] = done[q] + Unpublished(q)
        BY <1>8, <4>1 DEF PollComplete, Complete, Unpublished
      <4>4. Owed(q) + Len(inflight[q]) + Unread(q) + Unpublished(q) + done[q] <= frames
        BY <4>1 DEF CountAt
      <4>5. done[q] + Unpublished(q) <= MaxFrames
        BY <4>1, <4>2, <4>4
      <4> QED
        BY <4>1, <4>2, <4>3, <4>5
    <3>2. done' = [q \in Regs |-> done'[q]]
      BY <1>8 DEF PollComplete, Complete
    <3> QED
      BY <2>1, <3>1, <3>2 DEF ClientTypes
  <2>5. EgressTsTypes'
    <3>1. ASSUME NEW q \in Regs, Valid(rx.ts[q])
          PROVE  RecreateTs(rx.clk, LowBits(rx.ts[q].at)) = NsPerTick * rx.ts[q].at
      <4>1. rx.ts[q] \in Stamps /\ rx.clk \in Nat
        BY DEF PollTypes
      <4>2. rx.ts[q].at \in Nat
        BY <4>1 DEF Stamps
      <4>3. rx.ts[q].at <= rx.clk /\ rx.clk < rx.ts[q].at + Wrap
        BY <1>8, <3>1 DEF PollComplete, StampInv
      <4> QED
        BY <4>1, <4>2, <4>3, RecreateExact
    <3>2. ASSUME NEW q \in Regs
          PROVE  egressTs'[q] \in [frame : 0..MaxFrames, at : 0..MaxClock, ts : Nat]
      <4>1. CASE Valid(rx.ts[q])
        <5>1. rx.ts[q].frame \in 0..MaxFrames /\ rx.ts[q].at \in 0..MaxClock
          BY DEF PollTypes, Stamps
        <5>2. NsPerTick * rx.ts[q].at \in Nat
          BY <5>1 DEF NsPerTick
        <5>3. egressTs'[q] = [frame |-> rx.ts[q].frame, at |-> rx.ts[q].at,
                              ts |-> NsPerTick * rx.ts[q].at]
          BY <1>8, <3>1, <4>1 DEF PollComplete, Complete
        <5> QED
          BY <5>1, <5>2, <5>3
      <4>2. CASE ~Valid(rx.ts[q])
        BY <1>8, <4>2 DEF PollComplete, Complete, EgressTsTypes
      <4> QED
        BY <4>1, <4>2
    <3>3. egressTs' = [q \in Regs |-> egressTs'[q]]
      BY <1>8 DEF PollComplete, Complete
    <3> QED
      BY <3>2, <3>3 DEF EgressTsTypes
  <2>6. StampInv'
    BY <1>8, <2>1 DEF PollComplete, StampInv
  <2>7. TimestampExact'
    <3>1. ASSUME NEW q \in Regs, Valid(rx.ts[q])
          PROVE  RecreateTs(rx.clk, LowBits(rx.ts[q].at)) = NsPerTick * rx.ts[q].at
      <4>1. rx.ts[q] \in Stamps /\ rx.clk \in Nat
        BY DEF PollTypes
      <4>2. rx.ts[q].at \in Nat
        BY <4>1 DEF Stamps
      <4>3. rx.ts[q].at <= rx.clk /\ rx.clk < rx.ts[q].at + Wrap
        BY <1>8, <3>1 DEF PollComplete, StampInv
      <4> QED
        BY <4>1, <4>2, <4>3, RecreateExact
    <3>2. ASSUME NEW q \in Regs, egressTs'[q].frame # 0
          PROVE  egressTs'[q].ts = NsPerTick * egressTs'[q].at
      <4>1. CASE Valid(rx.ts[q])
        BY <1>8, <3>1, <4>1 DEF PollComplete, Complete
      <4>2. CASE ~Valid(rx.ts[q])
        BY <1>8, <3>2, <4>2 DEF PollComplete, Complete, TimestampExact
      <4> QED
        BY <4>1, <4>2
    <3> QED
      BY <3>2 DEF TimestampExact
  <2>8. CountInv'
    <3> SUFFICES ASSUME NEW q \in Regs PROVE CountAt(q)'
      BY DEF CountInv
    <3>1. CountAt(q) /\ Len(inflight[q]) \in Nat /\ done[q] \in Nat /\ frames \in Nat
      BY CountTypes DEF CountInv
    <3>2. Unpublished(q)' = 0 /\ done'[q] = done[q] + Unpublished(q)
      BY <1>8, <3>1 DEF PollComplete, Complete, Unpublished, Valid, NoStamp
    <3>3. Unread(q)' = Unread(q) /\ Owed(q)' = Owed(q)
      BY <2>1 DEF Unread, Owed
    <3>4. Unpublished(q) \in 0..1 /\ Unread(q) \in 0..1 /\ Owed(q) \in 0..1
      BY DEF Unpublished, Unread, Owed
    <3>5. cpc'[q] # "idle" => frame'[q] # 0
      BY <2>1, <3>1 DEF CountAt
    <3>6. Owed(q)' + Len(inflight'[q]) + Unread(q)' + Unpublished(q)' + done'[q] <= frames'
      BY <2>1, <3>1, <3>2, <3>3, <3>4 DEF CountAt
    <3> QED
      BY <3>5, <3>6 DEF CountAt
  <2>9. ListInv'
    BY <1>8, <2>1 DEF PollComplete, ListInv
  <2> QED
    BY <2>2, <2>3, <2>4, <2>5, <2>6, <2>7, <2>8, <2>9
<1>9. CASE PollCallback
  <2>1. UNCHANGED <<clock, inflight, egress, macSpeed, clkSpeed, rx, todo, cur, tsList,
                    cpc, frame, frames, done, tainted, missed, egressTs, hpc, lastSpeed,
                    changes, uploads, errors, hwConf, switchConfd, pollEnable, tsCb,
                    sawDown, unseen>>
    BY <1>9 DEF PollCallback, hwClock, hwSpeed, client, stamps, phy, seen
  <2>2. ClockTypes' /\ SpeedTypes' /\ ClientTypes' /\ MarkTypes' /\ EgressTsTypes' /\
       PhyTypes' /\ TimestampExact' /\ CountInv'
    BY <2>1, Frame
  <2>3. PollTypes'
    BY <1>9, <2>1 DEF PollCallback, PollTypes
  <2>4. ListTypes'
    <3>1. ASSUME NEW k \in Packets PROVE pkt'[k] \in PacketStates
      <4>1. pkt[k] \in PacketStates /\ rx.clk \in 0..MaxClock
        BY DEF ListTypes, PollTypes
      <4>2. pkt'[k] = pkt[k] \/ pkt'[k] = [pkt[k] EXCEPT !.state = "answered", !.clk = rx.clk]
        BY <1>9 DEF PollCallback
      <4> QED
        BY <4>1, <4>2 DEF PacketStates
    <3>2. pkt' = [k \in Packets |-> pkt'[k]]
      BY <1>9 DEF PollCallback
    <3>3. local' = <<>>
      BY <1>9 DEF PollCallback
    <3>4. pkt' \in [Packets -> PacketStates]
      BY <3>1, <3>2
    <3> QED
      BY <2>1, <3>3, <3>4 DEF ListTypes
  <2>5. BoolTypes'
    BY <1>9, <2>1, Zenon DEF PollCallback, BoolTypes
  <2>6. StampInv'
    BY <1>9, <2>1 DEF PollCallback, StampInv
  <2>7. ListInv'
    <3>1. \A k \in Packets : pkt'[k].asked = pkt[k].asked
      BY <1>9 DEF PollCallback, ListTypes, PacketStates
    <3>2. \A k \in Packets : ~Contains(local, k) => pkt'[k] = pkt[k]
      BY <1>9 DEF PollCallback
    <3> QED
      BY <1>9, <2>1, <3>1, <3>2, ContainsEmpty DEF PollCallback, ListInv
  <2>8. ClkvalFresh'
    BY <1>9, <2>1 DEF PollCallback, ClkvalFresh, ListInv, ListTypes, PacketStates
  <2> QED
    BY <2>2, <2>3, <2>4, <2>5, <2>6, <2>7, <2>8
<1>10. CASE PollDisabled
  <2>1. UNCHANGED <<clock, inflight, egress, macSpeed, clkSpeed, ppc, rx, todo, cur,
                    local, tsList, pkt, cpc, frame, frames, done, tainted, missed,
                    egressTs, hpc, lastSpeed, changes, uploads, errors, hwConf, localCb,
                    pollEnable, tsCb, unseen>>
    BY <1>10 DEF PollDisabled, hwClock, hwSpeed, clkval, client, stamps, phy
  <2>2. ClockTypes' /\ SpeedTypes' /\ PollTypes' /\ ListTypes' /\ ClientTypes' /\
       MarkTypes' /\ EgressTsTypes' /\ PhyTypes' /\ StampInv' /\ TimestampExact' /\
       CountInv' /\ ListInv' /\ ClkvalFresh'
    BY <2>1, Frame
  <2>3. BoolTypes'
    BY <1>10, <2>1, Zenon DEF PollDisabled, BoolTypes
  <2> QED
    BY <2>2, <2>3
<1>11. CASE CancelClkval
  <2>1. UNCHANGED <<clock, inflight, egress, macSpeed, clkSpeed, ppc, rx, todo, cur,
                    local, cpc, frame, frames, done, tainted, missed, egressTs, hpc,
                    lastSpeed, changes, uploads, errors, hwConf, localCb, switchConfd,
                    pollEnable, sawDown, unseen>>
    BY <1>11 DEF CancelClkval, hwClock, hwSpeed, poller, client, stamps, phy, seen
  <2>2. ClockTypes' /\ SpeedTypes' /\ PollTypes' /\ ClientTypes' /\ MarkTypes' /\
       EgressTsTypes' /\ PhyTypes' /\ StampInv' /\ TimestampExact' /\ CountInv'
    BY <2>1, Frame
  <2>3. ListTypes'
    <3>1. ASSUME NEW k \in Packets PROVE pkt'[k] \in PacketStates
      <4>1. pkt[k] \in PacketStates
        BY DEF ListTypes
      <4>2. pkt'[k] = pkt[k] \/ pkt'[k] = [pkt[k] EXCEPT !.state = "cancelled"]
        BY <1>11 DEF CancelClkval
      <4> QED
        BY <4>1, <4>2 DEF PacketStates
    <3>2. pkt' = [k \in Packets |-> pkt'[k]]
      BY <1>11 DEF CancelClkval
    <3> QED
      BY <1>11, <2>1, <3>1, <3>2 DEF CancelClkval, ListTypes
  <2>4. BoolTypes'
    BY <1>11, <2>1, Zenon DEF CancelClkval, BoolTypes
  <2>5. ListInv'
    <3>1. \A k \in Packets : pkt'[k].asked = pkt[k].asked
      BY <1>11 DEF CancelClkval
    <3>2. \A k \in Packets : ~Contains(tsList, k) => pkt'[k] = pkt[k]
      BY <1>11 DEF CancelClkval
    <3> QED
      BY <1>11, <2>1, <3>1, <3>2, ContainsEmpty DEF CancelClkval, ListInv
  <2>6. ClkvalFresh'
    BY <1>11, <2>1 DEF CancelClkval, ClkvalFresh
  <2> QED
    BY <2>2, <2>3, <2>4, <2>5, <2>6
<1>12. ASSUME NEW k \in Packets, NextClkval(k) PROVE IInv'
  <2>1. UNCHANGED <<clock, inflight, egress, macSpeed, clkSpeed, ppc, rx, todo, cur,
                    local, cpc, frame, frames, done, tainted, missed, egressTs, hpc,
                    lastSpeed, changes, uploads, errors, hwConf, localCb, switchConfd,
                    pollEnable, sawDown, unseen>>
    BY <1>12 DEF NextClkval, hwClock, hwSpeed, poller, client, stamps, phy, seen
  <2>2. ClockTypes' /\ SpeedTypes' /\ PollTypes' /\ ClientTypes' /\ MarkTypes' /\
       EgressTsTypes' /\ PhyTypes' /\ StampInv' /\ TimestampExact' /\ CountInv'
    BY <2>1, Frame
  <2>3. ListTypes'
    <3>1. [state |-> "waiting", asked |-> clock, clk |-> 0] \in PacketStates
      BY DEF ClockTypes, PacketStates
    <3>2. Append(tsList, k) \in Seq(Packets)
      BY DEF ListTypes
    <3> QED
      BY <1>12, <2>1, <3>1, <3>2 DEF NextClkval, ListTypes
  <2>4. BoolTypes'
    BY <1>12, <2>1, Zenon DEF NextClkval, BoolTypes
  <2>5. ListInv'
    <3>1. \A j \in Packets : Contains(tsList', j) <=> (Contains(tsList, j) \/ j = k)
      BY <1>12, ContainsAppend DEF NextClkval, ListTypes
    <3>2. /\ pkt'[k] = [state |-> "waiting", asked |-> clock, clk |-> 0]
          /\ \A j \in Packets \ {k} : pkt'[j] = pkt[j]
      BY <1>12 DEF NextClkval, ListTypes
    <3>3. ~Contains(local, k) /\ ~Contains(tsList, k)
      BY <1>12 DEF NextClkval, ListInv
    <3>4. clock \in Int
      BY DEF ClockTypes
    <3> QED
      BY <2>1, <3>1, <3>2, <3>3, <3>4 DEF ListInv
  <2>6. ClkvalFresh'
    BY <1>12, <2>1 DEF NextClkval, ClkvalFresh
  <2> QED
    BY <2>2, <2>3, <2>4, <2>5, <2>6
<1>13. ASSUME NEW r \in Regs, Prepare(r) PROVE IInv'
  <2>1. UNCHANGED <<clock, inflight, egress, macSpeed, clkSpeed, ppc, rx, todo, cur,
                    local, tsList, pkt, missed, egressTs, hpc, lastSpeed, changes,
                    uploads, errors, hwConf, localCb, switchConfd, pollEnable, tsCb,
                    sawDown, unseen>>
    BY <1>13 DEF Prepare, hwClock, hwSpeed, poller, clkval, phy, seen
  <2>2. ClockTypes' /\ SpeedTypes' /\ PollTypes' /\ ListTypes' /\ EgressTsTypes' /\
       PhyTypes' /\ BoolTypes' /\ StampInv' /\ TimestampExact' /\ ListInv' /\
       ClkvalFresh'
    BY <2>1, Frame
  <2>3. ClientTypes'
    BY <1>13, <2>1 DEF Prepare, ClientTypes
  <2>4. MarkTypes'
    <3>1. Outstanding(r) \in BOOLEAN
      BY Zenon DEF Outstanding
    <3> QED
      BY <1>13, <2>1, <3>1 DEF Prepare, MarkTypes
  <2>5. CountInv'
    <3> SUFFICES ASSUME NEW q \in Regs PROVE CountAt(q)'
      BY DEF CountInv
    <3>1. CountAt(q) /\ Len(inflight[q]) \in Nat /\ done[q] \in Nat /\ frames \in Nat
      BY CountTypes DEF CountInv
    <3>2. /\ Unread(q) \in 0..1 /\ Unread(q)' = Unread(q)
          /\ Unpublished(q) \in 0..1 /\ Unpublished(q)' = Unpublished(q)
      BY <2>1 DEF Unread, Unpublished
    <3>3. /\ frames' = frames + 1
          /\ cpc'[q] = IF q = r THEN "write" ELSE cpc[q]
          /\ frame'[q] = IF q = r THEN frames + 1 ELSE frame[q]
          /\ done'[q] = IF q = r THEN 0 ELSE done[q]
      BY <1>13 DEF Prepare, ClientTypes
    <3>4. Owed(q) \in 0..1 /\ Owed(q)' \in 0..1
      BY DEF Owed
    <3>5. cpc'[q] # "idle" => frame'[q] # 0
      BY <3>1, <3>3 DEF CountAt
    <3>6. Len(inflight'[q]) = Len(inflight[q])
      BY <2>1
    <3>7. done'[q] \in Nat /\ done'[q] <= done[q]
      BY <3>1, <3>3
    <3>8. Owed(q)' + Len(inflight'[q]) + Unread(q)' + Unpublished(q)' + done'[q] <= frames'
      <4>1. Owed(q) + Len(inflight[q]) + Unread(q) + Unpublished(q) + done[q] <= frames
        BY <3>1 DEF CountAt
      <4>2. /\ Owed(q) \in Int /\ Owed(q)' \in Int /\ Owed(q)' <= Owed(q) + 1
            /\ Unread(q) \in Int /\ Unpublished(q) \in Int
        BY <3>2, <3>4
      <4>3. Owed(q)' + Len(inflight[q]) + Unread(q) + Unpublished(q) + done'[q] <= frames + 1
        <5> DEFINE a == Owed(q)  b == Owed(q)'  l == Len(inflight[q])
                   u == Unread(q)  v == Unpublished(q)  d == done[q]  e == done'[q]
        <5>1. /\ a \in Int /\ b \in Int /\ l \in Int /\ u \in Int /\ v \in Int
              /\ d \in Int /\ e \in Int /\ frames \in Int
              /\ b <= a + 1 /\ e <= d /\ a + l + u + v + d <= frames
          BY <3>1, <3>7, <4>1, <4>2
        <5> HIDE DEF a, b, l, u, v, d, e
        <5>2. b + l + u + v + e <= frames + 1
          BY <5>1
        <5> QED
          BY <5>2 DEF b, l, u, v, e
      <4> QED
        BY <3>2, <3>3, <3>6, <4>3
    <3> QED
      BY <3>5, <3>8 DEF CountAt
  <2> QED
    BY <2>2, <2>3, <2>4, <2>5
<1>14. ASSUME NEW r \in Regs, WriteMgmt(r) PROVE IInv'
  <2>1. UNCHANGED <<clock, inflight, egress, macSpeed, clkSpeed, ppc, rx, todo, cur,
                    local, tsList, pkt, frame, frames, done, tainted, missed, egressTs,
                    hpc, lastSpeed, changes, uploads, hwConf, localCb, switchConfd,
                    pollEnable, tsCb, sawDown, unseen>>
    BY <1>14 DEF WriteMgmt, MgmtTransfer, hwClock, hwSpeed, poller, clkval, stamps, phy,
       seen
  <2>2. ClockTypes' /\ SpeedTypes' /\ PollTypes' /\ ListTypes' /\ MarkTypes' /\
       EgressTsTypes' /\ BoolTypes' /\ StampInv' /\ TimestampExact' /\ ListInv' /\
       ClkvalFresh'
    BY <2>1, Frame
  <2>3. ClientTypes'
    BY <1>14, <2>1 DEF WriteMgmt, MgmtTransfer, ClientTypes
  <2>4. PhyTypes'
    BY <1>14, <2>1 DEF WriteMgmt, MgmtTransfer, Works, Fails, PhyTypes
  <2>5. CountInv'
    <3> SUFFICES ASSUME NEW q \in Regs PROVE CountAt(q)'
      BY DEF CountInv
    <3>1. CountAt(q) /\ Len(inflight[q]) \in Nat /\ done[q] \in Nat /\ frames \in Nat
      BY CountTypes DEF CountInv
    <3>2. /\ Unread(q) \in 0..1 /\ Unread(q)' = Unread(q)
          /\ Unpublished(q) \in 0..1 /\ Unpublished(q)' = Unpublished(q)
      BY <2>1 DEF Unread, Unpublished
    <3>3. /\ cpc'[q] = cpc[q] \/ cpc'[q] = "idle" \/ (cpc[q] = "write" /\ cpc'[q] = "check")
      BY <1>14 DEF WriteMgmt, MgmtTransfer, ClientTypes
    <3>4. Owed(q) \in 0..1 /\ Owed(q)' \in 0..1 /\ Owed(q)' <= Owed(q)
      BY <3>3 DEF Owed
    <3>5. cpc'[q] # "idle" => frame'[q] # 0
      BY <2>1, <3>1, <3>3 DEF CountAt
    <3>6. Owed(q)' + Len(inflight'[q]) + Unread(q)' + Unpublished(q)' + done'[q] <= frames'
      BY <2>1, <3>1, <3>2, <3>4 DEF CountAt
    <3> QED
      BY <3>5, <3>6 DEF CountAt
  <2> QED
    BY <2>2, <2>3, <2>4, <2>5
<1>15. ASSUME NEW r \in Regs, WaitMgmtValid(r) PROVE IInv'
  <2>1. UNCHANGED <<clock, inflight, egress, macSpeed, clkSpeed, ppc, rx, todo, cur,
                    local, tsList, pkt, frame, frames, done, tainted, missed, egressTs,
                    hpc, lastSpeed, changes, uploads, hwConf, localCb, switchConfd,
                    pollEnable, tsCb, sawDown, unseen>>
    BY <1>15 DEF WaitMgmtValid, MgmtTransfer, hwClock, hwSpeed, poller, clkval, stamps,
       phy, seen
  <2>2. ClockTypes' /\ SpeedTypes' /\ PollTypes' /\ ListTypes' /\ MarkTypes' /\
       EgressTsTypes' /\ BoolTypes' /\ StampInv' /\ TimestampExact' /\ ListInv' /\
       ClkvalFresh'
    BY <2>1, Frame
  <2>3. ClientTypes'
    BY <1>15, <2>1 DEF WaitMgmtValid, MgmtTransfer, ClientTypes
  <2>4. PhyTypes'
    BY <1>15, <2>1 DEF WaitMgmtValid, MgmtTransfer, Works, Fails, PhyTypes
  <2>5. CountInv'
    <3> SUFFICES ASSUME NEW q \in Regs PROVE CountAt(q)'
      BY DEF CountInv
    <3>1. CountAt(q) /\ Len(inflight[q]) \in Nat /\ done[q] \in Nat /\ frames \in Nat
      BY CountTypes DEF CountInv
    <3>2. /\ Unread(q) \in 0..1 /\ Unread(q)' = Unread(q)
          /\ Unpublished(q) \in 0..1 /\ Unpublished(q)' = Unpublished(q)
      BY <2>1 DEF Unread, Unpublished
    <3>3. /\ cpc'[q] = cpc[q] \/ cpc'[q] = "idle" \/ (cpc[q] = "check" /\ cpc'[q] = "send")
      BY <1>15 DEF WaitMgmtValid, MgmtTransfer, ClientTypes
    <3>4. Owed(q) \in 0..1 /\ Owed(q)' \in 0..1 /\ Owed(q)' <= Owed(q)
      BY <3>3 DEF Owed
    <3>5. cpc'[q] # "idle" => frame'[q] # 0
      BY <2>1, <3>1, <3>3 DEF CountAt
    <3>6. Owed(q)' + Len(inflight'[q]) + Unread(q)' + Unpublished(q)' + done'[q] <= frames'
      BY <2>1, <3>1, <3>2, <3>4 DEF CountAt
    <3> QED
      BY <3>5, <3>6 DEF CountAt
  <2> QED
    BY <2>2, <2>3, <2>4, <2>5
<1>16. ASSUME NEW r \in Regs, SendFrame(r) PROVE IInv'
  <2>1. UNCHANGED <<clock, egress, macSpeed, clkSpeed, ppc, rx, todo, cur, local,
                    tsList, pkt, frame, frames, done, tainted, missed, egressTs, hpc,
                    lastSpeed, changes, uploads, errors, hwConf, localCb, switchConfd,
                    pollEnable, tsCb, sawDown, unseen>>
    BY <1>16 DEF SendFrame, hwSpeed, poller, clkval, stamps, phy, seen
  <2>2. SpeedTypes' /\ PollTypes' /\ ListTypes' /\ MarkTypes' /\ EgressTsTypes' /\
       PhyTypes' /\ BoolTypes' /\ StampInv' /\ TimestampExact' /\ ListInv' /\
       ClkvalFresh'
    BY <2>1, Frame
  <2>3. ClockTypes'
    <3>1. frame[r] \in 1..MaxFrames
      BY <1>16 DEF SendFrame, CountInv, CountAt, ClientTypes
    <3>2. Append(inflight[r], frame[r]) \in Seq(1..MaxFrames)
      BY <3>1 DEF ClockTypes
    <3> QED
      BY <1>16, <2>1, <3>2 DEF SendFrame, ClockTypes
  <2>4. ClientTypes'
    BY <1>16, <2>1 DEF SendFrame, ClientTypes
  <2>5. CountInv'
    <3> SUFFICES ASSUME NEW q \in Regs PROVE CountAt(q)'
      BY DEF CountInv
    <3>1. CountAt(q) /\ Len(inflight[q]) \in Nat /\ done[q] \in Nat /\ frames \in Nat
      BY CountTypes DEF CountInv
    <3>2. Len(inflight'[q]) = IF q = r THEN Len(inflight[q]) + 1 ELSE Len(inflight[q])
      <4>1. /\ inflight'[q] = IF q = r THEN Append(inflight[q], frame[q]) ELSE inflight[q]
            /\ inflight[q] \in Seq(1..MaxFrames)
        BY <1>16 DEF SendFrame, ClockTypes
      <4> QED
        BY <4>1
    <3>3. /\ Unread(q) \in 0..1 /\ Unread(q)' = Unread(q)
          /\ Unpublished(q) \in 0..1 /\ Unpublished(q)' = Unpublished(q)
      BY <2>1 DEF Unread, Unpublished
    <3>4. CASE q = r
      BY <1>16, <2>1, <3>1, <3>2, <3>3, <3>4 DEF SendFrame, CountAt, Owed, ClientTypes
    <3>5. CASE q # r
      BY <1>16, <2>1, <3>1, <3>2, <3>3, <3>5 DEF SendFrame, CountAt, Owed, ClientTypes
    <3> QED
      BY <3>4, <3>5
  <2> QED
    BY <2>2, <2>3, <2>4, <2>5
<1>17. ASSUME NEW r \in Regs, WaitDone(r) PROVE IInv'
  <2>1. UNCHANGED <<clock, inflight, egress, macSpeed, clkSpeed, ppc, rx, todo, cur,
                    local, tsList, pkt, frame, frames, tainted, missed, egressTs, hpc,
                    lastSpeed, changes, uploads, errors, hwConf, localCb, switchConfd,
                    pollEnable, tsCb, sawDown, unseen>>
    BY <1>17 DEF WaitDone, hwClock, hwSpeed, poller, clkval, phy, seen
  <2>2. ClockTypes' /\ SpeedTypes' /\ PollTypes' /\ ListTypes' /\ MarkTypes' /\
       EgressTsTypes' /\ PhyTypes' /\ BoolTypes' /\ StampInv' /\ TimestampExact' /\
       ListInv' /\ ClkvalFresh'
    BY <2>1, Frame
  <2>3. ClientTypes'
    BY <1>17, <2>1 DEF WaitDone, ClientTypes
  <2>4. CountInv'
    <3> SUFFICES ASSUME NEW q \in Regs PROVE CountAt(q)'
      BY DEF CountInv
    <3>1. CountAt(q) /\ Len(inflight[q]) \in Nat /\ done[q] \in Nat /\ frames \in Nat
      BY CountTypes DEF CountInv
    <3>2. /\ Unread(q) \in 0..1 /\ Unread(q)' = Unread(q)
          /\ Unpublished(q) \in 0..1 /\ Unpublished(q)' = Unpublished(q)
      BY <2>1 DEF Unread, Unpublished
    <3>3. CASE q = r
      BY <1>17, <2>1, <3>1, <3>2, <3>3 DEF WaitDone, CountAt, Owed, ClientTypes
    <3>4. CASE q # r
      BY <1>17, <2>1, <3>1, <3>2, <3>4 DEF WaitDone, CountAt, Owed, ClientTypes
    <3> QED
      BY <3>3, <3>4
  <2> QED
    BY <2>2, <2>3, <2>4
<1>18. ASSUME NEW r \in Regs, WaitStart(r) \/ WaitGivesUp(r) PROVE IInv'
  <2>1. UNCHANGED <<clock, inflight, egress, macSpeed, clkSpeed, ppc, rx, todo, cur,
                    local, tsList, pkt, frame, frames, done, tainted, missed, egressTs,
                    hpc, lastSpeed, changes, uploads, errors, hwConf, localCb,
                    switchConfd, pollEnable, tsCb, sawDown, unseen>>
    BY <1>18 DEF WaitStart, WaitGivesUp, hwClock, hwSpeed, poller, clkval, stamps, phy, seen
  <2>2. ClockTypes' /\ SpeedTypes' /\ PollTypes' /\ ListTypes' /\ MarkTypes' /\
       EgressTsTypes' /\ PhyTypes' /\ BoolTypes' /\ StampInv' /\ TimestampExact' /\
       ListInv' /\ ClkvalFresh'
    BY <2>1, Frame
  <2>3. ClientTypes'
    BY <1>18, <2>1 DEF WaitStart, WaitGivesUp, ClientTypes
  <2>4. CountInv'
    BY <1>18, <2>1 DEF WaitStart, WaitGivesUp, CountInv, CountAt, Owed, Unread, Unpublished,
       ClientTypes
  <2> QED
    BY <2>2, <2>3, <2>4
<1>19. ASSUME NEW p \in PhyPorts, PhyUpdate(p) PROVE IInv'
  <2>1. UNCHANGED <<clock, inflight, egress, macSpeed, clkSpeed, ppc, rx, todo, cur,
                    local, tsList, pkt, cpc, frame, frames, done, tainted, missed,
                    egressTs, uploads, errors, hwConf, localCb, switchConfd, pollEnable,
                    tsCb, sawDown, unseen>>
    BY <1>19 DEF PhyUpdate, hwClock, hwSpeed, poller, clkval, client, stamps, seen
  <2>2. ClockTypes' /\ SpeedTypes' /\ PollTypes' /\ ListTypes' /\ ClientTypes' /\
       MarkTypes' /\ EgressTsTypes' /\ BoolTypes' /\ StampInv' /\ TimestampExact' /\
       CountInv' /\ ListInv' /\ ClkvalFresh'
    BY <2>1, Frame
  <2>3. PhyTypes'
    BY <1>19, <2>1 DEF PhyUpdate, PhyTypes
  <2> QED
    BY <2>2, <2>3
<1>20. ASSUME NEW p \in PhyPorts, PhyCheck(p) PROVE IInv'
  <2>1. UNCHANGED <<clock, inflight, egress, macSpeed, clkSpeed, ppc, rx, todo, cur,
                    local, tsList, pkt, cpc, frame, frames, done, tainted, egressTs,
                    lastSpeed, changes, uploads, errors, hwConf, localCb, switchConfd,
                    pollEnable, tsCb, sawDown, unseen>>
    BY <1>20 DEF PhyCheck, hwClock, hwSpeed, poller, clkval, client, stamps
  <2>2. ClockTypes' /\ SpeedTypes' /\ PollTypes' /\ ListTypes' /\ ClientTypes' /\
       EgressTsTypes' /\ BoolTypes' /\ StampInv' /\ TimestampExact' /\ CountInv' /\
       ListInv' /\ ClkvalFresh'
    BY <2>1, Frame
  <2>3. MarkTypes'
    BY <1>20, <2>1 DEF PhyCheck, MarkTypes
  <2>4. PhyTypes'
    BY <1>20, <2>1 DEF PhyCheck, PhyTypes
  <2> QED
    BY <2>2, <2>3, <2>4
<1>21. ASSUME NEW p \in PhyPorts, PhyWrite(p) PROVE IInv'
  <2>1. UNCHANGED <<clock, inflight, egress, ppc, rx, todo, cur, local, tsList, pkt,
                    cpc, frame, frames, done, tainted, egressTs, lastSpeed, changes,
                    uploads, hwConf, localCb, switchConfd, pollEnable, tsCb, sawDown,
                    unseen>>
    BY <1>21 DEF PhyWrite, hwClock, poller, clkval, client, stamps
  <2>2. ClockTypes' /\ PollTypes' /\ ListTypes' /\ ClientTypes' /\ EgressTsTypes' /\
       BoolTypes' /\ StampInv' /\ TimestampExact' /\ CountInv' /\ ListInv' /\
       ClkvalFresh'
    BY <2>1, Frame
  <2>3. SpeedTypes'
    BY <1>21, <2>1 DEF PhyWrite, SpeedTypes, PhyTypes
  <2>4. MarkTypes'
    BY <1>21, <2>1 DEF PhyWrite, MarkTypes
  <2>5. PhyTypes'
    BY <1>21, <2>1 DEF PhyWrite, Works, Fails, PhyTypes
  <2> QED
    BY <2>2, <2>3, <2>4, <2>5
<1>22. CASE SetPoll
  <2>1. UNCHANGED <<clock, inflight, egress, macSpeed, clkSpeed, ppc, rx, todo, cur,
                    local, tsList, pkt, cpc, frame, frames, done, tainted, missed,
                    egressTs, hpc, lastSpeed, changes, uploads, errors, hwConf, localCb,
                    switchConfd, tsCb, sawDown, unseen>>
    BY <1>22 DEF SetPoll, hwClock, hwSpeed, poller, clkval, client, stamps, phy, seen
  <2>2. ClockTypes' /\ SpeedTypes' /\ PollTypes' /\ ListTypes' /\ ClientTypes' /\
       MarkTypes' /\ EgressTsTypes' /\ PhyTypes' /\ StampInv' /\ TimestampExact' /\
       CountInv' /\ ListInv' /\ ClkvalFresh'
    BY <2>1, Frame
  <2>3. BoolTypes'
    BY <1>22, <2>1, Zenon DEF SetPoll, BoolTypes
  <2> QED
    BY <2>2, <2>3
<1>23. CASE UploadConfig
  <2>1. UNCHANGED <<clock, inflight, egress, ppc, rx, todo, cur, local, tsList, pkt,
                    cpc, frame, frames, done, tainted, missed, egressTs, hpc, lastSpeed,
                    changes, errors, localCb, switchConfd, pollEnable, tsCb, sawDown>>
    BY <1>23 DEF UploadConfig, hwClock, poller, clkval, client, stamps, phy
  <2>2. ClockTypes' /\ PollTypes' /\ ListTypes' /\ ClientTypes' /\ MarkTypes' /\
       EgressTsTypes' /\ StampInv' /\ TimestampExact' /\ CountInv' /\ ListInv' /\
       ClkvalFresh'
    BY <2>1, Frame
  <2>3. SpeedTypes'
    BY <1>23, <2>1 DEF UploadConfig, SpeedTypes
  <2>4. PhyTypes'
    BY <1>23, <2>1 DEF UploadConfig, PhyTypes
  <2>5. BoolTypes'
    BY <1>23, <2>1, Zenon DEF UploadConfig, BoolTypes
  <2> QED
    BY <2>2, <2>3, <2>4, <2>5
<1>24. CASE ResetSwitch
  <2>1. UNCHANGED <<clock, inflight, egress, ppc, rx, todo, cur, local, tsList, pkt,
                    cpc, frame, frames, done, tainted, missed, egressTs, hpc, lastSpeed,
                    changes, uploads, errors, localCb, switchConfd, pollEnable, tsCb,
                    sawDown, unseen>>
    BY <1>24 DEF ResetSwitch, hwClock, poller, clkval, client, stamps, phy, seen
  <2>2. ClockTypes' /\ PollTypes' /\ ListTypes' /\ ClientTypes' /\ MarkTypes' /\
       EgressTsTypes' /\ PhyTypes' /\ StampInv' /\ TimestampExact' /\ CountInv' /\
       ListInv' /\ ClkvalFresh'
    BY <2>1, Frame
  <2>3. SpeedTypes'
    BY <1>24, <2>1 DEF ResetSwitch, SpeedTypes
  <2>4. BoolTypes'
    BY <1>24, <2>1, Zenon DEF ResetSwitch, BoolTypes
  <2> QED
    BY <2>2, <2>3, <2>4
<1>25. CASE Tick
  <2>1. UNCHANGED <<inflight, egress, macSpeed, clkSpeed, ppc, rx, todo, cur, local,
                    tsList, pkt, cpc, frame, frames, done, tainted, missed, egressTs,
                    hpc, lastSpeed, changes, uploads, errors, hwConf, localCb,
                    switchConfd, pollEnable, tsCb, sawDown, unseen>>
    BY <1>25 DEF Tick, hwSpeed, poller, clkval, client, stamps, phy, seen
  <2>2. SpeedTypes' /\ PollTypes' /\ ListTypes' /\ ClientTypes' /\ MarkTypes' /\
       EgressTsTypes' /\ PhyTypes' /\ BoolTypes' /\ TimestampExact' /\ CountInv' /\
       ClkvalFresh'
    BY <2>1, Frame
  <2>3. ClockTypes'
    BY <1>25, <2>1 DEF Tick, ClockTypes
  <2>4. StampInv'
    <3>1. ASSUME NEW s \in Unpaired, Valid(s) PROVE clock' < s.at + Wrap
      BY <1>25, <3>1 DEF Tick, PolledInTime
    <3>2. ASSUME NEW q \in Regs
          PROVE  egress[q] \in Unpaired /\ (ppc = "clock" => rx.ts[q] \in Unpaired)
      BY DEF Unpaired
    <3>3. ASSUME NEW q \in Regs PROVE egress[q].at \in Nat /\ rx.ts[q].at \in Nat
      BY DEF ClockTypes, PollTypes, Stamps
    <3>4. clock \in Nat /\ clock' = clock + 1
      BY <1>25 DEF Tick, ClockTypes
    <3>5. \A q \in Regs : Valid(egress[q])' = Valid(egress[q]) /\ Valid(rx.ts[q])' = Valid(rx.ts[q])
      BY <2>1
    <3> QED
      BY <2>1, <3>1, <3>2, <3>3, <3>4, <3>5 DEF StampInv
  <2>5. ListInv'
    BY <1>25, <2>1 DEF Tick, ListInv, ListTypes, PacketStates, ClockTypes
  <2> QED
    BY <2>2, <2>3, <2>4, <2>5
<1>26. ASSUME NEW r \in Regs, Egress(r) PROVE IInv'
  <2>1. UNCHANGED <<clock, macSpeed, clkSpeed, ppc, rx, todo, cur, local, tsList, pkt,
                    cpc, frame, frames, done, tainted, missed, egressTs, hpc, lastSpeed,
                    changes, uploads, errors, hwConf, localCb, switchConfd, pollEnable,
                    tsCb, sawDown, unseen>>
    BY <1>26 DEF Egress, hwSpeed, poller, clkval, client, stamps, phy, seen
  <2>2. SpeedTypes' /\ PollTypes' /\ ListTypes' /\ ClientTypes' /\ MarkTypes' /\
       EgressTsTypes' /\ PhyTypes' /\ BoolTypes' /\ TimestampExact' /\ ListInv' /\
       ClkvalFresh'
    BY <2>1, Frame
  <2>3. ClockTypes'
    BY <1>26, <2>1 DEF Egress, ClockTypes, Stamps
  <2>4. StampInv'
    BY <1>26, <2>1 DEF Egress, StampInv, ClockTypes
  <2>5. CountInv'
    <3> SUFFICES ASSUME NEW q \in Regs PROVE CountAt(q)'
      BY DEF CountInv
    <3>1. CountAt(q) /\ Len(inflight[q]) \in Nat /\ done[q] \in Nat /\ frames \in Nat
      BY CountTypes DEF CountInv
    <3>2. CASE q = r
      <4>1. inflight'[q] = Tail(inflight[q]) /\ inflight[q] # <<>>
        BY <1>26, <3>2 DEF Egress, ClockTypes
      <4>2. Len(inflight'[q]) = Len(inflight[q]) - 1
        BY <4>1, HeadTailProperties
      <4>3. Unread(q)' \in 0..1 /\ Unread(q) \in 0..1 /\ Unpublished(q) \in 0..1 /\ Owed(q) \in 0..1
        BY DEF Unread, Unpublished, Owed
      <4>4. Unpublished(q)' = Unpublished(q) /\ Owed(q)' = Owed(q)
        BY <2>1 DEF Unpublished, Owed
      <4> QED
        BY <2>1, <3>1, <4>2, <4>3, <4>4 DEF CountAt
    <3>3. CASE q # r
      BY <1>26, <2>1, <3>1, <3>3 DEF Egress, CountAt, Owed, Unread, Unpublished,
         ClockTypes
    <3> QED
      BY <3>2, <3>3
  <2> QED
    BY <2>2, <2>3, <2>4, <2>5
<1>27. CASE UNCHANGED vars
  BY <1>27, Frame DEF vars, hwClock, hwSpeed, poller, clkval, client, stamps, phy, seen
<1> QED
  BY <1>1, <1>2, <1>3, <1>4, <1>5, <1>6, <1>7, <1>8, <1>9, <1>10, <1>11, <1>12, <1>13,
     <1>14, <1>15, <1>16, <1>17, <1>18, <1>19, <1>20, <1>21, <1>22, <1>23, <1>24, <1>25,
     <1>26, <1>27 DEF Next, PollStep, CallerStep, ClientStep, PhyStep, UserStep,
     SwitchStep

THEOREM Invariant == Spec => []IInv
  BY InitIInv, NextIInv, PTL DEF Spec

\* Every variable keeps its type.
THEOREM TypeCorrect == Spec => []TypeOK
<1>1. IInv => TypeOK
  BY DEF IInv, TypeOK, ClockTypes, SpeedTypes, PollTypes, ListTypes, PacketStates,
     ClientTypes, MarkTypes, EgressTsTypes, PhyTypes, BoolTypes
<1> QED
  BY <1>1, Invariant, PTL

\* A published egress timestamp is the time its frame left at, in ns.
THEOREM ExactTimestamps == Spec => []TimestampExact
<1>1. IInv => TimestampExact
  BY DEF IInv
<1> QED
  BY <1>1, Invariant, PTL

\* A packet is answered with a clock value read after it asked.
THEOREM FreshClkval == Spec => []ClkvalFresh
<1>1. IInv => ClkvalFresh
  BY DEF IInv
<1> QED
  BY <1>1, Invariant, PTL

\* A packet that was answered or cancelled gets no (other) clock value.
THEOREM NotAnsweredTwice == Spec => AnsweredOnce
<1>1. ASSUME IInv, [Next]_vars, NEW k \in Packets,
             pkt[k].state \in {"answered", "cancelled"}
      PROVE  pkt'[k] = pkt[k]
  <2>1. /\ ~Contains(local, k) /\ ~Contains(tsList, k)
        /\ pkt[k].state # "new"
    BY <1>1 DEF IInv, ListInv
  <2>2. CASE PollCallback
    BY <2>1, <2>2 DEF PollCallback
  <2>3. CASE CancelClkval
    BY <2>1, <2>3 DEF CancelClkval
  <2>4. ASSUME NEW j \in Packets, NextClkval(j) PROVE pkt'[k] = pkt[k]
    BY <1>1, <2>1, <2>4 DEF NextClkval
  <2>5. CASE UNCHANGED pkt
    BY <2>5
  <2>6. PollCallback \/ CancelClkval \/ (\E j \in Packets : NextClkval(j)) \/ UNCHANGED pkt
    <3> USE DEF vars, clkval
    <3>1. CASE UNCHANGED vars
      BY <3>1
    <3>2. CASE PollStep
      BY <3>2 DEF PollStep, PollStart, PollReadStamps, PollReadClock, PollFails,
         PollPickPort, PollWriteSpeed, PollConfd, PollComplete, PollDisabled
    <3>3. CASE CallerStep
      BY <3>3 DEF CallerStep
    <3>4. CASE ClientStep
      BY <3>4 DEF ClientStep, Prepare, WriteMgmt, WaitMgmtValid, MgmtTransfer,
         SendFrame, WaitStart, WaitDone, WaitGivesUp
    <3>5. CASE PhyStep \/ UserStep \/ SwitchStep
      BY <3>5 DEF PhyStep, PhyUpdate, PhyCheck, PhyWrite, UserStep, SetPoll,
         UploadConfig, ResetSwitch, SwitchStep, Tick, Egress
    <3> QED
      BY <1>1, <3>1, <3>2, <3>3, <3>4, <3>5 DEF Next
  <2> QED
    BY <2>2, <2>3, <2>4, <2>5, <2>6
<1>2. IInv /\ [Next]_vars =>
        [\A k \in Packets :
           (pkt[k].state \in {"answered", "cancelled"}) => (pkt'[k] = pkt[k])]_vars
  BY <1>1
<1> QED
  BY <1>2, Invariant, PTL DEF Spec, AnsweredOnce

-----------------------------------------------------------------------------
(***************************************************************************)
(* The speeds of the ports.  ConfiguredSpeed speaks of a switch that counts *)
(* as configured; SpeedInv also says what the poll thread has done and has *)
(* yet to do while it writes the speeds, with the handlers at work beside  *)
(* it, and why a configuration that is not unseen is not missed.           *)
(***************************************************************************)

\* No handler owes the port a write, and it is set up for the speed of its link.
Served(p) == (hpc[p] = "idle" /\ ~missed[p] /\ lastSpeed[p] # 0) => SpeedSet(p)

\* What the switch_confd flag owes to the last poll, or round without one.
ConfdInv ==
  /\ sawDown => ~switchConfd
  /\ ppc = "conf" => hwConf /\ ~switchConfd /\ ~sawDown

\* A configured switch has every port served; while the poll thread writes, the
\* ports it is past are.
ServedInv ==
  /\ switchConfd /\ hwConf /\ ~unseen => \A p \in PhyPorts : Served(p)
  /\ ppc = "conf" =>
       \A p \in PhyPorts \ todo : (\A w \in cur : w.port # p) => Served(p)

\* The one write the poll thread has under way carries the speed of its link,
\* unless the link has changed since and its handler has yet to see to it.
CurInv ==
  /\ \A v, w \in cur : v = w
  /\ \A w \in cur :
       /\ ppc = "conf" /\ w.port \notin todo
       /\ hpc[w.port] = "idle" /\ ~missed[w.port] => w.speed = lastSpeed[w.port]

SpeedInv == ConfdInv /\ ServedInv /\ CurInv

\* A step that touches none of it.
SpeedQuiet ==
  /\ UNCHANGED <<hwConf, macSpeed, clkSpeed, todo, cur, switchConfd, hpc, lastSpeed,
                 missed, sawDown, unseen>>
  /\ ppc' = "conf" <=> ppc = "conf"

\* The steps that touch it.
SpeedStep ==
  \/ PollReadClock \/ (\E p \in PhyPorts : PollPickPort(p)) \/ PollWriteSpeed
  \/ PollConfd \/ PollDisabled \/ PhyStep \/ UploadConfig \/ ResetSwitch

LEMMA NextSpeed == [Next]_vars => SpeedStep \/ SpeedQuiet
<1> SUFFICES ASSUME [Next]_vars, ~SpeedStep PROVE SpeedQuiet
  OBVIOUS
<1> USE DEF SpeedQuiet, hwSpeed, poller, phy, seen
<1>1. CASE UNCHANGED vars
  BY <1>1 DEF vars
<1>2. CASE PollStart \/ PollReadStamps \/ PollFails
  BY <1>2 DEF PollStart, PollReadStamps, PollFails
<1>3. CASE PollComplete \/ PollCallback
  BY <1>3 DEF PollComplete, PollCallback
<1>4. CASE CallerStep
  BY <1>4 DEF CallerStep, NextClkval, CancelClkval
<1>5. ASSUME NEW r \in Regs, Prepare(r) \/ WriteMgmt(r) \/ WaitMgmtValid(r) PROVE SpeedQuiet
  BY <1>5 DEF Prepare, WriteMgmt, WaitMgmtValid, MgmtTransfer
<1>6. ASSUME NEW r \in Regs, SendFrame(r) \/ WaitStart(r) \/ WaitDone(r) \/ WaitGivesUp(r)
      PROVE  SpeedQuiet
  BY <1>6 DEF SendFrame, WaitStart, WaitDone, WaitGivesUp
<1>7. CASE SetPoll
  BY <1>7 DEF SetPoll
<1>8. CASE SwitchStep
  BY <1>8 DEF SwitchStep, Tick, Egress
<1> QED
  BY <1>1, <1>2, <1>3, <1>4, <1>5, <1>6, <1>7, <1>8
     DEF SpeedStep, Next, PollStep, ClientStep, UserStep

\* SpeedInv holds through every step.
LEMMA NextSpeedInv == IInv /\ SpeedInv /\ [Next]_vars => SpeedInv'
<1> SUFFICES ASSUME IInv, SpeedInv, [Next]_vars PROVE SpeedInv'
  OBVIOUS
<1> USE Bounds DEF SpeedInv
<1>0. /\ hpc \in [PhyPorts -> {"idle", "check", "write"}]
      /\ lastSpeed \in [PhyPorts -> Speeds \cup {0}]
      /\ missed \in [PhyPorts -> BOOLEAN] /\ todo \subseteq PhyPorts
      /\ macSpeed \in [Ports -> Speeds \cup {0}] /\ clkSpeed \in [Ports -> Speeds \cup {0}]
      /\ \A w \in cur : w.port \in PhyPorts
  BY DEF IInv, PhyTypes, MarkTypes, PollTypes, SpeedTypes
<1>1. CASE PollReadClock
  <2>1. /\ ppc = "clock" /\ sawDown' = ~hwConf
        /\ UNCHANGED <<hwConf, macSpeed, clkSpeed, cur, hpc, lastSpeed, unseen>>
    BY <1>1 DEF PollReadClock, hwSpeed, phy
  <2>2. cur = {}
    BY <2>1 DEF CurInv
  <2>3. CASE hwConf /\ ~switchConfd
    <3>1. ppc' = "conf" /\ todo' = PhyPorts /\ switchConfd' = switchConfd
      BY <1>1, <2>3 DEF PollReadClock
    <3> QED
      BY <2>1, <2>2, <2>3, <3>1 DEF ConfdInv, ServedInv, CurInv
  <2>4. CASE ~(hwConf /\ ~switchConfd)
    <3>1. ppc' = "stamp" /\ switchConfd' = hwConf /\ UNCHANGED <<todo, missed>>
      BY <1>1, <2>4 DEF PollReadClock
    <3>2. ConfdInv' /\ CurInv'
      BY <2>1, <2>2, <3>1 DEF ConfdInv, CurInv
    <3>3. ServedInv'
      BY <2>1, <2>4, <3>1 DEF ServedInv, Served, SpeedSet
    <3> QED
      BY <3>2, <3>3
  <2> QED
    BY <2>3, <2>4
<1>2. ASSUME NEW p \in PhyPorts, PollPickPort(p) PROVE SpeedInv'
  <2>1. /\ ppc = "conf" /\ cur = {} /\ p \in todo /\ todo' = todo \ {p}
        /\ cur' = {[port |-> p, speed |-> v] : v \in {lastSpeed[p]} \ {0}}
        /\ UNCHANGED <<hwConf, macSpeed, clkSpeed, ppc, switchConfd, hpc, lastSpeed,
                       missed, sawDown, unseen>>
    BY <1>2 DEF PollPickPort, hwSpeed, phy, seen
  <2>2. \A w \in cur' : w.port = p /\ w.speed = lastSpeed[p] /\ w = [port |-> p, speed |-> lastSpeed[p]]
    BY <2>1
  <2>3. lastSpeed[p] # 0 => [port |-> p, speed |-> lastSpeed[p]] \in cur'
    BY <2>1
  <2>4. ConfdInv' /\ CurInv'
    BY <2>1, <2>2 DEF ConfdInv, CurInv
  <2>5. ServedInv'
    <3> SUFFICES ASSUME NEW q \in PhyPorts \ todo', \A w \in cur' : w.port # q
                 PROVE  Served(q)'
      BY <2>1 DEF ServedInv, ConfdInv
    <3>1. CASE q = p
      BY <2>1, <2>3, <3>1 DEF Served
    <3>2. CASE q # p
      BY <2>1, <3>2 DEF ServedInv, Served, SpeedSet
    <3> QED
      BY <3>1, <3>2
  <2> QED
    BY <2>4, <2>5
<1>3. CASE PollWriteSpeed
  <2>1. PICK w \in cur :
          \/ /\ macSpeed' = [macSpeed EXCEPT ![w.port] = w.speed]
             /\ clkSpeed' = [clkSpeed EXCEPT ![w.port] = lastSpeed[w.port]]
             /\ UNCHANGED missed
          \/ /\ missed' = [missed EXCEPT ![w.port] = TRUE]
             /\ UNCHANGED <<macSpeed, clkSpeed>>
    BY <1>3 DEF PollWriteSpeed
  <2>2. /\ ppc = "conf" /\ cur' = {}
        /\ UNCHANGED <<hwConf, ppc, todo, switchConfd, hpc, lastSpeed, sawDown, unseen>>
    BY <1>3 DEF PollWriteSpeed, phy
  <2>3. ConfdInv' /\ CurInv'
    BY <2>2 DEF ConfdInv, CurInv
  <2>4. ServedInv'
    <3> SUFFICES ASSUME NEW q \in PhyPorts \ todo PROVE Served(q)'
      BY <2>2 DEF ServedInv, ConfdInv
    <3>1. CASE q = w.port
      <4>1. hpc[q] = "idle" /\ ~missed[q] => w.speed = lastSpeed[q]
        BY <3>1 DEF CurInv
      <4> QED
        BY <1>0, <2>1, <2>2, <3>1, <4>1 DEF Served, SpeedSet
    <3>2. CASE q # w.port
      <4>1. Served(q)
        BY <2>2, <3>2 DEF ServedInv, CurInv
      <4>2. UNCHANGED <<macSpeed[q], clkSpeed[q], missed[q], hpc, lastSpeed>>
        BY <1>0, <2>1, <2>2, <3>2
      <4> QED
        BY <4>1, <4>2 DEF Served, SpeedSet
    <3> QED
      BY <3>1, <3>2
  <2> QED
    BY <2>3, <2>4
<1>4. CASE PollConfd
  <2>1. /\ ppc = "conf" /\ cur = {} /\ todo = {} /\ ppc' = "stamp" /\ switchConfd'
        /\ UNCHANGED <<hwConf, macSpeed, clkSpeed, todo, cur, hpc, lastSpeed, missed,
                       sawDown, unseen>>
    BY <1>4 DEF PollConfd, hwSpeed, phy, seen
  <2>2. ConfdInv' /\ CurInv'
    BY <2>1 DEF ConfdInv, CurInv
  <2>3. ServedInv'
    BY <2>1 DEF ServedInv, Served, SpeedSet
  <2> QED
    BY <2>2, <2>3
<1>5. CASE PollDisabled
  <2>1. ppc = "idle" /\ ppc' = ppc /\ ~switchConfd' /\ cur' = cur
    BY <1>5 DEF PollDisabled
  <2> QED
    BY <2>1 DEF ConfdInv, ServedInv, CurInv
<1>6. ASSUME NEW p \in PhyPorts, PhyUpdate(p) PROVE SpeedInv'
  <2>1. /\ hpc' = [hpc EXCEPT ![p] = "check"] /\ \A q \in PhyPorts : q # p => lastSpeed'[q] = lastSpeed[q]
        /\ UNCHANGED <<hwConf, macSpeed, clkSpeed, ppc, todo, cur, switchConfd, missed,
                       sawDown, unseen>>
    BY <1>0, <1>6 DEF PhyUpdate, hwSpeed, poller, seen
  <2>2. ConfdInv'
    BY <2>1 DEF ConfdInv
  <2>3. CurInv'
    BY <1>0, <2>1 DEF CurInv
  <2>4. \A q \in PhyPorts : Served(q) => Served(q)'
    BY <1>0, <2>1 DEF Served, SpeedSet
  <2>5. ServedInv'
    BY <2>1, <2>4 DEF ServedInv
  <2> QED
    BY <2>2, <2>3, <2>5
<1>7. ASSUME NEW p \in PhyPorts, PhyCheck(p) PROVE SpeedInv'
  <2>1. /\ hpc[p] = "check"
        /\ hpc' = [hpc EXCEPT ![p] = IF switchConfd THEN "write" ELSE "idle"]
        /\ missed' = [missed EXCEPT
                        ![p] = @ \/ (~switchConfd /\ ppc = "conf" /\ p \notin todo)]
        /\ UNCHANGED <<hwConf, macSpeed, clkSpeed, ppc, todo, cur, switchConfd,
                       lastSpeed, sawDown, unseen>>
    BY <1>7 DEF PhyCheck, hwSpeed, poller
  <2>2. ConfdInv'
    BY <2>1 DEF ConfdInv
  <2>3. ASSUME ~switchConfd, ppc = "conf", p \notin todo PROVE missed'[p]
    BY <1>0, <2>1, <2>3, Zenon
  <2>4. ASSUME NEW q \in PhyPorts, q # p PROVE UNCHANGED <<hpc[q], missed[q]>>
    BY <1>0, <2>1, <2>4
  <2>5. CurInv'
    BY <1>0, <2>1, <2>3, <2>4 DEF CurInv, ConfdInv
  <2>6. \A q \in PhyPorts : q # p /\ Served(q) => Served(q)'
    BY <2>1, <2>4 DEF Served, SpeedSet
  <2>7. switchConfd \/ (ppc = "conf" /\ p \notin todo) => Served(p)'
    BY <1>0, <2>1, <2>3 DEF Served
  <2>8. ServedInv'
    BY <2>1, <2>6, <2>7 DEF ServedInv
  <2> QED
    BY <2>2, <2>5, <2>8
<1>8. ASSUME NEW p \in PhyPorts, PhyWrite(p) PROVE SpeedInv'
  <2>1. /\ hpc[p] = "write" /\ ppc # "conf" /\ hpc' = [hpc EXCEPT ![p] = "idle"]
        /\ \/ /\ macSpeed' = [macSpeed EXCEPT ![p] = lastSpeed[p]]
              /\ clkSpeed' = [clkSpeed EXCEPT ![p] = lastSpeed[p]]
              /\ missed' = [missed EXCEPT ![p] = FALSE]
           \/ /\ missed' = [missed EXCEPT ![p] = TRUE]
              /\ UNCHANGED <<macSpeed, clkSpeed>>
        /\ UNCHANGED <<hwConf, ppc, todo, cur, switchConfd, lastSpeed, sawDown, unseen>>
    BY <1>8 DEF PhyWrite, BufLockFree, Locked, poller
  <2>2. ConfdInv' /\ CurInv'
    BY <2>1 DEF ConfdInv, CurInv
  <2>3. Served(p)'
    BY <1>0, <2>1 DEF Served, SpeedSet
  <2>4. \A q \in PhyPorts : q # p /\ Served(q) => Served(q)'
    BY <1>0, <2>1 DEF Served, SpeedSet
  <2>5. ServedInv'
    BY <2>1, <2>3, <2>4 DEF ServedInv
  <2> QED
    BY <2>2, <2>5
<1>9. CASE UploadConfig
  <2>1. /\ ppc # "conf" /\ ppc' = ppc /\ cur' = cur /\ unseen' = ~sawDown
        /\ UNCHANGED <<switchConfd, sawDown>>
    BY <1>9 DEF UploadConfig, BufLockFree, Locked, poller
  <2> QED
    BY <2>1 DEF ConfdInv, ServedInv, CurInv
<1>10. CASE ResetSwitch
  <2>1. /\ ppc # "conf" /\ ppc' = ppc /\ cur' = cur /\ ~hwConf'
        /\ UNCHANGED <<switchConfd, sawDown>>
    BY <1>10 DEF ResetSwitch, BufLockFree, Locked, poller, seen
  <2> QED
    BY <2>1 DEF ConfdInv, ServedInv, CurInv
<1>11. CASE SpeedQuiet
  <2>1. \A p \in PhyPorts : Served(p)' <=> Served(p)
    BY <1>11 DEF SpeedQuiet, Served, SpeedSet
  <2> QED
    BY <1>11, <2>1 DEF SpeedQuiet, ConfdInv, ServedInv, CurInv
<1> QED
  BY <1>1, <1>2, <1>3, <1>4, <1>5, <1>6, <1>7, <1>8, <1>9, <1>10, <1>11, NextSpeed
     DEF SpeedStep, PhyStep

\* Whatever the order of link changes, polls, uploads and resets, on any number
\* of ports: a switch that counts as configured runs every port at the speed of
\* its link.
THEOREM PortsAtLinkSpeed == Spec => []ConfiguredSpeed
<1>1. Init => SpeedInv
  BY DEF Init, SpeedInv, ConfdInv, ServedInv, CurInv
<1>2. SpeedInv => ConfiguredSpeed
  BY DEF SpeedInv, ServedInv, Served, ConfiguredSpeed
<1> QED
  BY <1>1, <1>2, Invariant, NextSpeedInv, PTL DEF Spec

-----------------------------------------------------------------------------
(***************************************************************************)
(* Whose timestamp a waiter gets.  OwnAt follows a frame that was prepared  *)
(* when nothing else was under way in its register.                        *)
(***************************************************************************)

\* Up to the send the register is empty and announces nothing; from then on
\* whatever is in it, or published of it, is of the caller's frame.
OwnAt(r) ==
  /\ cpc[r] \in {"write", "check", "send"} => ~Outstanding(r) /\ done[r] = 0
  /\ cpc[r] \in {"sent", "wait"} =>
       /\ \A i \in 1..Len(inflight[r]) : inflight[r][i] = frame[r]
       /\ Valid(egress[r]) => egress[r].frame = frame[r]
       /\ Valid(rx.ts[r]) => rx.ts[r].frame = frame[r]
       /\ done[r] # 0 => egressTs[r].frame = frame[r]

OwnInv == \A r \in Regs : ~tainted[r] => OwnAt(r)

\* A step that touches nothing of register r, and the steps that touch some.
OwnQuiet(r) ==
  UNCHANGED <<inflight[r], egress[r], rx.ts[r], done[r], egressTs[r], cpc[r], frame[r],
              tainted[r]>>

StampStep ==
  PollReadStamps \/ PollComplete \/ ClientStep \/ (\E r \in Regs : Egress(r))

LEMMA OwnKept ==
  ASSUME NEW r \in Regs, ~tainted[r] => OwnAt(r), OwnQuiet(r)
  PROVE  ~tainted'[r] => OwnAt(r)'
  BY DEF OwnAt, OwnQuiet, Outstanding, Valid

LEMMA NextStamp ==
  ASSUME IInv, [Next]_vars, ~StampStep
  PROVE  UNCHANGED <<inflight, egress, rx.ts, client, done, egressTs>>
<1> USE DEF hwClock, stamps
<1>1. CASE UNCHANGED vars
  BY <1>1 DEF vars, poller
<1>2. CASE PollStart \/ PollFails \/ PollConfd \/ PollCallback \/ PollDisabled
  BY <1>2 DEF PollStart, PollFails, PollConfd, PollCallback, PollDisabled
<1>3. CASE PollReadClock
  BY <1>3 DEF PollReadClock, IInv, PollTypes
<1>4. CASE PollWriteSpeed \/ \E p \in PhyPorts : PollPickPort(p)
  BY <1>4 DEF PollWriteSpeed, PollPickPort
<1>5. CASE CallerStep
  <2>1. UNCHANGED <<hwClock, poller, client, stamps>>
    BY <1>5 DEF CallerStep, NextClkval, CancelClkval
  <2> QED
    BY <2>1 DEF poller
<1>6. CASE PhyStep \/ UserStep
  BY <1>6 DEF PhyStep, PhyUpdate, PhyCheck, PhyWrite, UserStep, SetPoll, UploadConfig,
     ResetSwitch, poller
<1>7. CASE Tick
  BY <1>7 DEF Tick, poller
<1> QED
  BY <1>1, <1>2, <1>3, <1>4, <1>5, <1>6, <1>7 DEF StampStep, Next, PollStep, SwitchStep

\* OwnInv holds through every step.
LEMMA NextOwnInv == IInv /\ OwnInv /\ [Next]_vars => OwnInv'
<1> SUFFICES ASSUME IInv, OwnInv, [Next]_vars, NEW r \in Regs
             PROVE  ~tainted'[r] => OwnAt(r)'
  BY DEF OwnInv
<1>0. /\ ~tainted[r] => OwnAt(r)
      /\ cpc \in [Regs -> {"idle", "write", "check", "send", "sent", "wait"}]
      /\ frame \in [Regs -> 0..MaxFrames] /\ tainted \in [Regs -> BOOLEAN]
      /\ done \in [Regs -> 0..MaxFrames]
      /\ inflight \in [Regs -> Seq(1..MaxFrames)] /\ egress \in [Regs -> Stamps]
      /\ rx \in [ts : [Regs -> Stamps], clk : 0..MaxClock]
  BY DEF OwnInv, IInv, ClientTypes, MarkTypes, ClockTypes, PollTypes
<1>1. CASE PollReadStamps
  <2>1. /\ rx'.ts[r] = egress[r] /\ egress'[r] = NoStamp
        /\ UNCHANGED <<inflight, done, egressTs, cpc, frame, tainted>>
    BY <1>0, <1>1 DEF PollReadStamps, client, stamps
  <2>2. ~Valid(egress'[r])
    BY <2>1 DEF Valid, NoStamp
  <2> QED
    BY <1>0, <2>1, <2>2 DEF OwnAt, Outstanding, Valid
<1>2. CASE PollComplete
  <2>1. /\ rx'.ts[r] = NoStamp /\ UNCHANGED <<inflight, egress, cpc, frame, tainted>>
        /\ Valid(rx.ts[r]) => egressTs'[r].frame = rx.ts[r].frame
        /\ ~Valid(rx.ts[r]) => done'[r] = done[r] /\ egressTs'[r] = egressTs[r]
    BY <1>0, <1>2 DEF PollComplete, Complete, hwClock, client
  <2>2. ~Valid(rx'.ts[r])
    BY <2>1 DEF Valid, NoStamp
  <2> QED
    BY <1>0, <2>1, <2>2 DEF OwnAt, Outstanding, Valid
<1>3. ASSUME NEW q \in Regs, Prepare(q) PROVE ~tainted'[r] => OwnAt(r)'
  <2>1. UNCHANGED <<inflight, egress, rx, egressTs>>
    BY <1>3 DEF Prepare, hwClock, poller
  <2>2. CASE q = r
    <3>1. done'[r] = 0 /\ cpc'[r] = "write" /\ (tainted'[r] <=> Outstanding(r))
      BY <1>0, <1>3, <2>2 DEF Prepare
    <3> QED
      BY <2>1, <3>1 DEF OwnAt, Outstanding, Valid
  <2>3. CASE q # r
    <3>1. UNCHANGED <<done[r], cpc[r], frame[r], tainted[r]>>
      BY <1>0, <1>3, <2>3 DEF Prepare
    <3> QED
      BY <1>0, <2>1, <3>1, OwnKept DEF OwnQuiet
  <2> QED
    BY <2>2, <2>3
<1>4. ASSUME NEW q \in Regs, WriteMgmt(q) \/ WaitMgmtValid(q) PROVE ~tainted'[r] => OwnAt(r)'
  <2>1. UNCHANGED <<inflight, egress, rx, done, egressTs, frame, tainted>>
    BY <1>4 DEF WriteMgmt, WaitMgmtValid, MgmtTransfer, hwClock, poller, stamps
  <2>2. \/ cpc'[r] = cpc[r] \/ cpc'[r] = "idle"
        \/ cpc[r] \in {"write", "check"} /\ cpc'[r] \in {"check", "send"}
    BY <1>0, <1>4 DEF WriteMgmt, WaitMgmtValid, MgmtTransfer
  <2> QED
    BY <1>0, <2>1, <2>2 DEF OwnAt, Outstanding, Valid
<1>5. ASSUME NEW q \in Regs, SendFrame(q) PROVE ~tainted'[r] => OwnAt(r)'
  <2>1. UNCHANGED <<egress, rx, done, egressTs, frame, tainted>>
    BY <1>5 DEF SendFrame, poller, stamps
  <2>2. CASE q = r
    <3>1. cpc[r] = "send" /\ cpc'[r] = "sent" /\ inflight'[r] = Append(inflight[r], frame[r])
      BY <1>0, <1>5, <2>2 DEF SendFrame
    <3>2. ASSUME ~tainted[r] PROVE inflight'[r] = <<frame[r]>> /\ done[r] = 0
      <4>1. inflight[r] = <<>> /\ done[r] = 0
        BY <1>0, <3>1, <3>2 DEF OwnAt, Outstanding
      <4> QED
        BY <3>1, <4>1
    <3> QED
      BY <1>0, <2>1, <3>1, <3>2 DEF OwnAt, Outstanding, Valid
  <2>3. CASE q # r
    <3>1. UNCHANGED <<inflight[r], cpc[r]>>
      BY <1>0, <1>5, <2>3 DEF SendFrame
    <3> QED
      BY <1>0, <2>1, <3>1, OwnKept DEF OwnQuiet
  <2> QED
    BY <2>2, <2>3
<1>6. ASSUME NEW q \in Regs, WaitStart(q) \/ WaitDone(q) \/ WaitGivesUp(q)
      PROVE  ~tainted'[r] => OwnAt(r)'
  <2>1. UNCHANGED <<inflight, egress, rx, egressTs, frame, tainted>>
    BY <1>6 DEF WaitStart, WaitDone, WaitGivesUp, hwClock, poller, stamps
  <2>2. \/ cpc'[r] = "idle"
        \/ UNCHANGED <<cpc[r], done[r]>>
        \/ cpc[r] = "sent" /\ cpc'[r] = "wait" /\ done'[r] = done[r]
    BY <1>0, <1>6 DEF WaitStart, WaitDone, WaitGivesUp, stamps
  <2>3. CASE cpc[r] = "sent" /\ cpc'[r] = "wait" /\ done'[r] = done[r]
    BY <1>0, <2>1, <2>3 DEF OwnAt, Valid
  <2> QED
    BY <1>0, <2>1, <2>2, <2>3, OwnKept DEF OwnAt, OwnQuiet
<1>7. ASSUME NEW q \in Regs, Egress(q) PROVE ~tainted'[r] => OwnAt(r)'
  <2>1. UNCHANGED <<rx, done, egressTs, cpc, frame, tainted>>
    BY <1>7 DEF Egress, poller, client, stamps
  <2>2. CASE q = r
    <3>1. /\ inflight[r] # <<>> /\ inflight'[r] = Tail(inflight[r])
          /\ egress'[r] = [frame |-> Head(inflight[r]), at |-> clock]
      BY <1>0, <1>7, <2>2 DEF Egress
    <3>2. ASSUME ~tainted[r], cpc[r] \in {"sent", "wait"}
          PROVE  /\ egress'[r].frame = frame[r]
                 /\ \A i \in 1..Len(inflight'[r]) : inflight'[r][i] = frame[r]
      <4>1. /\ inflight[r] \in Seq(1..MaxFrames)
            /\ \A i \in 1..Len(inflight[r]) : inflight[r][i] = frame[r]
        BY <1>0, <3>2 DEF OwnAt
      <4>2. Head(inflight[r]) = frame[r]
        BY <3>1, <4>1
      <4> QED
        BY <3>1, <4>1, <4>2
    <3> QED
      BY <1>0, <2>1, <3>1, <3>2 DEF OwnAt, Outstanding
  <2>3. CASE q # r
    <3>1. UNCHANGED <<inflight[r], egress[r]>>
      BY <1>0, <1>7, <2>3 DEF Egress
    <3> QED
      BY <1>0, <2>1, <3>1, OwnKept DEF OwnQuiet
  <2> QED
    BY <2>2, <2>3
<1>8. CASE ~StampStep
  BY <1>0, <1>8, NextStamp, OwnKept DEF OwnQuiet, client
<1> QED
  BY <1>1, <1>2, <1>3, <1>4, <1>5, <1>6, <1>7, <1>8 DEF StampStep, ClientStep

LEMMA OwnInductive == Spec => []OwnInv
<1>1. Init => OwnInv
  BY DEF Init, OwnInv, OwnAt
<1> QED
  BY <1>1, Invariant, NextOwnInv, PTL DEF Spec

\* Only a waiter that gets its completion takes one back while it waits.
LEMMA OnlyWaitDone ==
  ASSUME IInv, [Next]_vars, NEW r \in Regs, cpc[r] = "wait", done'[r] < done[r]
  PROVE  WaitDone(r)
<1>0. done \in [Regs -> 0..MaxFrames] /\ done[r] \in Nat
  BY Bounds DEF IInv, ClientTypes
<1>1. ~PollReadStamps
  BY <1>0 DEF PollReadStamps, stamps
<1>2. ~PollComplete
  BY <1>0 DEF PollComplete, Complete
<1>3. ASSUME NEW q \in Regs, Egress(q) PROVE FALSE
  BY <1>0, <1>3 DEF Egress, stamps
<1>4. StampStep
  BY <1>0, NextStamp
<1>5. PICK q \in Regs : \/ Prepare(q) \/ WriteMgmt(q) \/ WaitMgmtValid(q)
                        \/ SendFrame(q) \/ WaitStart(q) \/ WaitDone(q) \/ WaitGivesUp(q)
  BY <1>1, <1>2, <1>3, <1>4 DEF StampStep, ClientStep
<1>6. q = r
  BY <1>0, <1>5 DEF Prepare, WriteMgmt, WaitMgmtValid, MgmtTransfer, SendFrame,
     WaitStart, WaitDone, WaitGivesUp, stamps
<1> QED
  BY <1>0, <1>5, <1>6 DEF Prepare, WriteMgmt, WaitMgmtValid, MgmtTransfer, SendFrame,
     WaitStart, WaitGivesUp, stamps

\* A waiter gets the timestamp of its own frame, whoever waited on its register
\* before, unless an earlier frame was under way when it prepared.
THEOREM OwnTimestamp == Spec => TimestampOwn
<1>1. IInv /\ OwnInv /\ [Next]_vars =>
        [\A r \in Regs :
           (cpc[r] = "wait" /\ done'[r] < done[r] /\ ~tainted[r])
             => (egressTs[r].frame = frame[r])]_vars
  <2> SUFFICES ASSUME IInv, OwnInv, [Next]_vars, NEW r \in Regs,
                      cpc[r] = "wait", done'[r] < done[r], ~tainted[r]
               PROVE  egressTs[r].frame = frame[r]
    OBVIOUS
  <2>1. done[r] # 0
    BY OnlyWaitDone DEF WaitDone
  <2> QED
    BY <2>1 DEF OwnInv, OwnAt
<1> QED
  BY <1>1, Invariant, OwnInductive, PTL DEF Spec, TimestampOwn

-----------------------------------------------------------------------------
(***************************************************************************)
(* What is lost.  A run in which no transfer fails (errors = 0) forgets     *)
(* neither a packet that waits for a clock value nor a frame whose          *)
(* timestamp is waited for; runs in which one fails may forget a packet.   *)
(***************************************************************************)

\* Every waiting packet is on a list that will be served: the list comes with
\* its callback, and the poll thread does not sleep with packets in its hands.
EntryInv ==
  /\ errors = 0 => \A k \in Packets : pkt[k].state = "waiting" =>
                     Contains(tsList, k) \/ Contains(local, k)
  /\ ppc = "idle" => local = <<>>
  /\ tsList # <<>> => tsCb
  /\ local # <<>> => localCb

\* Where the frame of a waiter is: in the register, or in the poll that read
\* it, or published. A stamp the poll has read is published by that poll.
KeptInv ==
  errors = 0 =>
    /\ \A r \in Regs : Valid(rx.ts[r]) => ppc \in {"clock", "conf", "stamp"}
    /\ \A r \in Regs : cpc[r] \in {"sent", "wait"} => Outstanding(r) \/ done[r] # 0

EntryStep ==
  PollStart \/ PollFails \/ PollCallback \/ CallerStep

LEMMA NextEntry ==
  ASSUME IInv, [Next]_vars, ~EntryStep
  PROVE  /\ UNCHANGED <<local, localCb, tsList, tsCb, pkt>>
         /\ ppc' = "idle" => ppc = "idle"
         /\ errors' = 0 => errors = 0
<1> USE Bounds DEF clkval
<1>0. errors \in Nat
  BY DEF IInv, PhyTypes
<1>1. CASE UNCHANGED vars
  BY <1>1 DEF vars, poller
<1>2. CASE PollReadStamps \/ PollReadClock \/ PollConfd \/ PollComplete \/ PollDisabled
  BY <1>2 DEF PollReadStamps, PollReadClock, PollConfd, PollComplete, PollDisabled
<1>3. CASE PollWriteSpeed \/ \E p \in PhyPorts : PollPickPort(p)
  BY <1>0, <1>3 DEF PollWriteSpeed, PollPickPort, Works, Fails
<1>4. ASSUME NEW r \in Regs,
             Prepare(r) \/ SendFrame(r) \/ WaitStart(r) \/ WaitDone(r) \/ WaitGivesUp(r)
      PROVE  UNCHANGED <<poller, clkval, errors>>
  BY <1>4 DEF Prepare, SendFrame, WaitStart, WaitDone, WaitGivesUp
<1>5. ASSUME NEW r \in Regs, WriteMgmt(r) \/ WaitMgmtValid(r)
      PROVE  UNCHANGED <<poller, clkval>> /\ (errors' = 0 => errors = 0)
  BY <1>0, <1>5 DEF WriteMgmt, WaitMgmtValid, MgmtTransfer, Works, Fails
<1>6. CASE PhyStep
  <2>1. PICK p \in PhyPorts : PhyUpdate(p) \/ PhyCheck(p) \/ PhyWrite(p)
    BY <1>6 DEF PhyStep
  <2>2. UNCHANGED <<poller, clkval>> /\ (errors' = 0 => errors = 0)
    BY <1>0, <2>1 DEF PhyUpdate, PhyCheck, PhyWrite, Works, Fails
  <2> QED
    BY <2>2 DEF poller
<1>7. CASE UserStep \/ SwitchStep
  BY <1>7 DEF UserStep, SetPoll, UploadConfig, ResetSwitch, SwitchStep, Tick, Egress,
     poller
<1>8. CASE ClientStep
  BY <1>4, <1>5, <1>8 DEF ClientStep, poller
<1> QED
  BY <1>1, <1>2, <1>3, <1>6, <1>7, <1>8 DEF EntryStep, Next, PollStep

\* EntryInv holds through every step.
LEMMA NextEntryInv == IInv /\ EntryInv /\ [Next]_vars => EntryInv'
<1> SUFFICES ASSUME IInv, EntryInv, [Next]_vars PROVE EntryInv'
  OBVIOUS
<1>0. /\ errors \in Nat /\ MaxErrors \in Nat
      /\ local \in Seq(Packets) /\ tsList \in Seq(Packets)
      /\ pkt \in [Packets -> PacketStates]
  BY Bounds DEF IInv, PhyTypes, ListTypes
<1>1. CASE PollStart
  <2>1. /\ ppc = "idle" /\ ppc' = "read" /\ local' = tsList /\ tsList' = <<>>
        /\ UNCHANGED <<pkt, errors>>
    BY <1>1 DEF PollStart
  <2>2. local = <<>>
    BY <2>1 DEF EntryInv
  <2>3. local' # <<>> => localCb'
    BY <1>1 DEF PollStart, EntryInv
  <2> QED
    BY <2>1, <2>2, <2>3, ContainsEmpty DEF EntryInv
<1>2. CASE PollFails
  <2>1. errors' # 0 /\ local' = <<>> /\ UNCHANGED <<tsList, tsCb>>
    BY <1>0, <1>2 DEF PollFails, Fails, clkval
  <2> QED
    BY <2>1 DEF EntryInv
<1>3. CASE PollCallback
  <2>1. /\ ppc' = "idle" /\ local' = <<>> /\ UNCHANGED <<tsList, tsCb, errors>>
        /\ pkt' = [k \in Packets |-> IF localCb /\ Contains(local, k)
                     THEN [pkt[k] EXCEPT !.state = "answered", !.clk = rx.clk]
                     ELSE pkt[k]]
    BY <1>3 DEF PollCallback
  <2>2. ASSUME NEW k \in Packets, pkt'[k].state = "waiting"
        PROVE  pkt[k].state = "waiting" /\ ~(localCb /\ Contains(local, k))
    <3>1. localCb /\ Contains(local, k) => pkt'[k].state = "answered"
      BY <1>0, <2>1 DEF PacketStates
    <3> QED
      BY <2>1, <2>2, <3>1
  <2>3. \A k \in Packets : Contains(local, k) => localCb
    BY ContainsEmpty, Zenon DEF EntryInv
  <2> QED
    BY <2>1, <2>2, <2>3 DEF EntryInv
<1>4. ASSUME NEW x \in Packets, NextClkval(x) PROVE EntryInv'
  <2>1. /\ tsList' = Append(tsList, x) /\ tsCb' /\ UNCHANGED <<ppc, local, localCb, errors>>
        /\ \A k \in Packets : k # x => pkt'[k] = pkt[k]
    BY <1>0, <1>4 DEF NextClkval, poller
  <2>2. \A k \in Packets : Contains(tsList', k) <=> (Contains(tsList, k) \/ k = x)
    BY <1>0, <2>1, ContainsAppend
  <2> QED
    BY <2>1, <2>2 DEF EntryInv
<1>5. CASE CancelClkval
  <2>1. /\ tsList' = <<>> /\ UNCHANGED <<ppc, local, localCb, errors>>
        /\ pkt' = [k \in Packets |-> IF Contains(tsList, k)
                                     THEN [pkt[k] EXCEPT !.state = "cancelled"]
                                     ELSE pkt[k]]
    BY <1>5 DEF CancelClkval, poller
  <2>2. ASSUME NEW k \in Packets, pkt'[k].state = "waiting"
        PROVE  pkt[k].state = "waiting" /\ ~Contains(tsList, k)
    <3>1. Contains(tsList, k) => pkt'[k].state = "cancelled"
      BY <1>0, <2>1 DEF PacketStates
    <3> QED
      BY <2>1, <2>2, <3>1
  <2> QED
    BY <2>1, <2>2 DEF EntryInv
<1>6. CASE ~EntryStep
  BY <1>6, NextEntry DEF EntryInv
<1> QED
  BY <1>1, <1>2, <1>3, <1>4, <1>5, <1>6 DEF EntryStep, CallerStep

\* While no transfer fails, a packet that waits is on the list or with the poll
\* that is under way, and never without the callback it asked for: no order of
\* asking, taking, cancelling and resetting loses one.
THEOREM OnlyErrorsForget ==
  Spec => [](/\ errors = 0 => \A k \in Packets : pkt[k].state = "waiting" =>
                                Contains(tsList, k) \/ Contains(local, k)
             /\ (tsList # <<>> => tsCb) /\ (local # <<>> => localCb))
<1>1. Init => EntryInv
  BY DEF Init, EntryInv
<1>2. EntryInv => /\ errors = 0 => \A k \in Packets : pkt[k].state = "waiting" =>
                                     Contains(tsList, k) \/ Contains(local, k)
                  /\ (tsList # <<>> => tsCb) /\ (local # <<>> => localCb)
  BY Zenon DEF EntryInv
<1> QED
  BY <1>1, <1>2, Invariant, NextEntryInv, PTL DEF Spec

\* A poll that has read the stamps goes on to publish them, unless it fails.
LEMMA PollGoesOn ==
  ASSUME IInv, [Next]_vars, ~StampStep, errors' = 0
  PROVE  /\ errors = 0
         /\ ppc \in {"clock", "conf", "stamp"} => ppc' \in {"clock", "conf", "stamp"}
<1> USE Bounds
<1>0. errors \in Nat
  BY DEF IInv, PhyTypes
<1>1. CASE EntryStep
  <2>1. ~PollFails
    BY <1>0 DEF PollFails, Fails
  <2> QED
    BY <1>1, <2>1 DEF EntryStep, PollStart, PollCallback, CallerStep, NextClkval,
       CancelClkval, poller
<1>2. errors = 0 \/ EntryStep
  BY NextEntry
<1>3. CASE PollReadClock \/ PollConfd \/ PollDisabled \/ PollWriteSpeed
  BY <1>2, <1>3, <1>1 DEF PollReadClock, PollConfd, PollDisabled, PollWriteSpeed
<1>4. ASSUME NEW p \in PhyPorts, PollPickPort(p) PROVE UNCHANGED ppc
  BY <1>4 DEF PollPickPort
<1>5. CASE PhyStep \/ UserStep \/ Tick
  <2>1. UNCHANGED ppc
    BY <1>5 DEF PhyStep, PhyUpdate, PhyCheck, PhyWrite, UserStep, SetPoll, UploadConfig,
       ResetSwitch, Tick, poller
  <2> QED
    BY <1>1, <1>2, <2>1
<1>6. CASE UNCHANGED vars
  BY <1>1, <1>2, <1>6 DEF vars, poller
<1> QED
  BY <1>1, <1>2, <1>3, <1>4, <1>5, <1>6
     DEF StampStep, EntryStep, Next, PollStep, SwitchStep

\* KeptInv holds through every step.
LEMMA NextKeptInv == IInv /\ KeptInv /\ [Next]_vars => KeptInv'
<1> SUFFICES ASSUME IInv, KeptInv, [Next]_vars, errors' = 0, NEW r \in Regs
             PROVE  /\ Valid(rx'.ts[r]) => ppc' \in {"clock", "conf", "stamp"}
                    /\ cpc'[r] \in {"sent", "wait"} => Outstanding(r)' \/ done'[r] # 0
  BY DEF KeptInv, Valid
<1> DEFINE Kept == /\ Valid(rx.ts[r]) => ppc \in {"clock", "conf", "stamp"}
                   /\ cpc[r] \in {"sent", "wait"} => Outstanding(r) \/ done[r] # 0
<1>0. /\ errors = 0 => Kept
      /\ cpc \in [Regs -> {"idle", "write", "check", "send", "sent", "wait"}]
      /\ frame \in [Regs -> 0..MaxFrames] /\ done \in [Regs -> 0..MaxFrames]
      /\ inflight \in [Regs -> Seq(1..MaxFrames)] /\ egress \in [Regs -> Stamps]
      /\ rx \in [ts : [Regs -> Stamps], clk : 0..MaxClock]
      /\ errors \in Nat /\ MaxFrames \in Nat
  BY Bounds DEF KeptInv, IInv, ClientTypes, ClockTypes, PollTypes, PhyTypes
<1>1. CASE PollReadStamps
  <2>1. /\ ppc = "read" /\ ppc' = "clock" /\ rx'.ts[r] = egress[r]
        /\ UNCHANGED <<inflight, done, cpc, errors>>
    BY <1>0, <1>1 DEF PollReadStamps, client, stamps
  <2> QED
    BY <1>0, <2>1 DEF Outstanding, Valid
<1>2. CASE PollComplete
  <2>1. /\ rx'.ts[r] = NoStamp /\ UNCHANGED <<inflight, egress, cpc, errors>>
        /\ done'[r] = IF Valid(rx.ts[r]) THEN done[r] + 1 ELSE done[r]
    BY <1>0, <1>2 DEF PollComplete, Complete, hwClock, client
  <2>2. ~Valid(rx'.ts[r]) /\ done[r] \in Nat
    BY <1>0, <2>1 DEF Valid, NoStamp
  <2> QED
    BY <1>0, <2>1, <2>2 DEF Outstanding, Valid
<1>3. ASSUME NEW q \in Regs, Prepare(q) PROVE Kept'
  <2>1. UNCHANGED <<inflight, egress, rx, ppc, errors>>
    BY <1>3 DEF Prepare, hwClock, poller
  <2>2. cpc'[r] \in {"sent", "wait"} => cpc[r] \in {"sent", "wait"} /\ done'[r] = done[r]
    BY <1>0, <1>3 DEF Prepare
  <2> QED
    BY <1>0, <2>1, <2>2 DEF Outstanding, Valid
<1>4. ASSUME NEW q \in Regs, WriteMgmt(q) \/ WaitMgmtValid(q) PROVE Kept'
  <2>1. UNCHANGED <<inflight, egress, rx, ppc, done>> /\ errors = 0
    BY <1>0, <1>4 DEF WriteMgmt, WaitMgmtValid, MgmtTransfer, hwClock, poller, stamps,
       Works, Fails
  <2>2. cpc'[r] \in {"sent", "wait"} => cpc[r] \in {"sent", "wait"}
    BY <1>0, <1>4 DEF WriteMgmt, WaitMgmtValid, MgmtTransfer
  <2> QED
    BY <1>0, <2>1, <2>2 DEF Outstanding, Valid
<1>5. ASSUME NEW q \in Regs, SendFrame(q) PROVE Kept'
  <2>1. UNCHANGED <<egress, rx, ppc, done, errors>>
    BY <1>5 DEF SendFrame, poller, stamps
  <2>2. \/ UNCHANGED <<inflight[r], cpc[r]>>
        \/ inflight'[r] = Append(inflight[r], frame[r])
    BY <1>0, <1>5 DEF SendFrame
  <2>3. Append(inflight[r], frame[r]) # <<>>
    <3>1. inflight[r] \in Seq(Nat) /\ frame[r] \in Nat
      BY <1>0
    <3> QED
      BY <3>1
  <2> QED
    BY <1>0, <2>1, <2>2, <2>3 DEF Outstanding, Valid
<1>6. ASSUME NEW q \in Regs, WaitStart(q) \/ WaitDone(q) \/ WaitGivesUp(q) PROVE Kept'
  <2>1. UNCHANGED <<inflight, egress, rx, ppc, errors>>
    BY <1>6 DEF WaitStart, WaitDone, WaitGivesUp, hwClock, poller
  <2>2. \/ cpc'[r] = "idle"
        \/ UNCHANGED <<cpc[r], done[r]>>
        \/ cpc[r] = "sent" /\ done'[r] = done[r]
    BY <1>0, <1>6 DEF WaitStart, WaitDone, WaitGivesUp, stamps
  <2> QED
    BY <1>0, <2>1, <2>2 DEF Outstanding, Valid
<1>7. ASSUME NEW q \in Regs, Egress(q) PROVE Kept'
  <2>1. UNCHANGED <<rx, ppc, done, cpc, errors>>
    BY <1>7 DEF Egress, poller, client, stamps
  <2>2. \/ UNCHANGED <<inflight[r], egress[r]>>
        \/ inflight[r] # <<>> /\ egress'[r] = [frame |-> Head(inflight[r]), at |-> clock]
    BY <1>0, <1>7 DEF Egress
  <2>3. inflight[r] # <<>> => Head(inflight[r]) # 0
    BY <1>0
  <2> QED
    BY <1>0, <2>1, <2>2, <2>3 DEF Outstanding, Valid
<1>8. CASE ~StampStep
  <2>1. UNCHANGED <<inflight, egress, rx.ts, cpc, done>> /\ errors = 0
    BY <1>8, NextStamp, PollGoesOn DEF client
  <2>2. ppc \in {"clock", "conf", "stamp"} => ppc' \in {"clock", "conf", "stamp"}
    BY <1>8, PollGoesOn
  <2> QED
    BY <1>0, <2>1, <2>2 DEF Outstanding, Valid
<1> QED
  BY <1>1, <1>2, <1>3, <1>4, <1>5, <1>6, <1>7, <1>8 DEF StampStep, ClientStep

\* While no transfer fails, a caller that waits has something to wait for: its
\* stamp is to come, was read by the poll under way, or is announced. No poll
\* drops the stamp of a frame somebody waits for.
THEOREM OnlyErrorsLose ==
  Spec => [](errors = 0 => \A r \in Regs :
               cpc[r] \in {"sent", "wait"} => Outstanding(r) \/ done[r] # 0)
<1>1. Init => KeptInv
  BY DEF Init, KeptInv, Valid, NoStamp
<1>2. KeptInv => (errors = 0 => \A r \in Regs :
                    cpc[r] \in {"sent", "wait"} => Outstanding(r) \/ done[r] # 0)
  BY DEF KeptInv
<1> QED
  BY <1>1, <1>2, Invariant, NextKeptInv, PTL DEF Spec

=============================================================================
