----------------------------- MODULE SjaDriver -----------------------------
(***************************************************************************)
(* The SJA1105 switch driver of DomD at run time (switch-spi.c): the poll  *)
(* thread, the PHY link handlers, the callers that ask for the switch's    *)
(* clock or for egress timestamps, and the tool that configures the        *)
(* switch from user space.                                                 *)
(*                                                                         *)
(* The poll thread's steps are the points where another thread can see or  *)
(* change what it uses.  It holds buf_lock from PollStart to PollComplete; *)
(* every other holder of buf_lock does its one transfer in one action, so  *)
(* the mutex is free exactly when the poll thread does not hold it.        *)
(***************************************************************************)
EXTENDS SjaClock, Sequences, SequencesExt

CONSTANTS
  Ports,        (* switch ports                                           *)
  PhyPorts,     (* those with a PHY: their speed follows the link         *)
  TsRegs,       (* egress timestamp registers of a port                   *)
  Packets,      (* packets whose receiver asks for a clock value          *)
  Speeds,       (* link speeds; 0 is no link                              *)
  MaxClock, MaxFrames, MaxLinkChanges, MaxUploads, MaxErrors  (* bounds   *)

ASSUME PortsAssumption == PhyPorts \subseteq Ports
ASSUME SpeedsAssumption == Speeds \subseteq Nat \ {0}
ASSUME BoundsAssumption ==
  /\ MaxClock \in Nat /\ MaxFrames \in Nat /\ MaxLinkChanges \in Nat
  /\ MaxUploads \in Nat /\ MaxErrors \in Nat

VARIABLES
  (* the switch *)
  clock,        (* PTPTSCLK                                               *)
  inflight,     (* frames sent but not yet stamped, by register           *)
  egress,       (* the egress timestamp registers                         *)
  hwConf,       (* a valid configuration is loaded (CONFSTATUS)           *)
  macSpeed,     (* speed in the MAC configuration of a port               *)
  clkSpeed,     (* speed its RGMII clock is set up for                    *)
  (* the poll thread *)
  ppc, local, localCb, rx, todo, cur,
  switchConfd, pollEnable,
  (* next_clkval_async *)
  tsList, tsCb, pkt,
  (* prepare_egress_ptp and wait_egress_ts, by register *)
  cpc, frame, tainted, done, egressTs,
  (* the PHY handlers, by port *)
  hpc, lastSpeed,
  (* history and bounds *)
  missed, sawDown, unseen,
  frames, changes, uploads, errors

hwClock == <<clock, inflight, egress>>
hwSpeed == <<hwConf, macSpeed, clkSpeed>>
poller  == <<ppc, local, localCb, rx, todo, cur, switchConfd>>
clkval  == <<tsList, tsCb, pkt>>
client  == <<cpc, frame, tainted, frames>>
stamps  == <<done, egressTs>>
phy     == <<hpc, lastSpeed, changes>>
seen    == <<missed, sawDown, unseen>>
vars    == <<hwClock, hwSpeed, poller, pollEnable, clkval, client, stamps, phy,
             seen, uploads, errors>>

Regs == Ports \X TsRegs

\* A stamp is the number of its frame and the time the frame left at. The
\* driver only sees LowBits(at); frame and at are there for the properties.
NoStamp == [frame |-> 0, at |-> 0]
Valid(stamp) == stamp.frame # 0

\* The poll thread holds buf_lock.
Locked == {"read", "clock", "conf", "stamp"}
BufLockFree == ppc \notin Locked

Fails == errors < MaxErrors /\ errors' = errors + 1
Works == UNCHANGED errors

Init ==
  /\ clock = 0
  /\ inflight = [r \in Regs |-> <<>>]
  /\ egress = [r \in Regs |-> NoStamp]
  /\ hwConf = FALSE
  /\ macSpeed = [p \in Ports |-> 0] /\ clkSpeed = [p \in Ports |-> 0]
  /\ ppc = "idle" /\ local = <<>> /\ localCb = FALSE
  /\ rx = [ts |-> egress, clk |-> 0]
  /\ todo = {} /\ cur = {}
  /\ switchConfd = FALSE /\ pollEnable = TRUE
  /\ tsList = <<>> /\ tsCb = FALSE
  /\ pkt = [k \in Packets |-> [state |-> "new", asked |-> 0, clk |-> 0]]
  /\ cpc = [r \in Regs |-> "idle"]
  /\ frame = [r \in Regs |-> 0] /\ tainted = [r \in Regs |-> FALSE]
  /\ done = [r \in Regs |-> 0]
  /\ egressTs = [r \in Regs |-> [frame |-> 0, at |-> 0, ts |-> 0]]
  /\ hpc = [p \in PhyPorts |-> "idle"] /\ lastSpeed = [p \in PhyPorts |-> 0]
  /\ missed = [p \in PhyPorts |-> FALSE] /\ sawDown = TRUE /\ unseen = FALSE
  /\ frames = 0 /\ changes = 0 /\ uploads = 0 /\ errors = 0

-----------------------------------------------------------------------------
(* sja1105_spi_next_clkval_async                                           *)

\* A packet joins the list of those that wait for a clock value.
NextClkval(k) ==
  /\ pkt[k].state = "new"
  /\ tsList' = Append(tsList, k) /\ tsCb' = TRUE
  /\ pkt' = [pkt EXCEPT ![k] = [state |-> "waiting", asked |-> clock, clk |-> 0]]
  /\ UNCHANGED <<hwClock, hwSpeed, poller, pollEnable, client, stamps, phy,
                 seen, uploads, errors>>

\* A call without a list entry empties the list and takes the callback back.
CancelClkval ==
  /\ tsList # <<>>
  /\ tsList' = <<>> /\ tsCb' = FALSE
  /\ pkt' = [k \in Packets |-> IF Contains(tsList, k)
                               THEN [pkt[k] EXCEPT !.state = "cancelled"]
                               ELSE pkt[k]]
  /\ UNCHANGED <<hwClock, hwSpeed, poller, pollEnable, client, stamps, phy,
                 seen, uploads, errors>>

-----------------------------------------------------------------------------
(* do_poll and thread_poll                                                 *)

\* Mutant: the list is copied but not emptied.
PollStartKeepsList ==
  /\ ppc = "idle" /\ pollEnable
  /\ ppc' = "read"
  /\ local' = tsList
  /\ localCb' = (tsList # <<>> /\ tsCb)
  /\ UNCHANGED <<tsList, tsCb>>
  /\ UNCHANGED <<hwClock, hwSpeed, rx, todo, cur, switchConfd, pollEnable, pkt,
                 client, stamps, phy, seen, uploads, errors>>

\* Mutant: the callback is reset before it is copied.
PollStartResetsFirst ==
  /\ ppc = "idle" /\ pollEnable
  /\ ppc' = "read"
  /\ local' = tsList /\ tsList' = <<>>
  /\ localCb' = FALSE
  /\ tsCb' = (tsList = <<>> /\ tsCb)
  /\ UNCHANGED <<hwClock, hwSpeed, rx, todo, cur, switchConfd, pollEnable, pkt,
                 client, stamps, phy, seen, uploads, errors>>

\* do_poll takes buf_lock, lays out its message, and before the transfer
\* takes the list and, if there is one to serve, the callback.
PollStart ==
  /\ ppc = "idle" /\ pollEnable
  /\ ppc' = "read"
  /\ local' = tsList /\ tsList' = <<>>
  /\ localCb' = (tsList # <<>> /\ tsCb)
  /\ tsCb' = (tsList = <<>> /\ tsCb)
  /\ UNCHANGED <<hwClock, hwSpeed, rx, todo, cur, switchConfd, pollEnable, pkt,
                 client, stamps, phy, seen, uploads, errors>>

\* The transfer reads the timestamp registers first (a read clears them).
PollReadStamps ==
  /\ ppc = "read"
  /\ ppc' = "clock"
  /\ rx' = [rx EXCEPT !.ts = egress]
  /\ egress' = [r \in Regs |-> NoStamp]
  /\ UNCHANGED <<clock, inflight, hwSpeed, local, localCb, todo, cur, switchConfd,
                 pollEnable, clkval, client, stamps, phy, seen, uploads, errors>>

\* Mutant: a switch that lost its configuration still counts as configured.
PollReadClockKeepsConfd ==
  /\ ppc = "clock"
  /\ rx' = [rx EXCEPT !.clk = clock]
  /\ IF hwConf /\ ~switchConfd
     THEN /\ ppc' = "conf" /\ todo' = PhyPorts
          /\ missed' = [p \in PhyPorts |-> FALSE]
     ELSE /\ ppc' = "stamp"
          /\ UNCHANGED <<todo, missed>>
  /\ sawDown' = ~hwConf
  /\ UNCHANGED <<hwClock, hwSpeed, local, localCb, cur, switchConfd, pollEnable,
                 clkval, client, stamps, phy, unseen, uploads, errors>>

\* Then it reads the clock and whether the switch is configured. When it was
\* not so far, the ports' speeds are to be written.
PollReadClock ==
  /\ ppc = "clock"
  /\ rx' = [rx EXCEPT !.clk = clock]
  /\ IF hwConf /\ ~switchConfd
     THEN /\ ppc' = "conf" /\ todo' = PhyPorts
          /\ missed' = [p \in PhyPorts |-> FALSE]
          /\ UNCHANGED switchConfd
     ELSE /\ ppc' = "stamp"
          /\ switchConfd' = hwConf
          /\ UNCHANGED <<todo, missed>>
  /\ sawDown' = ~hwConf
  /\ UNCHANGED <<hwClock, hwSpeed, local, localCb, cur, pollEnable, clkval, client,
                 stamps, phy, unseen, uploads, errors>>

\* The transfer fails: do_poll returns, and with it goes its local list.
PollFails ==
  /\ ppc \in {"read", "clock"}
  /\ Fails
  /\ ppc' = "idle" /\ local' = <<>> /\ localCb' = FALSE
  /\ UNCHANGED <<hwClock, hwSpeed, rx, todo, cur, switchConfd, pollEnable, clkval,
                 client, stamps, phy, seen, uploads>>

\* A port with a link is written: write_port_speed reads last_speed for the
\* MAC word (the test and that read are one step: a link that goes down in
\* between only makes the word 0, which is what the switch holds) ...
PollPickPort(p) ==
  /\ ppc = "conf" /\ cur = {} /\ p \in todo
  /\ todo' = todo \ {p}
  /\ cur' = {[port |-> p, speed |-> v] : v \in {lastSpeed[p]} \ {0}}
  /\ UNCHANGED <<hwClock, hwSpeed, ppc, local, localCb, rx, switchConfd, pollEnable,
                 clkval, client, stamps, phy, seen, uploads, errors>>

\* ... and again for the RGMII clock, and sends both.
PollWriteSpeed ==
  /\ ppc = "conf"
  /\ \E w \in cur :
       \/ /\ Works
          /\ macSpeed' = [macSpeed EXCEPT ![w.port] = w.speed]
          /\ clkSpeed' = [clkSpeed EXCEPT ![w.port] = lastSpeed[w.port]]
          /\ UNCHANGED missed
       \/ /\ Fails
          /\ missed' = [missed EXCEPT ![w.port] = TRUE]
          /\ UNCHANGED <<macSpeed, clkSpeed>>
  /\ cur' = {}
  /\ UNCHANGED <<hwClock, hwConf, ppc, local, localCb, rx, todo, switchConfd,
                 pollEnable, clkval, client, stamps, phy, sawDown, unseen, uploads>>

\* Mutant: that the switch is configured is not remembered.
PollConfdForgets ==
  /\ ppc = "conf" /\ cur = {} /\ todo = {}
  /\ ppc' = "stamp"
  /\ UNCHANGED <<hwClock, hwSpeed, local, localCb, rx, todo, cur, switchConfd,
                 pollEnable, clkval, client, stamps, phy, seen, uploads, errors>>

PollConfd ==
  /\ ppc = "conf" /\ cur = {} /\ todo = {}
  /\ switchConfd' = TRUE
  /\ ppc' = "stamp"
  /\ UNCHANGED <<hwClock, hwSpeed, local, localCb, rx, todo, cur, pollEnable, clkval,
                 client, stamps, phy, seen, uploads, errors>>

\* Mutant: the registers' valid bit is not tested.
CompleteAlways ==
  /\ egressTs' = [r \in Regs |->
       [frame |-> rx.ts[r].frame, at |-> rx.ts[r].at,
        ts |-> RecreateTs(rx.clk, LowBits(rx.ts[r].at))]]
  /\ done' = [r \in Regs |-> done[r] + 1]

\* Valid timestamps are made whole, stored and announced to their waiters.
Complete ==
  /\ egressTs' = [r \in Regs |->
       IF Valid(rx.ts[r])
       THEN [frame |-> rx.ts[r].frame, at |-> rx.ts[r].at,
             ts |-> RecreateTs(rx.clk, LowBits(rx.ts[r].at))]
       ELSE egressTs[r]]
  /\ done' = [r \in Regs |-> IF Valid(rx.ts[r]) THEN done[r] + 1 ELSE done[r]]

\* Mutant: the waiting packets are only taken once the transfer is done.
PollCompleteTakesList ==
  /\ ppc = "stamp"
  /\ Complete
  /\ ppc' = "call"
  /\ rx' = [rx EXCEPT !.ts = [r \in Regs |-> NoStamp]]
  /\ local' = local \o tsList /\ tsList' = <<>>
  /\ localCb' = (localCb \/ tsCb) /\ tsCb' = FALSE
  /\ UNCHANGED <<hwClock, hwSpeed, todo, cur, switchConfd, pollEnable, pkt, client,
                 phy, seen, uploads, errors>>

\* Every timestamp that was read is completed and published to its waiter;
\* buf_lock is released.
PollComplete ==
  /\ ppc = "stamp"
  /\ Complete
  /\ ppc' = "call"
  /\ rx' = [rx EXCEPT !.ts = [r \in Regs |-> NoStamp]]
  /\ UNCHANGED <<hwClock, hwSpeed, local, localCb, todo, cur, switchConfd,
                 pollEnable, clkval, client, phy, seen, uploads, errors>>

\* The callback gets the list and the clock value; the thread sleeps.
PollCallback ==
  /\ ppc = "call"
  /\ ppc' = "idle"
  /\ pkt' = [k \in Packets |-> IF localCb /\ Contains(local, k)
               THEN [pkt[k] EXCEPT !.state = "answered", !.clk = rx.clk]
               ELSE pkt[k]]
  /\ local' = <<>> /\ localCb' = FALSE
  /\ UNCHANGED <<hwClock, hwSpeed, rx, todo, cur, switchConfd, pollEnable, tsList,
                 tsCb, client, stamps, phy, seen, uploads, errors>>

\* A round of thread_poll with polling disabled.
PollDisabled ==
  /\ ppc = "idle" /\ ~pollEnable
  /\ switchConfd' = FALSE
  /\ sawDown' = TRUE
  /\ UNCHANGED <<hwClock, hwSpeed, ppc, local, localCb, rx, todo, cur, pollEnable,
                 clkval, client, stamps, phy, missed, unseen, uploads, errors>>

PollStep ==
  \/ PollStart \/ PollReadStamps \/ PollReadClock \/ PollFails
  \/ \E p \in PhyPorts : PollPickPort(p)
  \/ PollWriteSpeed \/ PollConfd \/ PollComplete \/ PollCallback
  \/ PollDisabled

-----------------------------------------------------------------------------
(* prepare_egress_ptp and wait_egress_ts                                   *)

PortIsUp(p) == p \in PhyPorts => lastSpeed[p] # 0

\* A frame of the register is still under way: sent and not yet published.
Outstanding(r) == inflight[r] # <<>> \/ Valid(egress[r]) \/ Valid(rx.ts[r])

\* Mutant: the completion is not taken back.
PrepareKeepsDone(r) ==
  /\ \A q \in Regs : cpc[q] \in (IF q = r THEN {"idle"} ELSE {"idle", "sent", "wait"})
  /\ frames < MaxFrames
  /\ PortIsUp(r[1])
  /\ frames' = frames + 1 /\ frame' = [frame EXCEPT ![r] = frames + 1]
  /\ tainted' = [tainted EXCEPT ![r] = Outstanding(r)]
  /\ cpc' = [cpc EXCEPT ![r] = "write"]
  /\ UNCHANGED <<hwClock, hwSpeed, poller, pollEnable, clkval, stamps, phy, seen,
                 uploads, errors>>

\* A caller is about to send a frame to stamp in register r: the completion
\* is taken back. There is one management route, so callers prepare and send
\* one frame at a time, and one frame per register up to the wait.
Prepare(r) ==
  /\ \A q \in Regs : cpc[q] \in (IF q = r THEN {"idle"} ELSE {"idle", "sent", "wait"})
  /\ frames < MaxFrames
  /\ PortIsUp(r[1])
  /\ done' = [done EXCEPT ![r] = 0]
  /\ frames' = frames + 1 /\ frame' = [frame EXCEPT ![r] = frames + 1]
  /\ tainted' = [tainted EXCEPT ![r] = Outstanding(r)]
  /\ cpc' = [cpc EXCEPT ![r] = "write"]
  /\ UNCHANGED <<hwClock, hwSpeed, poller, pollEnable, clkval, egressTs, phy, seen,
                 uploads, errors>>

\* write_mgmt, then wait_mgmt_valid; a failing transfer ends the call.
MgmtTransfer(r, from, next) ==
  /\ cpc[r] = from /\ BufLockFree
  /\ \/ Works /\ cpc' = [cpc EXCEPT ![r] = next]
     \/ Fails /\ cpc' = [cpc EXCEPT ![r] = "idle"]
  /\ UNCHANGED <<hwClock, hwSpeed, poller, pollEnable, clkval, frame, tainted,
                 frames, stamps, phy, seen, uploads>>

WriteMgmt(r) == MgmtTransfer(r, "write", "check")
WaitMgmtValid(r) == MgmtTransfer(r, "check", "send")

\* The caller sends its frame (external).
SendFrame(r) ==
  /\ cpc[r] = "send"
  /\ cpc' = [cpc EXCEPT ![r] = "sent"]
  /\ inflight' = [inflight EXCEPT ![r] = Append(@, frame[r])]
  /\ UNCHANGED <<clock, egress, hwSpeed, poller, pollEnable, clkval, frame, tainted,
                 frames, stamps, phy, seen, uploads, errors>>

\* wait_egress_ts returns when the port is down; after that test it waits.
WaitStart(r) ==
  /\ cpc[r] = "sent"
  /\ cpc' = [cpc EXCEPT ![r] = IF PortIsUp(r[1]) THEN "wait" ELSE "idle"]
  /\ UNCHANGED <<hwClock, hwSpeed, poller, pollEnable, clkval, frame, tainted,
                 frames, stamps, phy, seen, uploads, errors>>

\* It gets the completion and reads the timestamp.
WaitDone(r) ==
  /\ cpc[r] = "wait" /\ done[r] > 0
  /\ done' = [done EXCEPT ![r] = @ - 1]
  /\ cpc' = [cpc EXCEPT ![r] = "idle"]
  /\ UNCHANGED <<hwClock, hwSpeed, poller, pollEnable, clkval, frame, tainted,
                 frames, egressTs, phy, seen, uploads, errors>>

\* It times out or is killed.
WaitGivesUp(r) ==
  /\ cpc[r] = "wait"
  /\ cpc' = [cpc EXCEPT ![r] = "idle"]
  /\ UNCHANGED <<hwClock, hwSpeed, poller, pollEnable, clkval, frame, tainted,
                 frames, stamps, phy, seen, uploads, errors>>

ClientStep ==
  \E r \in Regs : \/ Prepare(r) \/ WriteMgmt(r) \/ WaitMgmtValid(r)
                  \/ SendFrame(r) \/ WaitStart(r) \/ WaitDone(r) \/ WaitGivesUp(r)

-----------------------------------------------------------------------------
(* sja1105_phy_handler                                                     *)

\* The link of a port changes; the handler notes its speed.
PhyUpdate(p) ==
  /\ hpc[p] = "idle" /\ changes < MaxLinkChanges
  /\ \E v \in (Speeds \cup {0}) \ {lastSpeed[p]} :
       lastSpeed' = [lastSpeed EXCEPT ![p] = v]
  /\ hpc' = [hpc EXCEPT ![p] = "check"]
  /\ changes' = changes + 1
  /\ UNCHANGED <<hwClock, hwSpeed, poller, pollEnable, clkval, client, stamps, seen,
                 uploads, errors>>

\* It tests switch_confd, which the poll thread may be about to set: then the
\* poll thread is the one to write the speed, unless it is past this port.
PhyCheck(p) ==
  /\ hpc[p] = "check"
  /\ hpc' = [hpc EXCEPT ![p] = IF switchConfd THEN "write" ELSE "idle"]
  /\ missed' = [missed EXCEPT
                  ![p] = @ \/ (~switchConfd /\ ppc = "conf" /\ p \notin todo)]
  /\ UNCHANGED <<hwClock, hwSpeed, poller, pollEnable, clkval, client, stamps,
                 lastSpeed, changes, sawDown, unseen, uploads, errors>>

\* It writes the speed under buf_lock.
PhyWrite(p) ==
  /\ hpc[p] = "write" /\ BufLockFree
  /\ hpc' = [hpc EXCEPT ![p] = "idle"]
  /\ \/ /\ Works
        /\ macSpeed' = [macSpeed EXCEPT ![p] = lastSpeed[p]]
        /\ clkSpeed' = [clkSpeed EXCEPT ![p] = lastSpeed[p]]
        /\ missed' = [missed EXCEPT ![p] = FALSE]
     \/ /\ Fails
        /\ missed' = [missed EXCEPT ![p] = TRUE]
        /\ UNCHANGED <<macSpeed, clkSpeed>>
  /\ UNCHANGED <<hwClock, hwConf, poller, pollEnable, clkval, client, stamps,
                 lastSpeed, changes, sawDown, unseen, uploads>>

PhyStep == \E p \in PhyPorts : PhyUpdate(p) \/ PhyCheck(p) \/ PhyWrite(p)

-----------------------------------------------------------------------------
(* User space                                                              *)

\* SJA1105_IOC_POLL, under no lock.
SetPoll ==
  /\ uploads < MaxUploads
  /\ pollEnable' = ~pollEnable
  /\ UNCHANGED <<hwClock, hwSpeed, poller, clkval, client, stamps, phy, seen, uploads,
                 errors>>

\* A static configuration is sent through the character device. It resets
\* the ports' speeds; it goes unseen when no poll (or round with polling
\* disabled) came after the previous one was gone.
UploadConfig ==
  /\ uploads < MaxUploads /\ BufLockFree
  /\ uploads' = uploads + 1
  /\ hwConf' = TRUE
  /\ macSpeed' = [p \in Ports |-> 0] /\ clkSpeed' = [p \in Ports |-> 0]
  /\ unseen' = ~sawDown
  /\ UNCHANGED <<hwClock, poller, pollEnable, clkval, client, stamps, phy, missed,
                 sawDown, errors>>

\* The switch is reset and loses its configuration.
ResetSwitch ==
  /\ hwConf /\ uploads < MaxUploads /\ BufLockFree
  /\ hwConf' = FALSE
  /\ macSpeed' = [p \in Ports |-> 0] /\ clkSpeed' = [p \in Ports |-> 0]
  /\ UNCHANGED <<hwClock, poller, pollEnable, clkval, client, stamps, phy, seen,
                 uploads, errors>>

UserStep == SetPoll \/ UploadConfig \/ ResetSwitch

-----------------------------------------------------------------------------
(* The switch                                                              *)

\* A frame leaves and is stamped; an unread stamp of the register is lost.
Egress(r) ==
  /\ inflight[r] # <<>>
  /\ egress' = [egress EXCEPT ![r] = [frame |-> Head(inflight[r]), at |-> clock]]
  /\ inflight' = [inflight EXCEPT ![r] = Tail(@)]
  /\ UNCHANGED <<clock, hwSpeed, poller, pollEnable, clkval, client, stamps, phy,
                 seen, uploads, errors>>

\* The stamps that are not yet paired with a clock value.
Unpaired == {egress[r] : r \in Regs}
            \cup (IF ppc = "clock" THEN {rx.ts[r] : r \in Regs} ELSE {})

\* The clock runs. PolledInTime: a stamp is read, and the clock after it,
\* before the register's lap is over (2^24 ticks of 8 ns are 134 ms, and the
\* thread polls every jiffy).
PolledInTime == \A s \in Unpaired : Valid(s) => clock + 1 < s.at + Wrap

Tick ==
  /\ clock < MaxClock /\ PolledInTime
  /\ clock' = clock + 1
  /\ UNCHANGED <<inflight, egress, hwSpeed, poller, pollEnable, clkval, client, stamps,
                 phy, seen, uploads, errors>>

SwitchStep == Tick \/ \E r \in Regs : Egress(r)

CallerStep == CancelClkval \/ \E k \in Packets : NextClkval(k)

Next == PollStep \/ CallerStep \/ ClientStep \/ PhyStep \/ UserStep \/ SwitchStep

\* The kernel keeps running the poll thread; nothing else must happen.
Spec == Init /\ [][Next]_vars /\ WF_vars(PollStep)

-----------------------------------------------------------------------------
(* Properties                                                              *)

Stamps == [frame : 0..MaxFrames, at : 0..MaxClock]

\* Every variable has its type.
TypeOK ==
  /\ clock \in 0..MaxClock
  /\ inflight \in [Regs -> Seq(1..MaxFrames)]
  /\ egress \in [Regs -> Stamps]
  /\ hwConf \in BOOLEAN
  /\ macSpeed \in [Ports -> Speeds \cup {0}] /\ clkSpeed \in [Ports -> Speeds \cup {0}]
  /\ ppc \in {"idle", "read", "clock", "conf", "stamp", "call"}
  /\ local \in Seq(Packets) /\ localCb \in BOOLEAN
  /\ rx \in [ts : [Regs -> Stamps], clk : 0..MaxClock]
  /\ todo \subseteq PhyPorts
  /\ cur \subseteq [port : PhyPorts, speed : Speeds]
  /\ switchConfd \in BOOLEAN /\ pollEnable \in BOOLEAN
  /\ tsList \in Seq(Packets) /\ tsCb \in BOOLEAN
  /\ pkt \in [Packets -> [state : {"new", "waiting", "cancelled", "answered"},
                          asked : 0..MaxClock, clk : 0..MaxClock]]
  /\ cpc \in [Regs -> {"idle", "write", "check", "send", "sent", "wait"}]
  /\ frame \in [Regs -> 0..MaxFrames] /\ tainted \in [Regs -> BOOLEAN]
  /\ done \in [Regs -> 0..MaxFrames]
  /\ egressTs \in [Regs -> [frame : 0..MaxFrames, at : 0..MaxClock, ts : Nat]]
  /\ hpc \in [PhyPorts -> {"idle", "check", "write"}]
  /\ lastSpeed \in [PhyPorts -> Speeds \cup {0}]
  /\ missed \in [PhyPorts -> BOOLEAN] /\ sawDown \in BOOLEAN /\ unseen \in BOOLEAN
  /\ frames \in 0..MaxFrames /\ changes \in 0..MaxLinkChanges
  /\ uploads \in 0..MaxUploads /\ errors \in 0..MaxErrors

\* The clock value a packet is answered with was read from the switch after
\* the packet asked for it, although the list is taken by one thread while
\* others add to it.
ClkvalFresh ==
  \A k \in Packets : pkt[k].state = "answered" => pkt[k].clk >= pkt[k].asked

\* A packet that was answered or cancelled gets no (other) clock value.
AnsweredOnce ==
  [][\A k \in Packets :
       (pkt[k].state \in {"answered", "cancelled"}) => (pkt'[k] = pkt[k])]_vars

\* A packet gets its clock value, if polling is on for good and the transfers
\* work: no order of asking, taking and resetting loses the callback.
ClkvalAnswered ==
  (<>[]pollEnable /\ [](errors = 0)) =>
    \A k \in Packets : (pkt[k].state = "waiting") ~> (pkt[k].state # "waiting")

\* A published egress timestamp is the time its frame left at, in ns, although
\* register and clock are read one after the other and the register wraps.
TimestampExact ==
  \A r \in Regs : egressTs[r].frame # 0 => egressTs[r].ts = NsPerTick * egressTs[r].at

\* A caller that waits for the timestamp of its frame gets that of its frame
\* and not one of an earlier frame, unless the earlier frame, whose caller
\* gave up, was still under way when this one was prepared.
TimestampOwn ==
  [][\A r \in Regs :
       (cpc[r] = "wait" /\ done'[r] < done[r] /\ ~tainted[r])
         => (egressTs[r].frame = frame[r])]_vars

\* The speed the switch runs a port at.
SpeedSet(p) == macSpeed[p] = lastSpeed[p] /\ clkSpeed[p] = lastSpeed[p]

\* While the driver knows of the switch's configuration and no thread is about
\* to write, every port with a link is set up for the speed of that link, in
\* the MAC and in its clock: whatever order links change, configurations are
\* loaded and polls find them in. Excused are a configuration no poll could
\* see, a write that failed and a handler that ran while the poll thread,
\* past its port, had yet to set switch_confd.
ConfiguredSpeed ==
  (switchConfd /\ hwConf /\ BufLockFree /\ ~unseen) =>
    \A p \in PhyPorts : (hpc[p] = "idle" /\ ~missed[p] /\ lastSpeed[p] # 0)
                          => SpeedSet(p)

\* A switch that has its configuration for good and is polled for good counts
\* as configured in the end, whatever links do meanwhile and whenever polling
\* was off: from then on ConfiguredSpeed has something to say, and the
\* handlers write.
ConfigurationSeen ==
  (<>[](pollEnable /\ hwConf) /\ [](errors = 0)) => <>[]switchConfd

\* The same without the excuse for such a handler, as switch-spi.c has it: the
\* poll reconfigures "all dynamic ports with the current PHY link speed".
CurrentSpeed ==
  (switchConfd /\ hwConf /\ BufLockFree /\ ~unseen /\ errors = 0) =>
    \A p \in PhyPorts : (hpc[p] = "idle" /\ lastSpeed[p] # 0) => SpeedSet(p)

\* The callback gets "all list_entries passed via this function": a packet that
\* waits is on the list, or with the poll that is under way.
NoEntryForgotten ==
  \A k \in Packets : pkt[k].state = "waiting" => Contains(tsList \o local, k)

=============================================================================
