# A verification project for meta-xt-prod-aos

meta-xt-prod-aos is a Yocto layer that builds a Xen product for R-Car boards:
a thin Dom0 that only starts guests, a driver domain DomD, and a "fusion"
domain DomF that runs the Aos services. Most of it is build metadata. What has
behaviour of its own, and is the subject of these specifications, is the code
that gets the product started, updated and timed:

* the U-Boot command variables that choose between two Dom0 slots,
* the initramfs script of DomD and DomF that tries, applies or drops a root
  file system update,
* the kernel driver for the SJA1105 switch in DomD,
* the scripts of Dom0 that start, stop and watch the guests,
* the layout of the SD card that all of them take for granted.

All specifications are plain TLA+. TLC checks them on small instances, TLAPS
proves the theorems of the `*_proofs` modules for all values of the constants.

## 1. Inventory

### 1.1 U-Boot slot choice (`doc/u-boot-env.txt:110-145`)

*State.* The file `uEnv.txt` on the FAT partition mmc 0:3 (main slot, slot last
started, one ok flag per slot), the same variables in RAM, the two boot
partitions 0:1 and 0:2.
*Operations.* `aos_bootcmd` reads the variables (creating the file when it is
missing), then runs `aos_boot1` and `aos_boot2`, main slot first. A slot is
tried only if its flag is 1; the try clears its flag, sets the other one, saves,
and boots.
*Interaction.* The update manager's dual partition module (`aos_updatemanager.cfg`,
"ubootdualpart") marks the running slot good, writes updates to the other slot,
and makes it the main one, all by rewriting the same file.
*Hard.* Power cuts, torn and failing writes, an image that hangs or does not load.
*Correct when* the board is never shut out of both slots, does not loop in a dead
one, never overwrites the slot it runs from and gets to run a good slot.

### 1.2 Root file system update (`initramfs-framework/finish`, DomD and DomF)

*State.* Flag files `updated`, `failed`, `do_update`, `do_apply` and a squashfs
image in `/data/update/rootfs`, the root partition.
*Operations.* At every start: mount /data, then *apply* (copy the image over the
partition), *try* (mount the image as root and set `updated`), or *ignore* (clear
`updated` and `do_update`). Any failing step of a try sets `failed` and starts
the partition's system.
*Interaction.* The update manager's overlay module stages (`do_update`), accepts
(`do_apply`) or drops; `aos-reboot.service` restarts the domain when the update
manager keeps failing while `updated` exists (through xenstore and
`dom_watcher.sh` for DomD, which restarts the whole board).
*Hard.* Power cuts in the middle of rm/cp or between two unlinks; unchecked errors.
*Correct when* only accepted updates reach the partition, an incomplete partition
is always known to be, a bad update is left, an accepted one is applied.

### 1.3 SJA1105 driver (`switch-spi.c`, `sja1105.h`)

*State.* Per switch: SPI bounce buffers under `buf_lock`, the list of packets that
wait for a clock value and its callback under `ts_complete_lock`, per port and
register a timestamp and a completion, per PHY the last link speed,
`switch_confd`, the polling configuration; globally `sja_by_minor` with
reference counts under `minor_lock`.
*Operations.* `do_poll` every jiffy; `next_clkval_async`, `prepare_egress_ptp`,
`wait_egress_ts` for the PTP stack; the PHY handler; the character device
(raw SPI messages, IOC_POLL); probe, remove, open, release, get, put.
*Interaction.* The poll thread, PHY handlers, ioctl callers and PTP callers share
the state above, not all of it under locks.
*Hard.* Interleavings on `switch_confd` and `last_speed`; late timestamps; the 24-bit
timestamp register; failing transfers; removal while in use.
*Correct when* clock values are fresh and delivered once, timestamps are exact and
belong to the caller's frame, ports run at the speed of their link, and nothing
is used after it was freed.

### 1.4 Guest scripts (`guest_domd`, `guest_domf`, `start_guest.sh`, `dom_watcher.sh`)

*State.* Running domains and their ids, xenstore keys (`drivers/bridge/status`,
`control/user-reboot`), pipes in /tmp, background shells.
*Operations.* start, stop, restart of DomD and DomF; waiting for the bridge of DomD
before DomF is created; rebooting when a guest asks for it.
*Hard.* Processes found by `ps | grep`, ids read once, timers that outlive their stop.
*Correct when* DomF starts once its backend is ready, a reboot request is served, and
a stop never destroys a domain that was started after it.

### 1.5 The rest

SD card layout (`doc/mk_sdcard_image.sh`: partition tables per product), the update
bundle recipe (`xt-update.bb`), the provisioning script (`finish.sh` of aos-iamanager),
configuration of the external Aos programs, recipes, patches, device trees.
`PROJECT.json` lists every part with its status.

## 2. Plan

| order | module | models | status |
|---|---|---|---|
| 1 | `SlotBoot`, `SlotBoot_proofs` | 1.1, safety proved | done |
| 2 | `SjaClock`, `SjaDriver` and their proofs | 1.3 at run time; safety proved | done |
| 3 | `RootfsUpdate`, `RootfsUpdate_proofs` | 1.2, safety proved | done |
| 4 | `SjaLifecycle`, `SjaLifecycle_proofs` | 1.3 from probe to remove: who may use an instance and its device when; all safety proved | done |
| 5 | `SpiMessage`, `SpiMessage_proofs` | 1.3, the bounce buffers of an ioctl; all proved | done |
| 6 | `Failover` | what the A/B boot promises, implemented by `SlotBoot`; the refinement proved | done |
| | `StagedUpdate` | what the root file system's update promises, implemented by `RootfsUpdate`; the refinement proved | done |
| 7 | `GuestLifecycle`, `GuestLifecycle_proofs` | 1.4, the bridge notification, `finish.sh`; safety proved | done |
| 8 | `UmWatch` | systemd's start limit against the update manager's timeouts (discrete clock) | open |
| 9 | `SdLayout` | partition tables as operators against a reference definition | open |

Composition: `SjaDriver` extends `SjaClock`; `Failover` is instantiated in
`SlotBoot`, and `StagedUpdate` in `RootfsUpdate`, under a refinement mapping; `GuestLifecycle` composes the init script, two
kinds of background scripts, two domains and a systemd unit over xenstore.
Every safety invariant and action property of a passing run is a theorem. Still to state
and prove: that an instance of `SjaLifecycle` implements a plain reference-counted
object, and the poll of `SjaDriver` a clock-value service.

## 3. The modules

### SlotBoot

One U-Boot command that touches RAM or storage is one action: `ReadVars`,
`CreateFile`, `SelectOrder`, `TrySlot`/`SkipSlot`, `SaveTry`, `Bootm`, `GiveUp`.
`file` is uEnv.txt (`NoFile` when it cannot be loaded), `env` the copy in RAM,
`order` the commands `aos_bootcmd` has yet to run, `image` what the partitions
hold (good, hangs after start, cannot be loaded). `aos_boot_main` and
`aos_boot_part` count from 0 in the file; they are kept as slots 1 and 2.
The update manager is external: it acts only in a booted good system
(`ConfirmBoot`, `InstallUpdate`, `ActivateUpdate`) and trusts `aos_boot_part`.
`PowerCut` may strike anywhere and tear a write that is under way; `SaveFails`
is the fatwrite whose result nobody tests. Both are counted by `MaxFaults`.

`last`, `lastOk`, `recorded` and `lost` are history: they say which decision is on
record, which makes the guarantees precise. A try whose record was lost may be
repeated and its slot may be taken for the other one; a try on record may not. So
`RunningSlotUntouched` promises nothing after a save that failed or a file that was lost: there the
update manager may write the running slot.

### Failover

The abstract specification: slots that start, are confirmed, stop and get new images;
the slot of a recorded start that nobody confirmed is the *suspect* and is not started
again before the other one was, and nothing but a slot that does not run gets an
image, unless the record was lost. There is no file, no flag and no boot loader in it.
`SlotBoot` implements it with `running` (the slot from `bootm` on), `suspect`
(`recorded /\ ~lastOk`), `known <- recorded` and `None <- 0`: a start is several U-Boot
commands, of which `SaveTry` is the abstract `Start` (on record or not) and the others
stutter; a `Bootm` that returns, a restart and a power cut are `Stop`, and a power cut that
takes the file is `Lose`.

### SjaClock and SjaDriver

`SjaClock` has the arithmetic of `sja1105_recreate_ts` over a register of any
size `Wrap` (2^24 in the switch). `SjaDriver` has one action per point where
another thread can see or change what a thread uses:

| actions | code |
|---|---|
| `NextClkval`, `CancelClkval` | `sja1105_spi_next_clkval_async` |
| `PollStart` | `do_poll` up to `spi_sync`, the list taken |
| `PollReadStamps`, `PollReadClock`, `PollFails` | the transfers of `spi_sync`, in their order |
| `PollPickPort`, `PollWriteSpeed`, `PollConfd` | the "becomes configured" branch and `write_port_speed` |
| `PollComplete`, `PollCallback`, `PollDisabled` | timestamps, unlock, callback; `thread_poll` |
| `Prepare`, `WriteMgmt`, `WaitMgmtValid`, `WaitStart`, `WaitDone`, `WaitGivesUp` | `prepare_egress_ptp`, `wait_egress_ts` |
| `PhyUpdate`, `PhyCheck`, `PhyWrite` | `sja1105_phy_handler` |
| `SetPoll`, `UploadConfig`, `ResetSwitch` | IOC_POLL and raw messages from user space |
| `SendFrame`, `Egress`, `Tick` | the PTP stack and the switch (external) |

`buf_lock` is held by the poll thread exactly in the steps `Locked`; every other
holder does one transfer and is one action guarded by `BufLockFree`. A stamp
carries the number of its frame and the time the frame left at; the driver's
actions only use `LowBits(at)`, the rest is for the properties.
`missed`, `sawDown`, `unseen` and `tainted` are history variables for the excuses of
`ConfiguredSpeed` and `TimestampOwn`.

Assumptions about the environment, each named where it is made: callers prepare and
send one frame at a time and wait before they reuse a register (`Prepare`; the
comment at `switch-spi.c:353-358` asks for the second); a stamp is read before the
register's lap is over (`PolledInTime` in `Tick`: 134 ms against a poll per jiffy).

### SjaLifecycle

An instance is allocated by a probe, entered in `sja_by_minor`, used by its poll
thread, its PHY handler and by users (open files, or another driver by way of
`sja1105_find_by_spi`), and freed by whoever is last: remove or a put.

| actions | code |
|---|---|
| `ProbeAlloc`, `ProbeNoBuffers` | `sja1105_spi_probe` up to the buffers; the way to err_dev without them |
| `ProbeTable`, `ProbePhy`, `ProbeRun` | under `minor_lock`: minor number and device, `phy_late_setup`, the thread |
| `RemoveStart`, `RemovePhy`, `RemoveClose`, `RemoveLast` | `sja1105_spi_remove`, `_shutdown` |
| `PollBegin`, `PollEnd`, `PollExit` | `thread_poll` |
| `Find`, `Get`, `Put` | `find_by_spi`; `spi_get` and open; `spi_put` and release |
| `CheckDev`, `UseDev` | ioctl and `spidev_message`: the test of `sja->dev` and its use |

`minorLock` is a variable because a probe holds it over several steps and a thread
that dies in `find_by_spi` holds it for ever. The instance of a failed probe is freed but its
pointer stays in the slot `sja_count`: its memory is "failed" and not "freed", so
that what follows from it can be told apart. That memory is taken to be read as it was (nothing
else is allocated in it), so `Find` may return the failed probe's slot, whose
number the next probe gives to its own device, and `Get` may count a user in it.
`unlocked` is history: a probe that fails for lack of buffers unlocks `minor_lock` without
holding it, under another probe, after a thread that died with it, or in the middle of a
section that is one action here (if nobody holds it the state is the same). All properties
about the table and the freeing of instances have `~unlocked` as their hypothesis;
without it TLC finds `NoUseAfterFree`, `NoLeak`, `TableLive` and `FoundMinorStays` violated.

Left out: module init and exit; switches with several PHYs (`early_setup` leaks the
references of the first ones when a later one fails, line 1237); a probe when the
table is full (`RoomInTable`: there is no test in the code); a wait with a negative timeout,
which stays after remove; device-managed buffers, which the driver core frees after remove while
an operation that passed its test may still use them.

### SpiMessage

One ioctl at a time (buf_lock): the size test and the copying of the array
(`GetIocMessage`), one action per pass of the loop that lays the transfers out (`LayOut`,
`LayOutFails`), `SpiSync`, one per pass of the loop that copies back (`CopyOut`),
`Finish`. `total`, `rxTotal` and `txTotal` are unsigned int, that is modulo
`WordMod`; the pointers are offsets and are not. A transfer is its length and whether it receives
and sends. `sum` is history: the true sum of the lengths.

### GuestLifecycle

`guest_domf` is one process (`cmd`), the shells it leaves in the background are
`Shells`; each runs `start_guest.sh` and, however that ends, `dom_watcher.sh` (`pc`).
One command that reads or changes what others see is one action. What they share:

| variables | code |
|---|---|
| `domd`, `domf`, `lastId` | `xl domid`, `xl create`; ids are not used twice |
| `status`, `over` | `drivers/bridge/status`, written by bridge-up-notification.service |
| `reboot`, `writable` | `control/user-reboot` of DomF, and whether `xenstore-chmod` has run |
| `pipe`, `rebootPipes` | `/tmp/domf_xenstore`, `/tmp/<id>-reboot` |
| `event` | a line that xenstore-watch has written to the pipe of a script |

`FoundOne` is `ps | grep` with the test of `$PID`, which fails for two processes
like for none. What the model shows besides its properties: a restart when DomF does not
run starts nothing (do_stop exits); a stop while `xl create` runs returns before
DomF is there, and DomF runs after it; `/tmp/<id>-reboot` is never removed, because
`DOM_ID` is empty in `guest_domf`; after DomF's own reboot nobody watches its new id and
its request is refused. DomD's own init script is seen from outside (`DomdStarts`, `DomdGone`);
`DomfGone` stands for a shutdown, do_stop's timer and a timer's xl destroy that comes late.
What happens while Dom0 goes down is left out.

### RootfsUpdate

One command of `finish` that changes storage is one action, `rm -rf` and
`cp -rafd` of the root file system two each (before and after /dev goes or
returns; the shell expands `*` in order, so much else is gone or back before). The
partition is a version, whether all of it is there, and whether /dev is.
A good image runs; a bad one runs, but without a working update manager; a
corrupt one cannot be mounted. Power cuts, failing mounts and failing copies are counted by
`MaxFaults`. Left out: a start without a userdata partition (finish:187-190), a
failing `touch` or `rm` of a flag, several images in the directory.
The update manager is external and has one update at a time. `RebootFailed` is
`aos-reboot.service`; systemd's start limit is taken to be reached.

### StagedUpdate

The abstract specification: a candidate is offered, tried, accepted or dropped, and an
accepted one replaces what is installed and is accepted until it has. There is no script,
flag or mount in it. `RootfsUpdate` implements it with `candidate` (the image, as long as
its do_update flag is there), `verdict` (accepted: do_apply; tried: updated, which counts
until `ClearDoUpdate`), and `running` (the candidate from its mark on, the partition from
switch_root on). `MarkUpdated` is `Try`, `ClearDoUpdate` and `DropUpdate` are `Drop`, each
step of a copy is `Replace` but the last, which is `Install`; what starts, mounts or fails
stutters. Two of its actions are concessions to the code: `Forget` (power is lost in `clear2`)
and `Spoil` (the incremental copy's untested errors).

## 4. Runs

| run | instance | shows |
|---|---|---|
| `slot_boot` | 2 faults, 2 updates, all images | `NeverShutOut`, `OneLostBoot`, `NoSecondTry`, `RunningSlotUntouched`, `GoodSlotRuns`; that it implements `Failover` |
| `sja_timestamps` | 1 register, 3 frames, `Wrap` 3, clock to 6, 1 error, 2 link changes | `TimestampExact`, `TimestampOwn` |
| `sja_clkval` | 2 packets, clock to 3, 1 error, polling on and off | `ClkvalFresh`, `AnsweredOnce`, `ClkvalAnswered` |
| `sja_speed` | 2 PHY ports, 2 speeds, 3 link changes, 3 configurations, 1 error | `ConfiguredSpeed`, `ConfigurationSeen` |
| `rootfs_update` | 2 updates, 2 faults, all images | `WipedForFullOnly`, `IncompleteIsKnown`, `TriedOnce`, `RolledBack`, `AcceptedIsApplied`; that it implements `StagedUpdate` |
| `sja_lifecycle` | 2 switches, 2 users, 2 probes, 2 minor numbers | `NoUseAfterFree`, `NoLeak`, `DriverThreadsSafe`, `TableLive`, `FoundMinorStays`, `PhyBalanced`, `RemoveEnds` |
| `spi_message` | words of 4 bits, buffers of 4 bytes, up to 3 transfers, 9 lengths | `InsideBuffers`, `PlacesApart`, `OwnBytes`, `ResultIsLength` |
| `guest_lifecycle` | 2 background shells, 3 domain ids | `NoStalePipe`, `StartedWhenReady`, `RequestHeard`, `DomfWatched` |
| `sja_forgotten` | 1 packet, 1 error | violates `NoEntryForgotten` |
| `sja_race` | 1 PHY port, no error | violates `CurrentSpeed` |
| `rootfs_fatal` | 1 update, 1 power cut | violates `DevOnRootfs` |
| `sja_abort` | 1 switch, 1 user | violates `AbortsCleanly` |

*Bounds.* Two faults let a second one hit the recovery from the first; two updates
let an update follow a rejected or a half-applied one. Three frames in one register
cover "own, earlier, still earlier"; a clock of two laps lets every stamp be read in
its own lap or the next; two link changes let the port be down or up when a caller
prepares, waits and is served. Packets differ only in when they ask, so two are enough for an
order between them. Three link changes on two ports cover a change during the poll
thread's pass and one after it on either side of `todo`. Two switches and two users
are what it takes for a minor number to lead to the wrong one and for a last put to
meet another get; `MaxProbes` 2 lets a failed probe be followed by a good one, or two switches be
bound at once. A word of 16 with INT_MAX 7 and a buffer of 4 has the order of the real
sizes (buffer < int < word), and the lengths are on both sides of each; three
transfers let a sum wrap and go on. Two shells are one that waits and one that is scheduled
beside it, or two watchers; three ids are DomD, DomF, and one of them again.

*Excuses.* `ConfiguredSpeed` excuses a configuration that was replaced between two
polls, a write that failed (the driver warns and never retries), and a handler that
ran while the poll thread, past its port, had yet to set `switch_confd`: the last one
is the disagreement that `sja_race` shows. `TriedOnce` excuses a power cut between the two
unlinks of `clear_update_part_flags`, after which the rejected update is tried once
more. `IncompleteIsKnown` excuses errors of the incremental copy: nobody tests them, so
the script reports success, drops `do_apply` and runs a mixture. `RemoveEnds` excuses a
thread that died in `find_by_spi` with minor_lock held. `FoundMinorStays` excuses a number that was
found by the pointer a failed probe left in the table: the next probe gets that slot, and the
number then leads to its device. `StartedWhenReady` promises nothing for
a DomD that has been replaced, `RequestHeard` nothing once the watcher was killed or DomF has
another id.

*Fairness.* `SlotBoot`: U-Boot runs its commands to their end, and a dead board is
restarted by somebody; nothing is assumed of the update manager. `SjaDriver`: the poll
thread keeps running (a kernel thread with a jiffy's sleep); nothing else.
`RootfsUpdate`: the script runs to its end and power returns; systemd starts
aos-reboot after the update manager failed. `AcceptedIsApplied` also has as its
hypothesis that the domain keeps being started, since nothing in the code restarts one
that runs. `SjaLifecycle`: a probe and a remove that have begun go on, and the poll thread
runs; no user has to put. `GuestLifecycle`: the shells of Dom0 run on, one at a time or all; no
domain has to start, end or ask. `SpiMessage` has no liveness and no fairness.

*Disagreements found.*
1. `do_poll` forgets the packets it took when the transfer fails, although the
   comment at `switch-spi.c:171` promises the callback "all list_entries".
2. A link that comes up while the switch becomes configured may be left unconfigured
   for good (`switch-spi.c:1193` against 319; comment at 307).
3. A power cut while a full update is copied makes every later start fatal
   (`finish:183`), although the flag to resume is set.
4. An operation on an open device that has passed its test goes on with a NULL device
   when remove comes in between (`switch-spi.c:654`), although remove's comment at 1530
   says "make sure ops on existing fds can abort cleanly".

## 5. Proofs

`SlotBoot_proofs`: the inductive invariant `IInv` has the type invariant and three
parts: `EnvInv` (the variables in RAM never have both flags clear), `FileInv` (nor has a
readable file, and the flag of a slot tried on record and not marked good is clear
in it), and `SlotInv` (what `slot`, `env` and `order` are worth at each step of a boot).
`NeverShutOut` alone is not inductive: the file is written from RAM, and the update
manager only sets flags. From `IInv` follow `TypeCorrect`, `NotShutOut`, and the action
properties `TriesAlternate` (`NoSecondTry`) and `RunningSlotSafe`
(`RunningSlotUntouched`), for any number of faults and updates. `Implements` is the step
simulation `SlotBoot` => `Failover`: `SlotInv` gives that the slot about to start is
not the suspect, and that what the update manager believes is the other slot is.
`LosesOneBoot` (`OneLostBoot`) needs more than the flags, `BootInv`: the order in which the
slots are still to be tried (`OrderInv`), that only a good slot is marked good
(`GoodInv`), and that as long as a lost boot counts, the slot that lost it has no flag and
the good one is still ahead in the order (`LostInv`).

`SjaClock_proofs`: `RecreateExact` says that from the low bits of a time t and a clock
value c with t <= c < t + Wrap the driver computes the time exactly, for every Wrap. It
rests on `Laps`: the laps of two such times are the same or neighbours. What a stamp
that is read later becomes, which no run of `SjaDriver` shows because `PolledInTime` excludes
it, is `RecreateLate`: the time is off by whole laps, and is the last such time
not after the clock. Hence `RecreateInTime`: reading within a lap is not only enough but
needed.

`RootfsUpdate_proofs`: `WipedForFullOnly`, `IncompleteIsKnown` and the others are about the
partition, but what a start does to it hangs on flags that earlier starts left. `IInv`
says which flags exist at each point of the script (`ScriptInv`), that what runs from
an image still has its do_update flag and no failed flag (`RootInv`: `DropUpdate` cannot
happen then), that do_apply stands for an accepted image whose type is known
(`AcceptedInv`), that the copy ends with a whole partition (`WholeInv`), and that a tried
image with its do_update flag is marked (`TriedInv`: why `NotTriedAgain` holds). Proved
for any number of updates and faults. What the proofs need of the update manager is
in the guards of `StageUpdate`, `AcceptUpdate` and `DropUpdate`. With `KeptInv` (what is
marked for the partition ran well, and the flag goes only after the copy) follow
`AcceptedNotLost`, that every accepted update is on the partition or still has its image and
its flag, the safety half of `AcceptedIsApplied`; and `NeverDowngraded`, that
the partition's version only grows, and only to that of an image that ran well.
`AcceptedNotLost` excuses `lostCopy`, the incremental copy whose errors nobody tests.
`Implements` is the step simulation `RootfsUpdate` => `StagedUpdate`. It needs `TrialInv`, that
the updated flag is there from the mark until the update is dropped (so that an accepted
and installed image, which loses do_apply only, counts as tried and not as new), and
`KeptInv` for the version an offer has to exceed and for what is installed when do_apply goes.
That only an accepted update reaches the partition is part of `StagedUpdate` (`Replace`,
`Install`); as an invariant about the versions it is `OnlyAcceptedApplied`.

`SjaDriver_proofs`: `StampInv` carries a stamp from its register, through the transfer,
to the clock value it is paired with, always less than one lap older; at `PollComplete`
that is the hypothesis of `RecreateExact`, so `ExactTimestamps` holds for every Wrap and
any number of registers. `CountInv` puts every prepared frame in at most one place,
which bounds the completions. `ListInv` says that the list and the poll's copy of it are
disjoint, hold waiting packets only, and that those on the copy asked before the clock
was read; `FreshClkval` and `NotAnsweredTwice` follow. The types and these facts are one
invariant because each needs the other (a timestamp is a natural number only because it
is exact). The assumption about time is the guard of `Tick` (`PolledInTime`).

`PortsAtLinkSpeed` (`ConfiguredSpeed`) rests on `SpeedInv`, which is about the poll thread in
the middle of its pass: the ports it is past are served (`ServedInv`), the one it
writes has the speed of its link unless the handler has it in hand (`CurInv`), and the flag
`switch_confd` is not set for a switch that was seen down (`ConfdInv`). `OwnTimestamp`
(`TimestampOwn`) rests on `OwnInv`: wherever a stamp of a register is (sent, in the register,
read, announced), it is the waiter's own, unless an earlier frame's was outstanding when
it prepared. `OnlyErrorsForget` and `OnlyErrorsLose` say what the driver does not lose while
no transfer fails: a waiting packet is on the list or with the poll under way, with its
callback, and a waiting caller's stamp is outstanding or announced. The first is the safety
half of `ClkvalAnswered`; without its hypothesis it is what `sja_forgotten` refutes.

`SjaLifecycle_proofs`: the core of the invariant is `CountInv`, that an instance's `users` is
the number of those who hold it plus one for its poll thread's use: a cardinality
that each get, put and remove changes by one on both sides. From it the last one
knows that it is the last (`NotUsedFreed`, `NotLeaked`). Around it: a device that is not
unbound owns an instance of its own that is live; the table's slots below `sja_count` lead to
different instances with that number; the thread and the handler run only in the steps
between their start and their end (`ThreadsSafe`). `CoreInv` holds always, `SafeInv` as long as
minor_lock was not unlocked by a probe that does not hold it. Proved for any number of
devices, users, slots and probes. `EndsInv` adds who ends a wait: `RemoveWaitsForSome`
says that minor_lock is held by a probe that will let it go or by a thread that died with it,
and that `kthread_stop` waits for a thread that was started, the safety half of
`RemoveEnds`. `FreedOnce` is the action property that no step changes a field of an instance that
remove, the last put or its own failing probe has freed, with one exception that is part of its
statement: the user count of a failed probe's instance, which `sja1105_spi_get` (978-981) and the
put that follows write through the pointer that stayed. `NoUseAfterFree` says who holds a
freed instance, this that the code does not touch it all the same. `FoundStays`
(`FoundMinorStays`) rests on `FoundInv`: a number found by way of an instance whose probe has not failed is below
`sja_count` and leads to that instance or to none; the only slot a step fills is
`sja_count` itself.

`SpiMessage_proofs`: the totals cannot have wrapped as long as every pass has tested both
the sum and the length (`total = sum`), so the pointers are the totals and stay below
the buffer's size; the second loop is at the pointer the first was at for the same transfer.
Proved for every word, buffer and set of lengths, with `WordMod = 2 * (IntMax + 1)`.

`GuestLifecycle_proofs`: the pipe is only made by a script that goes on to wait at it, and
whoever leaves the states in which it is held removes it (`PipeRemoved`). `NoWakeUpLost` is
the safety half of `StartedWhenReady` and `RequestHeard`: a shell that sleeps on the bridge
or on DomF's request although it is there has an event in its pipe. It needs that no
domain has two watchers, which holds because only one `mkfifo` of a name succeeds and
nobody removes that pipe (`WakeInv`).

Only model-checked: liveness, which is out of the prover's reach (`RolledBack`,
`AcceptedIsApplied`, `ClkvalAnswered`, `ConfigurationSeen`, `RemoveEnds`, `StartedWhenReady`,
`RequestHeard`, `DomfWatched`, SlotBoot's `GoodSlotRuns`). For five of them the safety half, that
what is waited for is not lost, is proved as said above; that it then comes is the run's.
The theorems without a run's property were each checked with TLC before they were proved, as
an invariant or action property on the constants of the module's run (those of `SjaClock`
on all times up to 20 with `Wrap` 3).

## 6. Not modelled

The contents of the driver's own SPI messages and of the management route,
`mac_config`, DMA; module init and exit; `guest_domd` beyond what others see of it; systemd's
start limit as a clock; the SD card layout; the update bundle recipe; external programs beyond
their use of shared files. `PROJECT.json` gives the reason for each, and the
hazards without a property say what is still open.
