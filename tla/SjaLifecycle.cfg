\* Two switches, two users, two probes; the table has two slots.
\* The system may stop: a driver that was unloaded, a thread that died.
SPECIFICATION Spec
CONSTANTS
  Devs = {d1, d2}
  Users = {u1, u2}
  MaxChardevs = 2
  MaxProbes = 2
  NoDev = nodev
  Free = free
CHECK_DEADLOCK FALSE
INVARIANTS
  TypeOK
  NoUseAfterFree
  NoLeak
  DriverThreadsSafe
  TableLive
  FoundMinorStays
  PhyBalanced
PROPERTIES
  RemoveEnds
