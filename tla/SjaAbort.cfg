\* One switch is removed while one user's operation is under way.
\* The system may stop: a driver that was unloaded, a thread that died.
SPECIFICATION Spec
CONSTANTS
  Devs = {d1}
  Users = {u1}
  MaxChardevs = 1
  MaxProbes = 1
  NoDev = nodev
  Free = free
CHECK_DEADLOCK FALSE
INVARIANTS
  AbortsCleanly
