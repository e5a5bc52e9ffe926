\* Two updates; two faults (power cuts, failing mounts or copies).
SPECIFICATION Spec
CONSTANTS
  MaxUpdates = 2
  MaxFaults = 2
INVARIANTS
  TypeOK
  WipedForFullOnly
  IncompleteIsKnown
PROPERTIES
  TriedOnce
  RolledBack
  AcceptedIsApplied
  ImplementsStaged
