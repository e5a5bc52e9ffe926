\* One full update and one power cut.
SPECIFICATION Spec
CONSTANTS
  MaxUpdates = 1
  MaxFaults = 1
INVARIANTS
  DevOnRootfs
