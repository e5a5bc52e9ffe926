\* One link comes up while the poll thread handles the switch becoming
\* configured; no transfer fails.
SPECIFICATION Spec
CONSTANTS
  Ports = {p1}
  PhyPorts = {p1}
  TsRegs = {}
  Packets = {}
  Speeds = {1, 2}
  Wrap = 1
  MaxClock = 0
  MaxFrames = 0
  MaxLinkChanges = 2
  MaxUploads = 1
  MaxErrors = 0
INVARIANTS
  CurrentSpeed
