\* A packet's clock value is asked for and the one transfer fails.
SPECIFICATION Spec
CONSTANTS
  Ports = {p1}
  PhyPorts = {}
  TsRegs = {}
  Packets = {k1}
  Speeds = {1}
  Wrap = 3
  MaxClock = 1
  MaxFrames = 0
  MaxLinkChanges = 0
  MaxUploads = 0
  MaxErrors = 1
INVARIANTS
  NoEntryForgotten
