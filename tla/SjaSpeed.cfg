\* Two ports with a PHY, three link changes, two configurations, one error.
SPECIFICATION Spec
CONSTANTS
  Ports = {p1, p2}
  PhyPorts = {p1, p2}
  TsRegs = {}
  Packets = {}
  Speeds = {1, 2}
  Wrap = 1
  MaxClock = 0
  MaxFrames = 0
  MaxLinkChanges = 3
  MaxUploads = 3
  MaxErrors = 1
INVARIANTS
  ConfiguredSpeed
PROPERTIES
  ConfigurationSeen
