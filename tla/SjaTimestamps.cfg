\* One register of one port whose link comes up and goes, three frames; the
\* clock runs over two laps of the register, one transfer fails.
SPECIFICATION Spec
CONSTANTS
  Ports = {p1}
  PhyPorts = {p1}
  TsRegs = {r0}
  Packets = {}
  Speeds = {1}
  Wrap = 3
  MaxClock = 6
  MaxFrames = 3
  MaxLinkChanges = 2
  MaxUploads = 0
  MaxErrors = 1
INVARIANTS
  TypeOK
  TimestampExact
PROPERTIES
  TimestampOwn
