\* Two packets ask for clock values; one transfer fails, the switch is
\* configured and polling switched on and off until then.
SPECIFICATION Spec
CONSTANTS
  Ports = {p1}
  PhyPorts = {}
  TsRegs = {}
  Packets = {k1, k2}
  Speeds = {1}
  Wrap = 3
  MaxClock = 3
  MaxFrames = 0
  MaxLinkChanges = 0
  MaxUploads = 1
  MaxErrors = 1
INVARIANTS
  ClkvalFresh
PROPERTIES
  AnsweredOnce
  ClkvalAnswered
