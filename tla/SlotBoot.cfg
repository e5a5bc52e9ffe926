\* Two faults (power cuts, torn or failing writes of uEnv.txt), two updates.
SPECIFICATION Spec
CONSTANTS
  MaxFaults = 2
  MaxInstalls = 2
INVARIANTS
  TypeOK
  NeverShutOut
  OneLostBoot
PROPERTIES
  NoSecondTry
  RunningSlotUntouched
  GoodSlotRuns
  ImplementsFailover
