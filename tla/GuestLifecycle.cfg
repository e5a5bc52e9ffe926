\* Two background shells at a time, three domain ids for DomD and DomF.
\* The board may go down: then nothing is left to do.
SPECIFICATION Spec
CONSTANTS
  Shells = {s1, s2}
  MaxIds = 3
CHECK_DEADLOCK FALSE
INVARIANTS
  TypeOK
  NoStalePipe
PROPERTIES
  StartedWhenReady
  RequestHeard
  DomfWatched
