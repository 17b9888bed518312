SPECIFICATION FairProcessSpec
CONSTANTS
  Jobs = {j1, j2}
  Proxies = {p1, p2}
INVARIANTS
  IntakeOnlyWhenReady
  DatabaseOutlivesWork
  RequestsOnOpenSession
  NothingLeftOpen
PROPERTY ShutdownEnds
\* The process ends.
CHECK_DEADLOCK FALSE
