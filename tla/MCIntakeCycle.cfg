SPECIFICATION IntakeSpec
CONSTANTS
  Proxies = {p1, p2}
  Endpoints = {e1}
  Jobs = {j1, j2}
  AllocationIds = {a1, a2}
  ReservationIds = {r1, r2, r3}
  NoRow = NoRow
  NoJob = NoJob
  MaxConcurrent = 2
  JobsPerCycle = 2
  MaxCrashes = 1
SYMMETRY Symmetry
INVARIANTS
  IntakeTypeOK
  ConsumesOnlyWithIp
  BatchIsReady
  HandedOffOnce
  OneOrphanPerProcess
PROPERTIES
  NothingStartedAfterStop
  ExclusiveOwnership
CHECK_DEADLOCK FALSE
