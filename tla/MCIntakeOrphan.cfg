SPECIFICATION IntakeSpec
CONSTANTS
  Proxies = {p1, p2}
  Endpoints = {e1}
  Jobs = {j1}
  AllocationIds = {a1}
  ReservationIds = {r1}
  NoRow = NoRow
  NoJob = NoJob
  MaxConcurrent = 1
  JobsPerCycle = 1
  MaxCrashes = 1
INVARIANT OrphansAreRecovered
CHECK_DEADLOCK FALSE
