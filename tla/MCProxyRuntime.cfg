SPECIFICATION RuntimeSpec
CONSTANTS
  Proxies = {p1, p2}
  Endpoints = {e1, e2}
  Jobs = {j1, j2}
  AllocationIds = {a1, a2}
  ReservationIds = {r1, r2}
  NoRow = NoRow
  MaxConcurrent = 1
SYMMETRY Symmetry
INVARIANTS
  EndpointAgreement
  SlotsWithinCapacity
PROPERTY HeldUntilTerminal
CHECK_DEADLOCK FALSE
