SPECIFICATION Spec
CONSTANTS
  Proxies = {p1, p2}
  Endpoints = {e1}
  Jobs = {j1, j2}
  AllocationIds = {a1, a2}
  ReservationIds = {r1, r2}
  NoRow = NoRow
  MaxConcurrent = 2
SYMMETRY Symmetry
INVARIANTS
  TypeOK
  OneIpPerJob
  OneHolderPerProxy
  StatusAgreement
  AvailableIsUsable
CHECK_DEADLOCK FALSE
