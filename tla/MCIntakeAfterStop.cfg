SPECIFICATION ProcessSpec
CONSTANTS
  Jobs = {j1}
  Proxies = {p1}
PROPERTY NoIntakeAfterShutdown
CHECK_DEADLOCK FALSE
