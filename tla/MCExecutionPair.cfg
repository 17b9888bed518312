SPECIFICATION Spec
CONSTANTS
  Jobs = {j1, j2}
  Workflow <- MCShortWorkflow
  MaxRetries = 1
  Contracts = {"PLAIN"}
  MaxRestarts = 1
  MaxRequests = 2
INVARIANTS
  IpHeldUntilTerminal
  RunsOnActiveIp
  NoBlindReplay
  NoAbandonedJob
PROPERTY NoStepAfterStop
SYMMETRY Symmetry
CHECK_DEADLOCK FALSE
