SPECIFICATION Spec
CONSTANTS
  Jobs = {j1}
  Workflow <- MCWorkflow
  MaxRetries = 1
  Contracts = {"PLAIN"}
  MaxRestarts = 0
  MaxRequests = 2
INVARIANT ShutdownIsNotAFailure
CHECK_DEADLOCK FALSE
