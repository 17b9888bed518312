SPECIFICATION Spec
CONSTANTS
  Jobs = {j1}
  Workflow <- MCWorkflow
  MaxRetries = 1
  Contracts = {"PLAIN"}
  MaxRestarts = 1
  MaxRequests = 2
INVARIANT InterruptedUploadIsBlocked
CHECK_DEADLOCK FALSE
