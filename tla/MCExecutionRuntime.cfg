SPECIFICATION FairSpec
CONSTANTS
  Jobs = {j1}
  Workflow <- MCWorkflow
  MaxRetries = 2
  Contracts = {"NONE", "PLAIN", "IDEMPOTENT"}
  MaxRestarts = 2
  MaxRequests = 2
INVARIANTS
  TypeOK
  RetryBudget
  TerminalOnlyAfterAck
  DeliveredCanTerminalize
  NoWorkAfterResult
  CompletedStepsNotReplayed
PROPERTIES
  NoAutoResume
  ResultLifecycle
  TasksEnd
  BootEnds
CHECK_DEADLOCK FALSE
