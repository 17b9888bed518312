SPECIFICATION FairRunSpec
CONSTANTS
  Jobs = {j1}
  Strangers = {s1}
  Workflow <- MCWorkflow
  Sources = 2
  Contents = {c1, c2, c3}
  Patience = 2
  MaxAttempts = 3
  MaxCodes = 2
  Null = Null
INVARIANTS
  RunTypeOK
  OwnFreshCode
  NothingRepeated
  ResumeAccepted
PROPERTY ExecutionEnds
\* A job may be over.
CHECK_DEADLOCK FALSE
