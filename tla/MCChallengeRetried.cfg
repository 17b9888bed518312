SPECIFICATION RunSpec
CONSTANTS
  Jobs = {j1}
  Strangers = {}
  Workflow <- MCRequest
  Sources = 1
  Contents = {c1}
  Patience = 1
  MaxAttempts = 2
  MaxCodes = 0
  Null = Null
INVARIANT ChallengeIsNotRetried
CHECK_DEADLOCK FALSE
