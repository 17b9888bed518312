-------------------------- MODULE ExecutionAttempt --------------------------
(***************************************************************************)
(* One execution of a job: IntakeExecutionHandler starts it,               *)
(* ExecutionWorker activates the address, opens the session and runs the   *)
(* workflow, RetryingExecutionRunner classifies failures and schedules     *)
(* bounded retries on the same address.                                    *)
(***************************************************************************)
EXTENDS ExecutionState

\* handleCycleResult and runManaged, for all the jobs of a cycle.
Admit ==
  /\ phase = "UP" /\ EventLoop
  /\ handedOff # {}
  /\ handedOff' = {}
  /\ pc' = [j \in Jobs |-> IF j \in handedOff /\ ~stopped THEN "run" ELSE pc[j]]
  /\ UNCHANGED << durableVars, done, error, phase, contract, stopped, unrecovered, plan,
                  portalVars, historyVars >>

\* An error leaves the worker and reaches handleFailure.
Throw(j, e) ==
  /\ GoTo(j, "classify")
  /\ error' = [error EXCEPT ![j] = e]

\* Mutant: a retry runs on the allocation as the failure parked it.
RunAttempt_NotActivated(j) ==
  /\ At(j, "run")
  /\ GoTo(j, "activated")
  /\ UNCHANGED << durableVars, done, error, processVars, portalVars, historyVars >>

\* run, up to activateForJob.
RunAttempt(j) ==
  /\ At(j, "run")
  /\ IF jobState[j] \in { "WAITING_FOR_IP", "RETRY_PENDING" } /\ HasLiveIp(j)
       THEN /\ ip' = [ip EXCEPT ![j] = "ACTIVE"]
            /\ GoTo(j, "activated")
            /\ UNCHANGED error
       ELSE Throw(j, "FATAL") /\ UNCHANGED ip
  /\ UNCHANGED << jobState, retryCount, currentStep, result, done, processVars,
                  portalVars, historyVars >>

StartRunning(j) ==
  /\ At(j, "activated")
  /\ Transition(j, "RUNNING")
  /\ GoTo(j, "session")
  /\ UNCHANGED << retryCount, currentStep, ip, result, done, error, processVars,
                  portalVars, historyVars >>

\* Mutant: assertNotAborted is not called between two steps.
Continue_IgnoresAbort(j, n) ==
  /\ done' = [done EXCEPT ![j] = n]
  /\ IF n = Len(Workflow)
       THEN GoTo(j, "capture") /\ error' = [error EXCEPT ![j] = "NONE"]
       ELSE GoTo(j, "step") /\ UNCHANGED error

\* WorkflowEngine.execute when the first n steps have their responses: it is
\* complete, or an abort is noticed, or the request of the next step is sent.
Continue(j, n) ==
  /\ done' = [done EXCEPT ![j] = n]
  /\ IF n = Len(Workflow)
       THEN GoTo(j, "capture") /\ error' = [error EXCEPT ![j] = "NONE"]
     ELSE IF stopped
       THEN Throw(j, "CANCELLED")
     ELSE GoTo(j, "step") /\ UNCHANGED error

\* Mutant: a retry builds a new JobContext and forgets the completed steps.
OpenSession_FreshContext(j) ==
  /\ At(j, "session")
  /\ Continue(j, 0)
  /\ UNCHANGED << durableVars, processVars, portalVars, historyVars >>

\* createForJob resolves: a retry finds its JobContext, a first run gets one.
OpenSession(j) ==
  /\ At(j, "session")
  /\ Continue(j, IF done[j] = NoContext THEN 0 ELSE done[j])
  /\ UNCHANGED << durableVars, processVars, portalVars, historyVars >>

SessionFails(j) ==
  /\ At(j, "session")
  /\ \E e \in { "RETRYABLE", "FATAL" } : Throw(j, e)
  /\ UNCHANGED << durableVars, done, processVars, portalVars, historyVars >>

StepSucceeds(j) ==
  /\ At(j, "step")
  /\ answers' = [answers EXCEPT ![j][done[j] + 1] = @ + 1]
  /\ Continue(j, done[j] + 1)
  /\ UNCHANGED << durableVars, processVars, portalVars, interrupted, restarts >>

StepFails(j) ==
  /\ At(j, "step")
  /\ \E e \in { "RETRYABLE", "FATAL" } : Throw(j, e)
  /\ UNCHANGED << durableVars, done, processVars, portalVars, historyVars >>

\* Mutant: the worker rethrows a challenge without the transition.
StepIsChallenged_NotParked(j) ==
  /\ At(j, "step")
  /\ Throw(j, "CHALLENGE")
  /\ UNCHANGED << durableVars, done, processVars, portalVars, historyVars >>

\* The worker parks the job before it rethrows, unless it is being aborted.
StepIsChallenged(j) ==
  /\ At(j, "step")
  /\ Throw(j, "CHALLENGE")
  /\ IF ~stopped /\ jobState[j] = "RUNNING"
       THEN /\ Transition(j, "WAITING_FOR_MANUAL_CHALLENGE")
            /\ currentStep' = [currentStep EXCEPT ![j] = done[j] + 1]
       ELSE UNCHANGED << jobState, currentStep >>
  /\ UNCHANGED << retryCount, ip, result, done, processVars, portalVars, historyVars >>

\* The signal is looked at between two polls of the OTP source and between two
\* documents; a request that is out is never cut off.
StepIsAborted(j) ==
  /\ At(j, "step")
  /\ stopped /\ Workflow[done[j] + 1] \in { "otp", "upload" }
  /\ Throw(j, "CANCELLED")
  /\ UNCHANGED << durableVars, done, processVars, portalVars, historyVars >>

------------------------------------------------------------------------------
(* RetryingExecutionRunner.handleFailure.                                   *)

\* Mutant: the budget is compared with the wrong relation.
Retryable_OneMore(j) == error[j] = "RETRYABLE" /\ retryCount[j] <= MaxRetries

\* classifyRetry: RETRY.
Retryable(j) == error[j] = "RETRYABLE" /\ retryCount[j] < MaxRetries

\* classifyRetry: NON_RETRYABLE or EXHAUSTED.
Terminal(j) == error[j] # "CHALLENGE" /\ ~Retryable(j)

\* Mutant: the retry is scheduled before the budget is charged.
HandleFailure_Uncounted(j) ==
  /\ At(j, "classify")
  /\ GoTo(j, IF Retryable(j) THEN "counted"
             ELSE IF Terminal(j) THEN "capture" ELSE "idle")
  /\ UNCHANGED << durableVars, done, error, processVars, portalVars, historyVars >>

\* A challenge, and a retryable failure of a job in an unexpected state, are
\* rethrown to the handler.
HandleFailure(j) ==
  /\ At(j, "classify")
  /\ \/ /\ Retryable(j) /\ jobState[j] = "RUNNING"
        /\ retryCount' = [retryCount EXCEPT ![j] = @ + 1]
        /\ GoTo(j, "counted")
     \/ /\ Terminal(j)
        /\ GoTo(j, "capture")
        /\ UNCHANGED retryCount
     \/ /\ ~Terminal(j) /\ ~(Retryable(j) /\ jobState[j] = "RUNNING")
        /\ GoTo(j, "idle")
        /\ UNCHANGED retryCount
  /\ UNCHANGED << jobState, currentStep, ip, result, done, error, processVars,
                  portalVars, historyVars >>

\* Mutant: the address is given back between two attempts.
KeepIp_Releases(j) ==
  /\ At(j, "counted")
  /\ ip' = [ip EXCEPT ![j] = "RELEASED"]
  /\ GoTo(j, "kept")
  /\ UNCHANGED << jobState, retryCount, currentStep, result, done, error, processVars,
                  portalVars, historyVars >>

\* markRetryReserved.
KeepIp(j) ==
  /\ At(j, "counted")
  /\ HasLiveIp(j)
  /\ ip' = [ip EXCEPT ![j] = "RETRY_RESERVED"]
  /\ GoTo(j, "kept")
  /\ UNCHANGED << jobState, retryCount, currentStep, result, done, error, processVars,
                  portalVars, historyVars >>

\* RETRY_PENDING, then the delay, which an abort that already happened rejects.
ScheduleRetry(j) ==
  /\ At(j, "kept")
  /\ Transition(j, "RETRY_PENDING")
  /\ GoTo(j, IF stopped THEN "idle" ELSE "sleeping")
  /\ UNCHANGED << retryCount, currentStep, ip, result, done, error, processVars,
                  portalVars, historyVars >>

\* The timer fires, or the abort event clears it and rejects the sleep.
Wake(j) ==
  /\ At(j, "sleeping")
  /\ GoTo(j, IF stopped THEN "idle" ELSE "run")
  /\ UNCHANGED << durableVars, done, error, processVars, portalVars, historyVars >>

------------------------------------------------------------------------------
(* The operator and the shutdown.                                           *)

\* ManualChallengeOperations.resume and the handler's resumeManualChallenge.
RequestResume(j) ==
  /\ phase = "UP" /\ EventLoop /\ ~stopped
  /\ pc[j] = "idle"
  /\ jobState[j] = "WAITING_FOR_MANUAL_CHALLENGE" /\ HasLiveIp(j)
  /\ wire[j] + applied[j] < MaxRequests
  /\ GoTo(j, "resume")
  /\ UNCHANGED << durableVars, done, error, processVars, portalVars, historyVars >>

\* Mutant: a resume without a JobContext builds a fresh one.
ResumeManualChallenge_FreshContext(j) ==
  /\ At(j, "resume")
  /\ Transition(j, "RUNNING")
  /\ Continue(j, IF done[j] = NoContext THEN 0 ELSE done[j])
  /\ UNCHANGED << retryCount, currentStep, ip, result, processVars, portalVars, historyVars >>

\* ExecutionWorker.resumeManualChallenge.
ResumeManualChallenge(j) ==
  /\ At(j, "resume")
  /\ IF done[j] = NoContext
       THEN /\ Throw(j, "NO_CONTEXT")
            /\ UNCHANGED << jobState, done >>
       ELSE /\ Transition(j, "RUNNING")
            /\ Continue(j, done[j])
  /\ UNCHANGED << retryCount, currentStep, ip, result, processVars, portalVars, historyVars >>

\* IntakeExecutionHandler.stop aborts every signal.
Stop ==
  /\ phase = "UP" /\ EventLoop
  /\ ~stopped
  /\ stopped' = TRUE
  /\ UNCHANGED << durableVars, taskVars, phase, contract, handedOff, unrecovered, plan,
                  portalVars, historyVars >>
=============================================================================
