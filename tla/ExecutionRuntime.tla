-------------------------- MODULE ExecutionRuntime --------------------------
(***************************************************************************)
(* The execution of the jobs of one intake cycle, from the hand-off to the *)
(* release of the address, across aborts and restarts of the process:      *)
(* ExecutionAttempt, ResultDelivery and RestartRecovery over one state.    *)
(***************************************************************************)
EXTENDS ExecutionAttempt, ResultDelivery, RestartRecovery

Attempt(j) ==
  \/ RunAttempt(j) \/ StartRunning(j)
  \/ OpenSession(j) \/ SessionFails(j)
  \/ StepSucceeds(j) \/ StepFails(j) \/ StepIsChallenged(j) \/ StepIsAborted(j)
  \/ HandleFailure(j) \/ KeepIp(j) \/ ScheduleRetry(j) \/ Wake(j)
  \/ ResumeManualChallenge(j)

Delivery(j) ==
  \/ Capture(j)
  \/ RefuseDelivery(j) \/ Requeue(j) \/ BeginDelivery(j)
  \/ Send(j) \/ IsNotSent(j)
  \/ IsRejected(j) \/ IsUncertain(j) \/ IsAcknowledged(j)
  \/ Terminalize(j) \/ Release(j)

Recovery(j) ==
  \/ RecoverFinalResult(j) \/ RecoverManualChallenge(j) \/ RecoverParkedJob(j)
  \/ RecoverInterruptedExecution(j) \/ CountInterruption(j) \/ ScheduleInterrupted(j)
  \/ RecoverPreExecution(j)
  \/ Redeliver(j)

\* What the process does on its own once started.
Task(j) == Attempt(j) \/ Delivery(j) \/ Recovery(j)

Next ==
  \/ Admit \/ Stop \/ ProcessRestart \/ BeginRedelivery \/ BootCompletes
  \/ \E j \in Jobs : Task(j) \/ RequestResume(j) \/ PortalApplies(j)

Spec == Init /\ [][Next]_vars

\* Every wait of a task ends (requests and sessions have timeouts, the retry
\* delay is a timer) and the event loop serves events in their order, so a task
\* that is ready again and again gets its turn however busy others keep the
\* thread: strong fairness.  Operators, the Portal, signals and crashes promise
\* nothing.
Fairness ==
  /\ WF_vars(Admit) /\ WF_vars(BeginRedelivery) /\ WF_vars(BootCompletes)
  /\ \A j \in Jobs : SF_vars(Task(j))

FairSpec == Spec /\ Fairness

------------------------------------------------------------------------------
(* The retry budget and the address.                                        *)

\* No interleaving of failures, aborts, resumes and restarts spends more than
\* the retry budget: handleFailure and recoverAll both count, in transactions of
\* their own.
RetryBudget == \A j \in Jobs : retryCount[j] <= MaxRetries

\* A job keeps its address until it is terminal, whatever fails or restarts
\* in between (finalizeDeliveredRecord transitions first, then releases).
IpHeldUntilTerminal ==
  \A j \in Jobs : ip[j] = "RELEASED" => IsTerminal(jobState[j])

\* The allocation of a job that executes is the one activated for it: a
\* recovery or a retry parks it, and only a new attempt wakes it.
RunsOnActiveIp ==
  \A j \in Jobs :
    pc[j] \in { "activated", "session", "step" } => ip[j] = "ACTIVE"

------------------------------------------------------------------------------
(* The final result.                                                        *)

\* The job is terminal only when the Portal applied a result, acknowledged
\* it, and the terminal state is the one of the captured outcome.
TerminalOnlyAfterAck ==
  \A j \in Jobs :
    IsTerminal(jobState[j]) =>
      /\ applied[j] > 0
      /\ result[j].status = "DELIVERED"
      /\ jobState[j] = TerminalState(result[j].outcome)

\* Whatever the Portal acknowledged can be recorded: from every state in which
\* a delivered result finds a job, the state machine allows its terminal state.
\* recoverAll would otherwise throw on every boot.
DeliveredCanTerminalize ==
  \A j \in Jobs :
    result[j].status = "DELIVERED" =>
      LET to == TerminalState(result[j].outcome)
      IN jobState[j] = to \/ CanTransition(jobState[j], to)

\* A job whose outcome is captured never runs another workflow step, retry or
\* resume: a failed delivery replays the delivery only.
NoWorkAfterResult ==
  \A j \in Jobs :
    result[j] # NoResult =>
      pc[j] \notin { "run", "activated", "session", "step", "counted", "kept", "sleeping" }

\* While the Portal contract stays what it is, a request is sent only when no
\* earlier one was or may yet be applied, unless replay is idempotent.
NoBlindReplay ==
  \A j \in Jobs : pc[j] = "begun" => wire[j] + applied[j] = 0 \/ contract = "IDEMPOTENT"

------------------------------------------------------------------------------
(* The workflow.                                                            *)

\* No step that succeeded is repeated: retries and resumes skip the responses
\* the JobContext holds, and no attempt starts without it after a restart.
CompletedStepsNotReplayed ==
  \A j \in Jobs, k \in Steps : answers[j][k] <= 1

\* A job at a manual challenge runs again only when the operator resumes it in
\* the process that still holds its JobContext: no retry, recovery, redelivery or
\* boot takes it on.  (It may end as FAILED_FINAL: a resume without JobContext is
\* captured as a FAILURE, against finalizing-execution-runner.js:222-232.)
NoAutoResume ==
  [][\A j \in Jobs :
       /\ jobState[j] = "WAITING_FOR_MANUAL_CHALLENGE"
       /\ jobState'[j] \notin { "WAITING_FOR_MANUAL_CHALLENGE", "FAILED_FINAL" }
       => jobState'[j] = "RUNNING" /\ pc[j] = "resume" /\ done[j] # NoContext]_vars

\* After stop() no further request of a workflow is sent: attempts in any
\* await finish the request they have out, or less.
NoStepAfterStop ==
  [][\A j \in Jobs :
       stopped /\ pc'[j] = "step" => pc[j] = "step" /\ done'[j] = done[j]]_vars

\* A captured outcome never changes, and an acknowledged delivery is final.
ResultIsFinal ==
  [][\A j \in Jobs :
       /\ result[j] # NoResult => result'[j].outcome = result[j].outcome
       /\ result[j].status = "DELIVERED" => result'[j] = result[j]]_vars

\* The refinement: how far the result of a job is, from the durable state and
\* the Portal's alone, so that a restart does not show.
StageOf(j) ==
  IF ip[j] = "RELEASED" THEN "released"
  ELSE IF IsTerminal(jobState[j]) THEN "terminal"
  ELSE IF result[j].status = "DELIVERED" THEN "acknowledged"
  ELSE IF applied[j] > 0 THEN "applied"
  ELSE IF result[j] # NoResult THEN "captured"
  ELSE "working"

EndingOf(j) == IF IsTerminal(jobState[j]) THEN jobState[j] ELSE "NONE"

Final == INSTANCE FinalResult
           WITH stage <- [j \in Jobs |-> StageOf(j)],
                outcome <- [j \in Jobs |-> result[j].outcome],
                ending <- [j \in Jobs |-> EndingOf(j)]

\* Through failures, retries, lost answers and restarts a result passes through
\* its stages in their order, each once: no outcome is captured twice, no job
\* ends without an acknowledgement, no address goes before the job has ended.
ResultLifecycle == Final!Spec

------------------------------------------------------------------------------
(* Liveness, and where executions end.                                      *)

\* Without a stop or a restart, an execution that is over left its job terminal,
\* at an operator, or with a captured result: nobody else would look at it.
NoAbandonedJob ==
  \A j \in Jobs :
    phase = "UP" /\ ~stopped /\ restarts = 0 /\ pc[j] = "idle" /\ j \notin handedOff =>
      \/ IsTerminal(jobState[j]) \/ result[j] # NoResult
      \/ jobState[j] = "WAITING_FOR_MANUAL_CHALLENGE"

\* Every task ends: retries are bounded, deliveries are not retried in a loop,
\* so the await of handleCycleResult, and of stop(), returns.
TasksEnd == \A j \in Jobs : pc[j] # "idle" ~> pc[j] = "idle"

\* A boot gets through recovery and redelivery, or is cut off by another.
BootEnds == phase # "UP" ~> phase = "UP"

------------------------------------------------------------------------------
(* What the repository says and the code does not do.                       *)

\* finalizing-execution-runner.js:222-232: shutdown errors are not guessed into
\* FAILED_FINAL.
ShutdownIsNotAFailure ==
  \A j \in Jobs : result[j].outcome = "FAILURE" => error[j] # "CANCELLED"

\* README.md:537: document upload crash points are not blindly replayed.
InterruptedUploadIsBlocked ==
  \A j \in Jobs :
    interrupted[j] # 0 /\ Workflow[interrupted[j]] = "upload" =>
      plan[j] # "RETRY_SCHEDULED"
=============================================================================
