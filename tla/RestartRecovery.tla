--------------------------- MODULE RestartRecovery --------------------------
(***************************************************************************)
(* The process ends, by a crash or a shutdown, and starts again:           *)
(* RecoveryService.recoverAll goes through the incomplete jobs and         *)
(* FinalResultRecoveryRunner resumes the deliveries it may.  The rows of   *)
(* job_recovery are written and never read; plan is what recoverAll hands  *)
(* to the runner.                                                          *)
(***************************************************************************)
EXTENDS ExecutionState

\* The process dies between two transactions, or exits, and boots again with
\* whatever Portal contract it is now configured with.
ProcessRestart ==
  /\ restarts < MaxRestarts
  /\ restarts' = restarts + 1
  /\ phase' = "BOOT"
  /\ contract' \in Contracts
  /\ stopped' = FALSE
  /\ pc' = [j \in Jobs |-> "idle"]
  /\ done' = [j \in Jobs |-> NoContext]
  /\ error' = [j \in Jobs |-> "NONE"]
  /\ handedOff' = {}
  /\ unrecovered' = { j \in Jobs : ~IsTerminal(jobState[j]) }  \* listIncompleteJobs
  /\ plan' = [j \in Jobs |-> "NONE"]
  /\ interrupted' = [j \in Jobs |-> IF pc[j] = "step" THEN done[j] + 1 ELSE 0]
  /\ UNCHANGED << durableVars, portalVars, answers >>

\* recoverAll takes up the next job.
Recovering(j) ==
  /\ phase = "BOOT"
  /\ \A i \in Jobs : pc[i] = "idle"
  /\ j \in unrecovered
  /\ unrecovered' = unrecovered \ {j}
  /\ UNCHANGED << done, error, phase, contract, stopped, handedOff, portalVars, historyVars >>

Planned(j, status) == plan' = [plan EXCEPT ![j] = status]

\* Mutant: an interrupted delivery is taken for one that never began.
RecoverFinalResult_AsPending(j) ==
  /\ Recovering(j)
  /\ result[j] # NoResult
  /\ result' = [result EXCEPT ![j].status = "PENDING"]
  /\ Planned(j, "FINAL_RESULT_PENDING")
  /\ UNCHANGED << jobState, retryCount, currentStep, ip, pc >>

\* recoverFinalResult comes before every other consideration.
RecoverFinalResult(j) ==
  /\ Recovering(j)
  /\ \/ /\ result[j].status \in { "IN_FLIGHT", "UNCERTAIN" }
        /\ result' = [result EXCEPT ![j].status = "UNCERTAIN", ![j].certainty = "UNCERTAIN"]
        /\ Planned(j, "FINAL_RESULT_UNCERTAIN")
        /\ UNCHANGED pc
     \/ /\ result[j].status = "PENDING"
        /\ Planned(j, "FINAL_RESULT_PENDING")
        /\ UNCHANGED << result, pc >>
     \/ /\ result[j].status = "DELIVERED"
        /\ Planned(j, "FINAL_RESULT_DELIVERED")
        /\ GoTo(j, "terminalize")
        /\ UNCHANGED result
  /\ UNCHANGED << jobState, retryCount, currentStep, ip >>

RecoverManualChallenge(j) ==
  /\ Recovering(j)
  /\ result[j] = NoResult /\ jobState[j] = "WAITING_FOR_MANUAL_CHALLENGE"
  /\ Planned(j, "WAITING_MANUAL")
  /\ UNCHANGED << durableVars, pc >>

\* isUnsafeDocumentReplay.
StoppedAtUpload(j) == currentStep[j] # 0 /\ Workflow[currentStep[j]] = "upload"

\* Mutant: recovery looks at the job's state and not at its final result.
Interrupted_IgnoresResult(j) == jobState[j] # "WAITING_FOR_MANUAL_CHALLENGE"

\* Neither a result nor an operator decides what becomes of the job.
Interrupted(j) ==
  result[j] = NoResult /\ jobState[j] # "WAITING_FOR_MANUAL_CHALLENGE"

\* preserveSameIpForRetry: markRetryReserved, on every path but WAITING_FOR_IP.
PreserveSameIp(j) ==
  IF HasLiveIp(j) THEN ip' = [ip EXCEPT ![j] = "RETRY_RESERVED"] ELSE UNCHANGED ip

\* recoverUnsafeDocumentStep and recoverRetryPending.
RecoverParkedJob(j) ==
  /\ Recovering(j)
  /\ Interrupted(j)
  /\ StoppedAtUpload(j) \/ jobState[j] = "RETRY_PENDING"
  /\ PreserveSameIp(j)
  /\ Planned(j, IF ~HasLiveIp(j) THEN "BLOCKED_SESSION_LOSS"
                ELSE IF StoppedAtUpload(j) THEN "BLOCKED_UNSAFE_REPLAY"
                ELSE "RETRY_SCHEDULED")
  /\ UNCHANGED << jobState, retryCount, currentStep, result, pc >>

\* recoverInterruptedExecution: the address is kept, ...
RecoverInterruptedExecution(j) ==
  /\ Recovering(j)
  /\ Interrupted(j)
  /\ ~StoppedAtUpload(j) /\ jobState[j] = "RUNNING"
  /\ PreserveSameIp(j)
  /\ IF HasLiveIp(j) /\ retryCount[j] < MaxRetries
       THEN GoTo(j, "recovery kept") /\ UNCHANGED plan
       ELSE /\ Planned(j, IF HasLiveIp(j) THEN "RETRY_EXHAUSTED" ELSE "BLOCKED_SESSION_LOSS")
            /\ UNCHANGED pc
  /\ UNCHANGED << jobState, retryCount, currentStep, result >>

\* ... the retry is counted, ...
CountInterruption(j) ==
  /\ At(j, "recovery kept")
  /\ retryCount' = [retryCount EXCEPT ![j] = @ + 1]
  /\ GoTo(j, "recovery counted")
  /\ UNCHANGED << jobState, currentStep, ip, result, done, error, processVars,
                  portalVars, historyVars >>

\* ... and the job waits for its retry.
ScheduleInterrupted(j) ==
  /\ At(j, "recovery counted")
  /\ Transition(j, "RETRY_PENDING")
  /\ Planned(j, "RETRY_SCHEDULED")
  /\ GoTo(j, "idle")
  /\ UNCHANGED << retryCount, currentStep, ip, result, done, error, phase, contract, stopped,
                  handedOff, unrecovered, portalVars, historyVars >>

\* recoverPreExecution.
RecoverPreExecution(j) ==
  /\ Recovering(j)
  /\ Interrupted(j)
  /\ ~StoppedAtUpload(j) /\ jobState[j] \in PreExecutionStates
  /\ UNCHANGED << durableVars, pc, plan >>

\* canAttempt.
CanAttempt(j) ==
  /\ contract # "NONE"
  /\ \/ plan[j] = "FINAL_RESULT_PENDING"
     \/ plan[j] = "FINAL_RESULT_UNCERTAIN" /\ contract = "IDEMPOTENT"

\* FinalResultRecoveryRunner.run awaits one resumeDelivery after the other.
BeginRedelivery ==
  /\ phase = "BOOT" /\ unrecovered = {}
  /\ \A j \in Jobs : pc[j] = "idle"
  /\ phase' = "REDELIVER"
  /\ UNCHANGED << durableVars, taskVars, contract, stopped, handedOff, unrecovered, plan,
                  portalVars, historyVars >>

\* Mutant: the runner tries a result again until it is delivered.
Redeliver_UntilDelivered(j) ==
  /\ phase = "REDELIVER"
  /\ \A i \in Jobs : pc[i] = "idle"
  /\ CanAttempt(j) /\ result[j].status # "DELIVERED"
  /\ GoTo(j, "deliver")
  /\ UNCHANGED << durableVars, done, error, processVars, portalVars, historyVars >>

Redeliver(j) ==
  /\ phase = "REDELIVER"
  /\ \A i \in Jobs : pc[i] = "idle"
  /\ CanAttempt(j)
  /\ Planned(j, "NONE")
  /\ GoTo(j, "deliver")
  /\ UNCHANGED << durableVars, done, error, phase, contract, stopped, handedOff, unrecovered,
                  portalVars, historyVars >>

\* The boot is over: intake and the operator's commands begin.
BootCompletes ==
  /\ phase = "REDELIVER"
  /\ \A j \in Jobs : pc[j] = "idle" /\ ~CanAttempt(j)
  /\ phase' = "UP"
  /\ UNCHANGED << durableVars, taskVars, contract, stopped, handedOff, unrecovered, plan,
                  portalVars, historyVars >>
=============================================================================
