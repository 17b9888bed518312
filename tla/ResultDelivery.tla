--------------------------- MODULE ResultDelivery ---------------------------
(***************************************************************************)
(* The final-result lifecycle: FinalizingExecutionRunner captures the      *)
(* outcome of an execution, FinalResultService delivers it to the Portal,  *)
(* records what it knows of the delivery, and only after an                *)
(* acknowledgement moves the job to its terminal state and gives up the    *)
(* address.  Each transaction of FinalResultStore is one step.             *)
(***************************************************************************)
EXTENDS ExecutionState

SetDelivery(j, status, certainty) ==
  result' = [result EXCEPT ![j].status = status, ![j].certainty = certainty]

OutcomeOf(e) == IF e = "NONE" THEN "SUCCESS" ELSE "FAILURE"

TerminalState(outcome) == IF outcome = "SUCCESS" THEN "COMPLETED" ELSE "FAILED_FINAL"

\* finalize, up to createOrGet.  A second result of a job must repeat the first.
Capture(j) ==
  /\ At(j, "capture")
  /\ LET outcome == OutcomeOf(error[j])
         fresh == result[j] = NoResult
         refused == IF fresh THEN IsTerminal(jobState[j])
                             ELSE result[j].outcome # outcome
     IN /\ GoTo(j, IF refused THEN "idle" ELSE "deliver")
        /\ result' = IF fresh /\ ~refused
                       THEN [result EXCEPT ![j] = [status |-> "PENDING", outcome |-> outcome,
                                                   certainty |-> "NONE"]]
                       ELSE result
  /\ UNCHANGED << jobState, retryCount, currentStep, ip, done, error, processVars,
                  portalVars, historyVars >>

SupportsIdempotentReplay == contract = "IDEMPOTENT"

\* The contract is missing, or the Portal may already have the result.
ReplayIsBlocked(j) ==
  \/ contract = "NONE"
  \/ /\ ~SupportsIdempotentReplay
     /\ \/ result[j].status = "UNCERTAIN"
        \/ result[j].status = "PENDING" /\ result[j].certainty = "UNCERTAIN"

(* deliverRecord, up to sendResult, in the order of its checks.  No caller   *)
(* comes with a DELIVERED row: recoverAll terminalizes those itself.         *)

\* Mutant: a refused delivery counts as a retryable failure of the workflow.
RefuseDelivery_Retried(j) ==
  /\ At(j, "deliver")
  /\ ReplayIsBlocked(j)
  /\ GoTo(j, "classify")
  /\ error' = [error EXCEPT ![j] = "RETRYABLE"]
  /\ UNCHANGED << durableVars, done, processVars, portalVars, historyVars >>

\* One of the checks throws; beginDelivery does for an IN_FLIGHT row.
RefuseDelivery(j) ==
  /\ At(j, "deliver")
  /\ result[j].status # "DELIVERED"
  /\ \/ ReplayIsBlocked(j)
     \/ result[j].status # "UNCERTAIN" /\ ~HasLiveIp(j)
     \/ result[j].status = "IN_FLIGHT"
  /\ GoTo(j, "idle")
  /\ UNCHANGED << durableVars, done, error, processVars, portalVars, historyVars >>

\* requeueUncertain, before the address is looked up.
Requeue(j) ==
  /\ At(j, "deliver")
  /\ result[j].status = "UNCERTAIN" /\ ~ReplayIsBlocked(j)
  /\ SetDelivery(j, "PENDING", result[j].certainty)
  /\ UNCHANGED << jobState, retryCount, currentStep, ip, taskVars, processVars,
                  portalVars, historyVars >>

\* beginDelivery, which forgets the certainty of the attempt before.
BeginDelivery(j) ==
  /\ At(j, "deliver")
  /\ result[j].status = "PENDING" /\ ~ReplayIsBlocked(j) /\ HasLiveIp(j)
  /\ SetDelivery(j, "IN_FLIGHT", "NONE")
  /\ GoTo(j, "begun")
  /\ UNCHANGED << jobState, retryCount, currentStep, ip, done, error, processVars,
                  portalVars, historyVars >>

\* The contract's send hands the request to the network.
Send(j) ==
  /\ At(j, "begun")
  /\ wire' = [wire EXCEPT ![j] = @ + 1]
  /\ GoTo(j, "sending")
  /\ UNCHANGED << durableVars, done, error, processVars, applied, historyVars >>

\* The catch block of deliverRecord, for an error of the given certainty.
RecordFailure(j, certainty) ==
  /\ GoTo(j, "idle")
  /\ IF certainty \in { "NOT_SENT", "REJECTED" } \/ SupportsIdempotentReplay
       THEN SetDelivery(j, "PENDING", certainty)
       ELSE SetDelivery(j, "UNCERTAIN", "UNCERTAIN")
  /\ UNCHANGED << jobState, retryCount, currentStep, ip, done, error, processVars,
                  historyVars >>

\* The contract refuses its configuration or the route before it sends.
IsNotSent(j) ==
  /\ At(j, "begun")
  /\ RecordFailure(j, "NOT_SENT")
  /\ UNCHANGED portalVars

\* The Portal, which need not be heard, processes a request.
PortalApplies(j) ==
  /\ wire[j] > 0
  /\ wire' = [wire EXCEPT ![j] = @ - 1]
  /\ applied' = [applied EXCEPT ![j] = @ + 1]
  /\ UNCHANGED << durableVars, taskVars, processVars, historyVars >>

\* 401, 403, 422 and the other 4xx: the request did nothing.
IsRejected(j) ==
  /\ At(j, "sending")
  /\ wire[j] > 0
  /\ wire' = [wire EXCEPT ![j] = @ - 1]
  /\ RecordFailure(j, "REJECTED")
  /\ UNCHANGED applied

\* Mutant: a certainty the store does not know is recorded.
IsUncertain_Unvalidated(j) ==
  /\ At(j, "sending")
  /\ RecordFailure(j, "TIMEOUT")
  /\ UNCHANGED portalVars

\* Mutant: an answer without an acknowledgement passes for one.
IsUncertain_Accepted(j) ==
  /\ At(j, "sending")
  /\ SetDelivery(j, "DELIVERED", "NONE")
  /\ GoTo(j, "terminalize")
  /\ UNCHANGED << jobState, retryCount, currentStep, ip, done, error, processVars,
                  portalVars, historyVars >>

\* No answer, or one that proves nothing: the request may still arrive.
IsUncertain(j) ==
  /\ At(j, "sending")
  /\ RecordFailure(j, "UNCERTAIN")
  /\ UNCHANGED portalVars

\* The acknowledgement names this application, status and worker.
IsAcknowledged(j) ==
  /\ At(j, "sending")
  /\ applied[j] > 0
  /\ SetDelivery(j, "DELIVERED", "NONE")
  /\ GoTo(j, "terminalize")
  /\ UNCHANGED << jobState, retryCount, currentStep, ip, done, error, processVars,
                  portalVars, historyVars >>

\* finalizeDeliveredRecord: the transition ...
Terminalize(j) ==
  /\ At(j, "terminalize")
  /\ LET to == TerminalState(result[j].outcome)
     IN \/ jobState[j] = to /\ GoTo(j, "release") /\ UNCHANGED jobState
        \/ Transition(j, to) /\ GoTo(j, "release")
        \/ /\ jobState[j] # to /\ ~CanTransition(jobState[j], to)
           /\ GoTo(j, "idle") /\ UNCHANGED jobState
  /\ UNCHANGED << retryCount, currentStep, ip, result, done, error, processVars,
                  portalVars, historyVars >>

\* ... and the release of the address.
Release(j) ==
  /\ At(j, "release")
  /\ ip' = [ip EXCEPT ![j] = "RELEASED"]
  /\ GoTo(j, "idle")
  /\ UNCHANGED << jobState, retryCount, currentStep, result, done, error, processVars,
                  portalVars, historyVars >>
=============================================================================
