-------------------------- MODULE FinalResultProofs --------------------------
(***************************************************************************)
(* ExecutionRuntime implements FinalResult: every step of every task, of   *)
(* the Portal and of the process is one stage of one job's result, or      *)
(* nothing that FinalResult can see.                                       *)
(***************************************************************************)
EXTENDS ExecutionHistoryProofs

\* The Portal has seen nothing of a job without a result, and nothing is on
\* its way: whatever the contracts, a request is sent from a row.
UnsentWithoutResult(j) == result[j] = NoResult => wire[j] = 0 /\ applied[j] = 0

Unsent == \A j \in Jobs : UnsentWithoutResult(j)

LEMMA DeliveryKeepsUnsent ==
  ASSUME Inv, NEW j \in Jobs, UnsentWithoutResult(j), Delivery(j)
  PROVE  UnsentWithoutResult(j)'
<1>0. TypeOK /\ JobInv(j)
  BY DEF Inv
<1>1. CASE Capture(j)
  <2>1. UNCHANGED << wire, applied >> /\ (result' = result \/ result[j] = NoResult)
    BY <1>1 DEF Capture, portalVars
  <2> QED BY <2>1 DEF UnsentWithoutResult
<1>2. CASE ~Capture(j)
  <2>1. pc[j] \in Delivering
    BY <1>2 DEF Delivery, RefuseDelivery, Requeue, BeginDelivery, Send, IsNotSent,
      IsRejected, IsUncertain, IsAcknowledged, Terminalize, Release, At, Delivering
  <2>2. result[j].status # "NONE"
    BY <1>0, <2>1 DEF JobInv, ResultAtPc, ResultOfJob
  <2>3. result'[j].status # "NONE"
    BY <1>0, <1>2, <2>2 DEF TypeOK, Delivery, RefuseDelivery, Requeue, BeginDelivery, Send,
      IsNotSent, IsRejected, IsUncertain, IsAcknowledged, RecordFailure, SetDelivery,
      Terminalize, Release, durableVars
  <2> QED BY <2>3 DEF UnsentWithoutResult, NoResult
<1> QED BY <1>1, <1>2

LEMMA NextKeepsUnsent ==
  ASSUME Inv, [Next]_vars, Unsent
  PROVE  Unsent'
<1>0. TypeOK
  BY DEF Inv
<1>1. ASSUME NEW j \in Jobs, OthersUntouched(j), UnsentWithoutResult(j)'
      PROVE  Unsent'
  BY <1>1 DEF OthersUntouched, Unsent, UnsentWithoutResult
<1>2. ASSUME NEW j \in Jobs, Attempt(j) \/ Recovery(j)
      PROVE  UNCHANGED << wire, applied >> /\ (result' = result \/ result[j].status # "NONE")
  <2>1. CASE Attempt(j)
    BY <2>1, AttemptKeepsResults
    DEF Attempt, RunAttempt, StartRunning, OpenSession, SessionFails, StepSucceeds, StepFails,
      StepIsChallenged, StepIsAborted, HandleFailure, KeepIp, ScheduleRetry, Wake,
      ResumeManualChallenge, portalVars
  <2>2. CASE Recovery(j)
    BY <2>2 DEF Recovery, RecoverFinalResult, RecoverManualChallenge, RecoverParkedJob,
      RecoverInterruptedExecution, CountInterruption, ScheduleInterrupted,
      RecoverPreExecution, Redeliver, Recovering, durableVars, portalVars
  <2> QED BY <1>2, <2>1, <2>2
<1>3. ASSUME NEW j \in Jobs, Recovery(j), result' # result PROVE result'[j].status # "NONE"
  <2>1. RecoverFinalResult(j)
    BY <1>3 DEF Recovery, RecoverManualChallenge, RecoverParkedJob,
      RecoverInterruptedExecution, CountInterruption, ScheduleInterrupted,
      RecoverPreExecution, Redeliver, durableVars
  <2> QED BY <1>0, <1>3, <2>1 DEF RecoverFinalResult, TypeOK
<1>4. CASE \E j \in Jobs : Task(j)
  <2>1. PICK j \in Jobs : Task(j)
    BY <1>4
  <2>2. UnsentWithoutResult(j)
    BY DEF Unsent
  <2>3. CASE Delivery(j)
    BY <1>0, <1>1, <2>1, <2>2, <2>3, DeliveryKeepsUnsent, TaskLocal
  <2>4. CASE Attempt(j)
    <3>1. result' = result
      BY <2>4, AttemptKeepsResults
    <3> QED BY <1>2, <2>4, <3>1 DEF Unsent, UnsentWithoutResult
  <2>5. CASE Recovery(j)
    <3>1. UNCHANGED << wire, applied >> /\ (result' = result \/ result'[j].status # "NONE")
      BY <1>2, <1>3, <2>5
    <3>2. UnsentWithoutResult(j)'
      BY <2>2, <3>1 DEF UnsentWithoutResult, NoResult
    <3> QED BY <1>0, <1>1, <2>1, <3>2, TaskLocal
  <2> QED BY <2>1, <2>3, <2>4, <2>5 DEF Task
<1>5. CASE \E j \in Jobs : PortalApplies(j)
  <2>1. PICK j \in Jobs : PortalApplies(j)
    BY <1>5
  <2>2. result' = result /\ result[j] # NoResult
    BY <2>1 DEF PortalApplies, Unsent, UnsentWithoutResult, durableVars
  <2>3. UnsentWithoutResult(j)'
    BY <2>2 DEF UnsentWithoutResult
  <2> QED BY <1>0, <1>1, <2>1, <2>3, PortalAppliesLocal
<1>6. CASE \/ Admit \/ Stop \/ ProcessRestart \/ BeginRedelivery \/ BootCompletes
           \/ \E j \in Jobs : RequestResume(j)
           \/ UNCHANGED vars
  <2>1. UNCHANGED << wire, applied, result >>
    BY <1>6 DEF Admit, Stop, ProcessRestart, BeginRedelivery, BootCompletes, RequestResume,
      vars, durableVars, portalVars
  <2> QED BY <2>1 DEF Unsent, UnsentWithoutResult
<1> QED BY <1>4, <1>5, <1>6 DEF Next

LEMMA UnsentInvariance == Spec => [](Inv /\ Unsent)
<1>1. ASSUME Init PROVE Unsent
  <2>1. ASSUME NEW j \in Jobs PROVE wire[j] = 0 /\ applied[j] = 0
    BY <1>1 DEF Init
  <2> QED BY <2>1 DEF Unsent, UnsentWithoutResult
<1>2. Init => Unsent
  BY <1>1
<1>3. Inv /\ Unsent /\ [Next]_vars => Unsent'
  BY NextKeepsUnsent
<1> QED BY <1>2, <1>3, Invariance, PTL DEF Spec

------------------------------------------------------------------------------
(* What FinalResult sees of a step.                                         *)

\* Nothing of j.
Unseen(j) ==
  /\ StageOf(j)' = StageOf(j)
  /\ result'[j].outcome = result[j].outcome
  /\ EndingOf(j)' = EndingOf(j)

LEMMA UnseenIsStutter ==
  ASSUME \A j \in Jobs : Unseen(j)
  PROVE  UNCHANGED Final!vars
<1>1. [j \in Jobs |-> StageOf(j)]' = [j \in Jobs |-> StageOf(j)]
  BY DEF Unseen
<1>2. [j \in Jobs |-> result[j].outcome]' = [j \in Jobs |-> result[j].outcome]
  BY DEF Unseen
<1>3. [j \in Jobs |-> EndingOf(j)]' = [j \in Jobs |-> EndingOf(j)]
  BY DEF Unseen
<1> QED BY <1>1, <1>2, <1>3 DEF Final!vars

LEMMA OthersUnseen ==
  ASSUME NEW j \in Jobs, OthersUntouched(j)
  PROVE  \A k \in Jobs \ {j} : Unseen(k)
BY DEF OthersUntouched, Unseen, StageOf, EndingOf

\* What StageOf distinguishes stays as it is.
SameMarks(j) ==
  /\ ip'[j] = ip[j] \/ (ip[j] # "RELEASED" /\ ip'[j] # "RELEASED")
  /\ jobState'[j] = jobState[j] \/ (~IsTerminal(jobState[j]) /\ ~IsTerminal(jobState'[j]))
  /\ \/ result'[j] = result[j]
     \/ /\ result[j].status \notin { "NONE", "DELIVERED" }
        /\ result'[j].status \notin { "NONE", "DELIVERED" }
        /\ result'[j].outcome = result[j].outcome
  /\ applied'[j] = applied[j]

LEMMA SameMarksUnseen ==
  ASSUME NEW j \in Jobs, SameMarks(j)
  PROVE  Unseen(j)
<1>1. ip'[j] = "RELEASED" <=> ip[j] = "RELEASED"
  BY DEF SameMarks
<1>2. (IsTerminal(jobState'[j]) <=> IsTerminal(jobState[j]))
      /\ (IsTerminal(jobState[j]) => jobState'[j] = jobState[j])
  BY DEF SameMarks
<1>3. /\ result'[j].status = "DELIVERED" <=> result[j].status = "DELIVERED"
      /\ result'[j] = NoResult <=> result[j] = NoResult
      /\ result'[j].outcome = result[j].outcome
  BY DEF SameMarks, NoResult
<1>4. applied'[j] = applied[j]
  BY DEF SameMarks
<1>5. EndingOf(j)' = EndingOf(j)
  BY <1>2 DEF EndingOf
<1>6. StageOf(j)' = StageOf(j)
  BY <1>1, <1>2, <1>3, <1>4 DEF StageOf
<1> QED BY <1>3, <1>5, <1>6 DEF Unseen

\* One stage of one job.
LEMMA StagePasses ==
  ASSUME NEW j \in Jobs, NEW to, OthersUntouched(j), StageOf(j)' = to
  PROVE  [k \in Jobs |-> StageOf(k)]' = [[k \in Jobs |-> StageOf(k)] EXCEPT ![j] = to]
BY OthersUnseen DEF Unseen

LEMMA SameOutcomes ==
  ASSUME NEW j \in Jobs, OthersUntouched(j), result'[j].outcome = result[j].outcome
  PROVE  [k \in Jobs |-> result[k].outcome]' = [k \in Jobs |-> result[k].outcome]
BY OthersUnseen DEF Unseen

LEMMA SameEndings ==
  ASSUME NEW j \in Jobs, OthersUntouched(j), EndingOf(j)' = EndingOf(j)
  PROVE  [k \in Jobs |-> EndingOf(k)]' = [k \in Jobs |-> EndingOf(k)]
BY OthersUnseen DEF Unseen

------------------------------------------------------------------------------
(* The steps that are a stage.                                              *)

\* createOrGet creates.
LEMMA CaptureRefines ==
  ASSUME Inv, Unsent, NEW j \in Jobs, Capture(j), result[j] = NoResult, ~IsTerminal(jobState[j])
  PROVE  Final!Next
<1>0. TypeOK /\ JobInv(j) /\ OthersUntouched(j)
  BY DeliveryLocal DEF Inv, Delivery
<1>1. UNCHANGED << jobState, ip, applied >>
  BY DEF Capture, portalVars
<1>2. DEFINE o == OutcomeOf(error[j])
<1>3. result' = [result EXCEPT ![j] =
                   [status |-> "PENDING", outcome |-> o, certainty |-> "NONE"]]
  BY DEF Capture
<1>4. result'[j] = [status |-> "PENDING", outcome |-> o, certainty |-> "NONE"]
      /\ \A k \in Jobs \ {j} : result'[k] = result[k]
  BY <1>0, <1>3 DEF TypeOK
<1>5. ip[j] # "RELEASED" /\ applied[j] = 0
  BY <1>0 DEF JobInv, Address, Unsent, UnsentWithoutResult
<1>6. StageOf(j) = "working"
  BY <1>5 DEF StageOf, NoResult
<1>7. StageOf(j)' = "captured"
  <2>1. result'[j].status = "PENDING" /\ result'[j] # NoResult
    BY <1>4 DEF NoResult
  <2> QED BY <1>1, <1>5, <2>1 DEF StageOf
<1>8. EndingOf(j)' = EndingOf(j)
  BY <1>1 DEF EndingOf
<1>9. o \in { "SUCCESS", "FAILURE" }
  BY DEF OutcomeOf
<1>10. [k \in Jobs |-> result[k].outcome]' = [[k \in Jobs |-> result[k].outcome] EXCEPT ![j] = o]
  <2>1. result'[j].outcome = o /\ \A k \in Jobs \ {j} : result'[k].outcome = result[k].outcome
    BY <1>4
  <2> QED BY <2>1
<1>11. Final!Capture(j)
  BY <1>0, <1>6, <1>7, <1>8, <1>9, <1>10, StagePasses, SameEndings
  DEF Final!Capture, Final!Passes
<1> QED BY <1>11 DEF Final!Next

\* The first request that takes effect.
LEMMA PortalAppliesRefines ==
  ASSUME Inv, Unsent, NEW j \in Jobs, PortalApplies(j)
  PROVE  Final!Next \/ Unseen(j)
<1>0. TypeOK /\ JobInv(j) /\ OthersUntouched(j)
  BY PortalAppliesLocal DEF Inv
<1>1. UNCHANGED << jobState, ip, result >> /\ wire[j] > 0
      /\ applied[j] \in Nat /\ applied'[j] = applied[j] + 1
  BY <1>0 DEF PortalApplies, TypeOK, durableVars
<1>2. result[j] # NoResult
  BY <1>1 DEF Unsent, UnsentWithoutResult
<1>3. EndingOf(j)' = EndingOf(j)
  BY <1>1 DEF EndingOf
<1>4. CASE applied[j] > 0
  <2>1. applied'[j] > 0
    BY <1>1, <1>4
  <2>2. StageOf(j)' = StageOf(j)
    BY <1>1, <1>4, <2>1 DEF StageOf
  <2> QED BY <1>1, <1>3, <2>2 DEF Unseen
<1>5. CASE applied[j] = 0
  <2>1. /\ result[j].status # "DELIVERED" /\ ~IsTerminal(jobState[j])
        /\ ip[j] # "RELEASED"
    BY <1>0, <1>5 DEF JobInv, ResultOfJob, Address
  <2>2. StageOf(j) = "captured"
    BY <1>2, <1>5, <2>1 DEF StageOf
  <2>3. applied'[j] > 0
    BY <1>1
  <2>4. StageOf(j)' = "applied"
    BY <1>1, <2>1, <2>3 DEF StageOf
  <2>5. Final!Apply(j)
    BY <1>0, <1>1, <1>3, <2>2, <2>4, StagePasses, SameOutcomes, SameEndings
    DEF Final!Apply, Final!Passes
  <2> QED BY <2>5 DEF Final!Next
<1> QED BY <1>1, <1>4, <1>5

\* markDelivered.
LEMMA IsAcknowledgedRefines ==
  ASSUME Inv, NEW j \in Jobs, IsAcknowledged(j)
  PROVE  Final!Next
<1>0. TypeOK /\ JobInv(j) /\ OthersUntouched(j)
  BY DeliveryLocal DEF Inv, Delivery
<1>1. /\ pc[j] = "sending" /\ applied[j] > 0 /\ SetDelivery(j, "DELIVERED", "NONE")
      /\ UNCHANGED << jobState, ip, applied >>
  BY DEF IsAcknowledged, At, portalVars
<1>2. result'[j].status = "DELIVERED" /\ result'[j].outcome = result[j].outcome
  BY <1>0, <1>1, SetDeliveryType DEF DeliveryStatuses, Certainties
<1>3. result[j].status = "IN_FLIGHT" /\ ~IsTerminal(jobState[j]) /\ ip[j] # "RELEASED"
  BY <1>0, <1>1 DEF JobInv, ResultAtPc, ResultOfJob, Address
<1>4. StageOf(j) = "applied"
  BY <1>1, <1>3 DEF StageOf
<1>5. StageOf(j)' = "acknowledged" /\ EndingOf(j)' = EndingOf(j)
  BY <1>1, <1>2, <1>3 DEF StageOf, EndingOf
<1>6. Final!Acknowledge(j)
  BY <1>0, <1>2, <1>4, <1>5, StagePasses, SameOutcomes, SameEndings
  DEF Final!Acknowledge, Final!Passes
<1> QED BY <1>6 DEF Final!Next

\* finalizeDeliveredRecord, its transition.
LEMMA TerminalizeRefines ==
  ASSUME Inv, NEW j \in Jobs, Terminalize(j)
  PROVE  Final!Next \/ Unseen(j)
<1>0. TypeOK /\ JobInv(j) /\ OthersUntouched(j)
  BY DeliveryLocal DEF Inv, Delivery
<1>1. pc[j] = "terminalize" /\ UNCHANGED << ip, result, applied >>
  BY DEF Terminalize, At, portalVars
<1>2. DEFINE to == TerminalState(result[j].outcome)
<1>3. CASE jobState' = jobState
  BY <1>1, <1>3, SameMarksUnseen DEF SameMarks
<1>4. CASE Transition(j, to)
  <2>1. to \in JobStates /\ IsTerminal(to)
    BY DEF TerminalState, JobStates, IsTerminal, TerminalJobStates
  <2>2. jobState'[j] = to /\ ~IsTerminal(jobState[j])
    BY <1>0, <1>4, <2>1, TransitionType
  <2>3. result[j].status = "DELIVERED" /\ ip[j] # "RELEASED"
    BY <1>0, <1>1, <2>2 DEF JobInv, ResultAtPc, Address
  <2>4. StageOf(j) = "acknowledged"
    BY <2>2, <2>3 DEF StageOf
  <2>5. StageOf(j)' = "terminal" /\ EndingOf(j)' = to
    BY <1>1, <2>1, <2>2, <2>3 DEF StageOf, EndingOf
  <2>6. [k \in Jobs |-> EndingOf(k)]' = [[k \in Jobs |-> EndingOf(k)] EXCEPT ![j] = to]
    BY <1>0, <2>5, OthersUnseen DEF Unseen
  <2>7. Final!Terminalize(j)
    BY <1>0, <1>1, <2>4, <2>5, <2>6, StagePasses, SameOutcomes
    DEF Final!Terminalize, Final!Passes, TerminalState
  <2> QED BY <2>7 DEF Final!Next
<1> QED BY <1>3, <1>4 DEF Terminalize

\* finalizeDeliveredRecord, the release, which may find the work done.
LEMMA ReleaseRefines ==
  ASSUME Inv, NEW j \in Jobs, Release(j)
  PROVE  Final!Next \/ Unseen(j)
<1>0. TypeOK /\ JobInv(j) /\ OthersUntouched(j)
  BY DeliveryLocal DEF Inv, Delivery
<1>1. /\ pc[j] = "release" /\ ip'[j] = "RELEASED"
      /\ UNCHANGED << jobState, result, applied >>
  BY <1>0 DEF Release, At, TypeOK, portalVars
<1>2. IsTerminal(jobState[j])
  BY <1>0, <1>1 DEF JobInv, StateAtPc
<1>3. EndingOf(j)' = EndingOf(j)
  BY <1>1 DEF EndingOf
<1>4. CASE ip[j] = "RELEASED"
  BY <1>1, <1>3, <1>4 DEF Unseen, StageOf
<1>5. CASE ip[j] # "RELEASED"
  <2>1. StageOf(j) = "terminal" /\ StageOf(j)' = "released"
    BY <1>1, <1>2, <1>5 DEF StageOf
  <2>2. Final!Release(j)
    BY <1>0, <1>1, <1>3, <2>1, StagePasses, SameOutcomes, SameEndings
    DEF Final!Release, Final!Passes
  <2> QED BY <2>2 DEF Final!Next
<1> QED BY <1>4, <1>5

------------------------------------------------------------------------------
(* The steps that are none.                                                 *)

LEMMA AttemptUnseen ==
  ASSUME Inv, NEW j \in Jobs, Attempt(j)
  PROVE  Unseen(j)
<1>0. TypeOK
  BY DEF Inv
<1>1. result' = result /\ applied' = applied
  BY AttemptKeepsResults
  DEF Attempt, RunAttempt, StartRunning, OpenSession, SessionFails, StepSucceeds, StepFails,
    StepIsChallenged, StepIsAborted, HandleFailure, KeepIp, ScheduleRetry, Wake,
    ResumeManualChallenge, portalVars
<1>2. ip'[j] = ip[j] \/ (ip[j] # "RELEASED" /\ ip'[j] # "RELEASED")
  BY <1>0 DEF TypeOK, HasLiveIp, Attempt, RunAttempt, StartRunning, OpenSession, SessionFails,
    StepSucceeds, StepFails, StepIsChallenged, StepIsAborted, HandleFailure, KeepIp,
    ScheduleRetry, Wake, ResumeManualChallenge, durableVars
<1>3. \/ jobState' = jobState
      \/ \E to \in { "RUNNING", "WAITING_FOR_MANUAL_CHALLENGE", "RETRY_PENDING" } :
           Transition(j, to)
  BY DEF Attempt, RunAttempt, StartRunning, OpenSession, SessionFails,
    StepSucceeds, StepFails, StepIsChallenged, StepIsAborted, HandleFailure, KeepIp,
    ScheduleRetry, Wake, ResumeManualChallenge, durableVars
<1>4. jobState'[j] = jobState[j] \/ (~IsTerminal(jobState[j]) /\ ~IsTerminal(jobState'[j]))
  BY <1>0, <1>3, TransitionType
  DEF JobStates, LiveJobStates, IsTerminal, TerminalJobStates
<1> QED BY <1>1, <1>2, <1>4, SameMarksUnseen DEF SameMarks

LEMMA RecoveryUnseen ==
  ASSUME Inv, NEW j \in Jobs, Recovery(j)
  PROVE  Unseen(j)
<1>0. TypeOK
  BY DEF Inv
<1>1. applied' = applied
  BY DEF Recovery, RecoverFinalResult, RecoverManualChallenge, RecoverParkedJob,
    RecoverInterruptedExecution, CountInterruption, ScheduleInterrupted, RecoverPreExecution,
    Redeliver, Recovering, portalVars
<1>2. ip'[j] = ip[j] \/ (ip[j] # "RELEASED" /\ ip'[j] # "RELEASED")
  BY <1>0 DEF TypeOK, HasLiveIp, PreserveSameIp, Recovery, RecoverFinalResult,
    RecoverManualChallenge, RecoverParkedJob, RecoverInterruptedExecution, CountInterruption,
    ScheduleInterrupted, RecoverPreExecution, Redeliver, durableVars
<1>3. jobState' = jobState \/ Transition(j, "RETRY_PENDING")
  BY DEF Recovery, RecoverFinalResult, RecoverManualChallenge, RecoverParkedJob,
    RecoverInterruptedExecution, CountInterruption, ScheduleInterrupted, RecoverPreExecution,
    Redeliver, durableVars
<1>4. jobState'[j] = jobState[j] \/ (~IsTerminal(jobState[j]) /\ ~IsTerminal(jobState'[j]))
  BY <1>0, <1>3, TransitionType
  DEF JobStates, LiveJobStates, IsTerminal, TerminalJobStates
<1>5. \/ result'[j] = result[j]
      \/ /\ result[j].status \notin { "NONE", "DELIVERED" }
         /\ result'[j].status \notin { "NONE", "DELIVERED" }
         /\ result'[j].outcome = result[j].outcome
  <2>1. CASE RecoverFinalResult(j)
    BY <1>0, <2>1 DEF RecoverFinalResult, TypeOK
  <2>2. CASE ~RecoverFinalResult(j)
    BY <2>2 DEF Recovery, RecoverManualChallenge, RecoverParkedJob,
      RecoverInterruptedExecution, CountInterruption, ScheduleInterrupted,
      RecoverPreExecution, Redeliver, durableVars
  <2> QED BY <2>1, <2>2
<1> QED BY <1>1, <1>2, <1>4, <1>5, SameMarksUnseen DEF SameMarks

\* A delivery that is refused, begun, sent or failed.
LEMMA UndeliveredUnseen ==
  ASSUME Inv, NEW j \in Jobs,
         \/ RefuseDelivery(j) \/ Requeue(j) \/ BeginDelivery(j) \/ Send(j)
         \/ IsNotSent(j) \/ IsRejected(j) \/ IsUncertain(j)
  PROVE  Unseen(j)
<1>0. TypeOK /\ JobInv(j)
  BY DEF Inv
<1>1. UNCHANGED << jobState, ip, applied >>
  BY DEF RefuseDelivery, Requeue, BeginDelivery, Send, IsNotSent, IsRejected, IsUncertain,
    RecordFailure, durableVars, portalVars
<1>2. CASE RefuseDelivery(j) \/ Send(j)
  <2>1. result' = result
    BY <1>2 DEF RefuseDelivery, Send, durableVars
  <2> QED BY <1>1, <2>1, SameMarksUnseen DEF SameMarks
<1>3. CASE Requeue(j) \/ BeginDelivery(j)
  <2>1. /\ result[j].status \in { "UNCERTAIN", "PENDING" }
        /\ result'[j].status \in { "PENDING", "IN_FLIGHT" }
        /\ result'[j].outcome = result[j].outcome
    BY <1>0, <1>3 DEF Requeue, BeginDelivery, SetDelivery, TypeOK
  <2> QED BY <1>1, <2>1, SameMarksUnseen DEF SameMarks
<1>4. CASE IsNotSent(j) \/ IsRejected(j) \/ IsUncertain(j)
  <2>1. pc[j] \in { "begun", "sending" } /\ \E c \in Certainties : RecordFailure(j, c)
    BY <1>4 DEF IsNotSent, IsRejected, IsUncertain, At, Certainties
  <2>2. result[j].status = "IN_FLIGHT"
    BY <1>0, <2>1 DEF JobInv, ResultAtPc
  <2>3. result'[j].status \in { "PENDING", "UNCERTAIN" } /\ result'[j].outcome = result[j].outcome
    BY <1>0, <2>1, RecordFailureType
  <2> QED BY <1>1, <2>2, <2>3, SameMarksUnseen DEF SameMarks
<1> QED BY <1>2, <1>3, <1>4

------------------------------------------------------------------------------
(* The refinement.                                                          *)

LEMMA DeliveryRefines ==
  ASSUME Inv, Unsent, NEW j \in Jobs, Delivery(j)
  PROVE  Final!Next \/ Unseen(j)
<1>1. CASE Capture(j)
  <2>1. CASE result[j] = NoResult /\ ~IsTerminal(jobState[j])
    BY <1>1, <2>1, CaptureRefines
  <2>2. CASE ~(result[j] = NoResult /\ ~IsTerminal(jobState[j]))
    <3>1. UNCHANGED << jobState, ip, applied, result >>
      BY <1>1, <2>2 DEF Capture, portalVars
    <3> QED BY <3>1, SameMarksUnseen DEF SameMarks
  <2> QED BY <2>1, <2>2
<1> QED BY <1>1, IsAcknowledgedRefines, TerminalizeRefines, ReleaseRefines, UndeliveredUnseen
        DEF Delivery

LEMMA StepRefines ==
  ASSUME Inv, Unsent, [Next]_vars
  PROVE  Final!Next \/ UNCHANGED Final!vars
<1>0. TypeOK
  BY DEF Inv
<1>1. ASSUME NEW j \in Jobs, OthersUntouched(j), Unseen(j) PROVE UNCHANGED Final!vars
  BY <1>1, OthersUnseen, UnseenIsStutter
<1>2. CASE \E j \in Jobs : Task(j)
  <2>1. PICK j \in Jobs : Task(j)
    BY <1>2
  <2>2. Final!Next \/ Unseen(j)
    BY <2>1, AttemptUnseen, RecoveryUnseen, DeliveryRefines DEF Task
  <2> QED BY <1>0, <1>1, <2>1, <2>2, TaskLocal
<1>3. CASE \E j \in Jobs : PortalApplies(j)
  BY <1>0, <1>1, <1>3, PortalAppliesRefines, PortalAppliesLocal
<1>4. CASE \/ Admit \/ Stop \/ ProcessRestart \/ BeginRedelivery \/ BootCompletes
           \/ \E j \in Jobs : RequestResume(j)
           \/ UNCHANGED vars
  <2>1. UNCHANGED << jobState, ip, result, applied >>
    BY <1>4 DEF Admit, Stop, ProcessRestart, BeginRedelivery, BootCompletes, RequestResume,
      vars, durableVars, portalVars
  <2>2. ASSUME NEW j \in Jobs PROVE Unseen(j)
    BY <2>1 DEF Unseen, StageOf, EndingOf
  <2> QED BY <2>2, UnseenIsStutter
<1> QED BY <1>2, <1>3, <1>4 DEF Next

LEMMA InitRefines ==
  ASSUME Init
  PROVE  Final!Init
<1>1. ASSUME NEW j \in Jobs
      PROVE  StageOf(j) = "working" /\ result[j].outcome = "NONE" /\ EndingOf(j) = "NONE"
  <2>1. /\ jobState[j] = "WAITING_FOR_IP" /\ ip[j] = "RESERVED" /\ applied[j] = 0
        /\ result[j] = NoResult
    BY DEF Init
  <2> QED BY <2>1 DEF StageOf, EndingOf, NoResult, IsTerminal, TerminalJobStates
<1> QED BY <1>1 DEF Final!Init

\* The runner, the result service, the recovery and the state machine together
\* implement the life of a result: in any number of attempts, deliveries and
\* restarts, under any contracts, its stages come in order and once.
THEOREM ResultsPassInOrder == Spec => ResultLifecycle
<1>1. Init => Final!Init
  BY InitRefines
<1>2. Inv /\ Unsent /\ [Next]_vars => [Final!Next]_(Final!vars)
  BY StepRefines
<1> QED BY <1>1, <1>2, UnsentInvariance, PTL DEF Spec, ResultLifecycle, Final!Spec
=============================================================================
