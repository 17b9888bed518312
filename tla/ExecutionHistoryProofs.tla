------------------------ MODULE ExecutionHistoryProofs ------------------------
(***************************************************************************)
(* More about ExecutionRuntime: properties that speak of what a job did    *)
(* before (its answered steps, its requests, its executions in this        *)
(* process), on top of the invariant of ExecutionProofs.                   *)
(***************************************************************************)
EXTENDS ExecutionProofs

\* The task of j is an attempt that may still send workflow requests.
Attempting(j) ==
  \/ pc[j] \in Working
  \/ pc[j] = "classify" /\ error[j] # "NO_CONTEXT"

\* A JobContext holds every answered step; a job that still has an attempt ahead
\* of it without one has no answers at all.
Progress(j) ==
  /\ \A k \in Steps : answers[j][k] <= 1
  /\ done[j] # NoContext => \A k \in Steps : k > done[j] => answers[j][k] = 0
  /\ done[j] = NoContext /\ (j \in handedOff \/ Attempting(j)) =>
       \A k \in Steps : answers[j][k] = 0

\* A challenge that is being handled has parked its job, unless it came late.
ChallengeParked(j) ==
  pc[j] = "classify" /\ error[j] = "CHALLENGE" /\ ~stopped =>
    jobState[j] = "WAITING_FOR_MANUAL_CHALLENGE"

\* An execution of the first process that is over left somebody in charge.
LeftInCharge(j) ==
  restarts = 0 =>
    /\ phase = "UP" /\ pc[j] \notin { "recovery kept", "recovery counted" }
    /\ ~stopped /\ pc[j] = "idle" /\ j \notin handedOff =>
         \/ IsTerminal(jobState[j]) \/ result[j] # NoResult
         \/ jobState[j] = "WAITING_FOR_MANUAL_CHALLENGE"

\* Under contracts without verified replay there is at most one request, and a
\* row that may be sent (again) stands for none.
SentOnce(j) ==
  "IDEMPOTENT" \notin Contracts =>
    /\ wire[j] + applied[j] <= 1
    /\ result[j].status \in { "NONE", "PENDING" } \/ pc[j] = "begun" =>
         wire[j] + applied[j] = 0

HistoryInv ==
  \A j \in Jobs : Progress(j) /\ ChallengeParked(j) /\ LeftInCharge(j) /\ SentOnce(j)

------------------------------------------------------------------------------
(* Whose state a step changes.                                              *)

\* Nothing of another job changes, nor what the jobs share.
OthersUntouched(j) ==
  /\ \A k \in Jobs \ {j} :
       /\ jobState'[k] = jobState[k] /\ result'[k] = result[k] /\ ip'[k] = ip[k]
       /\ pc'[k] = pc[k] /\ done'[k] = done[k] /\ error'[k] = error[k]
       /\ wire'[k] = wire[k] /\ applied'[k] = applied[k] /\ answers'[k] = answers[k]
  /\ handedOff' = handedOff /\ phase' = phase /\ stopped' = stopped
  /\ contract' = contract /\ restarts' = restarts

LEMMA AttemptLocal ==
  ASSUME TypeOK, NEW j \in Jobs, Attempt(j)
  PROVE  OthersUntouched(j)
<1>1. CASE RunAttempt(j) \/ StartRunning(j) \/ SessionFails(j) \/ StepFails(j)
  BY <1>1 DEF OthersUntouched, TypeOK, RunAttempt, StartRunning, SessionFails, StepFails,
    Throw, GoTo, Transition, durableVars, processVars, portalVars, historyVars
<1>2. CASE OpenSession(j) \/ StepSucceeds(j) \/ ResumeManualChallenge(j)
  BY <1>2 DEF OthersUntouched, TypeOK, OpenSession, StepSucceeds, ResumeManualChallenge,
    Continue, Throw, GoTo, Transition, durableVars, processVars, portalVars, historyVars
<1>3. CASE StepIsChallenged(j) \/ StepIsAborted(j) \/ HandleFailure(j)
  BY <1>3 DEF OthersUntouched, TypeOK, StepIsChallenged, StepIsAborted, HandleFailure,
    Throw, GoTo, Transition, durableVars, processVars, portalVars, historyVars
<1>4. CASE KeepIp(j) \/ ScheduleRetry(j) \/ Wake(j)
  BY <1>4 DEF OthersUntouched, TypeOK, KeepIp, ScheduleRetry, Wake,
    GoTo, Transition, durableVars, processVars, portalVars, historyVars
<1> QED BY <1>1, <1>2, <1>3, <1>4 DEF Attempt

LEMMA DeliveryLocal ==
  ASSUME TypeOK, NEW j \in Jobs, Delivery(j)
  PROVE  OthersUntouched(j)
<1>1. CASE Capture(j) \/ RefuseDelivery(j) \/ Requeue(j) \/ BeginDelivery(j)
  BY <1>1 DEF OthersUntouched, TypeOK, Capture, RefuseDelivery, Requeue, BeginDelivery,
    SetDelivery, GoTo, durableVars, taskVars, processVars, portalVars, historyVars
<1>2. CASE Send(j) \/ IsAcknowledged(j) \/ Terminalize(j) \/ Release(j)
  BY <1>2 DEF OthersUntouched, TypeOK, Send, IsAcknowledged, Terminalize, Release,
    SetDelivery, GoTo, Transition, durableVars, processVars, portalVars, historyVars
<1>3. CASE IsNotSent(j) \/ IsRejected(j) \/ IsUncertain(j)
  BY <1>3 DEF OthersUntouched, TypeOK, IsNotSent, IsRejected, IsUncertain, RecordFailure,
    SetDelivery, GoTo, processVars, portalVars, historyVars
<1> QED BY <1>1, <1>2, <1>3 DEF Delivery

LEMMA RecoveryLocal ==
  ASSUME TypeOK, NEW j \in Jobs, Recovery(j)
  PROVE  OthersUntouched(j)
<1>1. CASE RecoverFinalResult(j) \/ RecoverManualChallenge(j) \/ RecoverParkedJob(j)
  BY <1>1 DEF OthersUntouched, TypeOK, RecoverFinalResult, RecoverManualChallenge,
    RecoverParkedJob, PreserveSameIp, Recovering, GoTo, durableVars, portalVars, historyVars
<1>2. CASE RecoverInterruptedExecution(j) \/ CountInterruption(j) \/ ScheduleInterrupted(j)
  BY <1>2 DEF OthersUntouched, TypeOK, RecoverInterruptedExecution, CountInterruption,
    ScheduleInterrupted, PreserveSameIp, Recovering, GoTo, Transition,
    processVars, portalVars, historyVars
<1>3. CASE RecoverPreExecution(j) \/ Redeliver(j)
  BY <1>3 DEF OthersUntouched, TypeOK, RecoverPreExecution, Redeliver, Recovering, GoTo,
    durableVars, portalVars, historyVars
<1> QED BY <1>1, <1>2, <1>3 DEF Recovery

\* What a task does concerns its own job only.
LEMMA TaskLocal ==
  ASSUME TypeOK, NEW j \in Jobs, Task(j)
  PROVE  OthersUntouched(j)
BY AttemptLocal, DeliveryLocal, RecoveryLocal DEF Task

LEMMA RequestResumeLocal ==
  ASSUME TypeOK, NEW j \in Jobs, RequestResume(j)
  PROVE  OthersUntouched(j)
BY DEF OthersUntouched, TypeOK, RequestResume, GoTo, durableVars, processVars, portalVars,
       historyVars

LEMMA PortalAppliesLocal ==
  ASSUME TypeOK, NEW j \in Jobs, PortalApplies(j)
  PROVE  OthersUntouched(j)
BY DEF OthersUntouched, TypeOK, PortalApplies, durableVars, taskVars, processVars, historyVars

------------------------------------------------------------------------------
(* The answers.                                                             *)

\* A step that answers nothing, opens no session and resumes nothing neither
\* starts an attempt nor touches the JobContext.
LEMMA TaskKeepsContext ==
  ASSUME Inv, NEW j \in Jobs, Task(j),
         ~OpenSession(j), ~StepSucceeds(j), ~ResumeManualChallenge(j)
  PROVE  /\ answers' = answers /\ done' = done
         /\ Attempting(j)' => Attempting(j)
<1>0. TypeOK /\ JobInv(j)
  BY DEF Inv
<1>1. CASE RunAttempt(j) \/ StartRunning(j) \/ SessionFails(j) \/ StepFails(j)
  BY <1>0, <1>1 DEF Attempting, Working, TypeOK, RunAttempt, StartRunning, SessionFails,
    StepFails, At, Throw, GoTo, durableVars, historyVars
<1>2. CASE StepIsChallenged(j) \/ StepIsAborted(j) \/ HandleFailure(j)
  BY <1>0, <1>2 DEF Attempting, Working, TypeOK, StepIsChallenged, StepIsAborted,
    HandleFailure, Retryable, Terminal, At, Throw, GoTo, durableVars, historyVars
<1>3. CASE KeepIp(j) \/ ScheduleRetry(j) \/ Wake(j)
  BY <1>0, <1>3 DEF Attempting, Working, TypeOK, KeepIp, ScheduleRetry, Wake, At, GoTo,
    historyVars
<1>4. CASE Delivery(j)
  <2>1. answers' = answers /\ done' = done /\ error' = error
    BY <1>4 DEF Delivery, Capture, RefuseDelivery, Requeue, BeginDelivery, Send, IsNotSent,
      IsRejected, IsUncertain, IsAcknowledged, RecordFailure, Terminalize, Release, taskVars,
      historyVars
  <2>2. pc'[j] \in { "idle", "deliver", "begun", "sending", "terminalize", "release" }
    BY <1>0, <1>4 DEF TypeOK, Delivery, Capture, RefuseDelivery, Requeue, BeginDelivery,
      Send, IsNotSent, IsRejected, IsUncertain, IsAcknowledged, RecordFailure, Terminalize,
      Release, At, GoTo, taskVars
  <2> QED BY <2>1, <2>2 DEF Attempting, Working
<1>5. CASE Recovery(j)
  <2>1. answers' = answers /\ done' = done /\ error' = error
    BY <1>5 DEF Recovery, RecoverFinalResult, RecoverManualChallenge, RecoverParkedJob,
      RecoverInterruptedExecution, CountInterruption, ScheduleInterrupted,
      RecoverPreExecution, Redeliver, Recovering, historyVars
  <2>2. pc'[j] \in { "idle", "deliver", "terminalize", "recovery kept", "recovery counted" }
    BY <1>0, <1>5 DEF TypeOK, Recovery, RecoverFinalResult, RecoverManualChallenge,
      RecoverParkedJob, RecoverInterruptedExecution, CountInterruption, ScheduleInterrupted,
      RecoverPreExecution, Redeliver, Recovering, GoTo, durableVars
  <2> QED BY <2>1, <2>2 DEF Attempting, Working
<1> QED BY <1>1, <1>2, <1>3, <1>4, <1>5 DEF Task, Attempt

\* A new attempt starts from an empty JobContext only when nothing was answered.
LEMMA OpenSessionKeepsProgress ==
  ASSUME Inv, NEW j \in Jobs, Progress(j), OpenSession(j)
  PROVE  Progress(j)'
<1>0. TypeOK
  BY DEF Inv
<1>1. Len(Workflow) \in Nat
  BY ExecutionAssumption
<1>2. DEFINE n == IF done[j] = NoContext THEN 0 ELSE done[j]
<1>3. n \in 0 .. Len(Workflow) /\ n # NoContext
  BY <1>0, <1>1 DEF TypeOK, Steps, NoContext
<1>4. done'[j] = n /\ answers' = answers
  BY <1>0, <1>3, ContinueType DEF OpenSession, historyVars
<1>5. Attempting(j)
  BY DEF OpenSession, At, Attempting, Working
<1>6. \A k \in Steps : k > n => answers[j][k] = 0
  BY <1>5 DEF Progress
<1> QED BY <1>3, <1>4, <1>6 DEF Progress

\* The step that succeeds is the first one the JobContext does not hold.
LEMMA StepSucceedsKeepsProgress ==
  ASSUME Inv, NEW j \in Jobs, Progress(j), StepSucceeds(j)
  PROVE  Progress(j)'
<1>0. TypeOK /\ Len(Workflow) \in Nat
  BY ExecutionAssumption DEF Inv
<1>1. done[j] \in 0 .. (Len(Workflow) - 1)
  BY DEF Inv, JobInv, Position, StepSucceeds, At
<1>2. done[j] + 1 \in Steps /\ done[j] + 1 \in 0 .. Len(Workflow)
      /\ done[j] + 1 # NoContext /\ done[j] # NoContext
  BY <1>0, <1>1 DEF Steps, NoContext
<1>3. done'[j] = done[j] + 1
  BY <1>0, <1>2, ContinueType DEF StepSucceeds
<1>4. answers[j] \in [Steps -> Nat]
      /\ answers'[j] = [answers[j] EXCEPT ![done[j] + 1] = @ + 1]
  BY <1>0 DEF TypeOK, StepSucceeds
<1>5. \A k \in Steps : k > done[j] => answers[j][k] = 0
  BY <1>2 DEF Progress
<1>6. answers[j][done[j] + 1] = 0
  BY <1>1, <1>2, <1>5
<1>7. \A k \in Steps : answers'[j][k] <= 1
  BY <1>4, <1>6 DEF Progress
<1>8. ASSUME NEW k \in Steps, k > done[j] + 1 PROVE answers'[j][k] = 0
  BY <1>0, <1>1, <1>4, <1>5, <1>8 DEF Steps
<1> QED BY <1>2, <1>3, <1>7, <1>8 DEF Progress

LEMMA ResumeKeepsProgress ==
  ASSUME Inv, NEW j \in Jobs, Progress(j), ResumeManualChallenge(j)
  PROVE  Progress(j)'
<1>0. TypeOK /\ Len(Workflow) \in Nat
  BY ExecutionAssumption DEF Inv
<1>1. answers' = answers
  BY DEF ResumeManualChallenge, historyVars
<1>2. CASE done[j] = NoContext
  <2>1. done' = done /\ Throw(j, "NO_CONTEXT") /\ handedOff' = handedOff /\ "NO_CONTEXT" \in Errors
    BY <1>2 DEF ResumeManualChallenge, Errors, processVars
  <2>2. pc'[j] = "classify" /\ error'[j] = "NO_CONTEXT"
    BY <1>0, <2>1, ThrowType
  <2>3. j \notin handedOff
    BY DEF Inv, JobInv, StateAtPc, ResumeManualChallenge, At
  <2> QED BY <1>1, <2>1, <2>2, <2>3 DEF Progress, Attempting, Working
<1>3. CASE done[j] # NoContext
  <2>1. done[j] \in 0 .. Len(Workflow) /\ Continue(j, done[j])
    BY <1>0, <1>3 DEF TypeOK, Steps, NoContext, ResumeManualChallenge
  <2>2. done'[j] = done[j]
    BY <1>0, <2>1, ContinueType
  <2> QED BY <1>1, <1>3, <2>2 DEF Progress
<1> QED BY <1>2, <1>3

LEMMA TaskKeepsProgress ==
  ASSUME Inv, NEW j \in Jobs, Task(j), \A k \in Jobs : Progress(k)
  PROVE  \A k \in Jobs : Progress(k)'
<1>0. TypeOK
  BY DEF Inv
<1>1. ASSUME NEW k \in Jobs \ {j} PROVE Progress(k)'
  <2>1. /\ pc'[k] = pc[k] /\ done'[k] = done[k] /\ error'[k] = error[k]
        /\ answers'[k] = answers[k] /\ handedOff' = handedOff /\ Progress(k)
    BY <1>0, TaskLocal DEF OthersUntouched
  <2> QED BY <2>1 DEF Progress, Attempting
<1>2. Progress(j)'
  <2>1. CASE ~OpenSession(j) /\ ~StepSucceeds(j) /\ ~ResumeManualChallenge(j)
    <3>1. answers' = answers /\ done' = done /\ handedOff' = handedOff
          /\ (Attempting(j)' => Attempting(j))
      BY <1>0, <2>1, TaskKeepsContext, TaskLocal DEF OthersUntouched
    <3> QED BY <3>1 DEF Progress
  <2> QED BY <2>1, OpenSessionKeepsProgress, StepSucceedsKeepsProgress, ResumeKeepsProgress
<1> QED BY <1>1, <1>2

LEMMA NextKeepsProgress ==
  ASSUME Inv, [Next]_vars, \A j \in Jobs : Progress(j)
  PROVE  \A j \in Jobs : Progress(j)'
<1>0. TypeOK
  BY DEF Inv
<1>1. CASE \E j \in Jobs : Task(j)
  BY <1>1, TaskKeepsProgress
<1>2. CASE \E j \in Jobs : RequestResume(j)
  <2>1. PICK j \in Jobs : RequestResume(j)
    BY <1>2
  <2>2. OthersUntouched(j) /\ done' = done /\ answers' = answers /\ pc'[j] = "resume"
    BY <1>0, <2>1, RequestResumeLocal DEF RequestResume, GoTo, TypeOK, historyVars
  <2>3. ASSUME NEW k \in Jobs PROVE Attempting(k)' => Attempting(k)
    BY <2>2 DEF OthersUntouched, Attempting, Working
  <2> QED BY <2>2, <2>3 DEF OthersUntouched, Progress
<1>3. CASE ProcessRestart
  <2>1. ASSUME NEW j \in Jobs
        PROVE  answers'[j] = answers[j] /\ done'[j] = NoContext /\ pc'[j] = "idle"
               /\ handedOff' = {}
    BY <1>3 DEF ProcessRestart
  <2> QED BY <2>1 DEF Progress, Attempting, Working
<1>4. CASE Admit
  <2>1. answers' = answers /\ done' = done /\ error' = error /\ handedOff' = {}
    BY <1>4 DEF Admit, historyVars
  <2>2. ASSUME NEW j \in Jobs PROVE pc'[j] = pc[j] \/ j \in handedOff
    BY <1>4 DEF Admit
  <2>3. ASSUME NEW j \in Jobs PROVE Attempting(j)' => Attempting(j) \/ j \in handedOff
    BY <2>1, <2>2 DEF Attempting
  <2> QED BY <2>1, <2>3 DEF Progress
<1>5. CASE \/ Stop \/ BeginRedelivery \/ BootCompletes \/ UNCHANGED vars
           \/ \E j \in Jobs : PortalApplies(j)
  <2>1. UNCHANGED << taskVars, answers, handedOff >>
    BY <1>5 DEF Stop, BeginRedelivery, BootCompletes, PortalApplies, vars, processVars,
      historyVars
  <2> QED BY <2>1 DEF Progress, Attempting, taskVars
<1> QED BY <1>1, <1>2, <1>3, <1>4, <1>5 DEF Next

------------------------------------------------------------------------------
(* Who is in charge of a job.                                               *)

\* Only a step that is challenged makes a task handle a challenge.
LEMMA AttemptKeepsChallengeParked ==
  ASSUME Inv, NEW j \in Jobs, Attempt(j)
  PROVE  ChallengeParked(j)'
<1>0. TypeOK /\ JobInv(j) /\ Len(Workflow) \in Nat
  BY ExecutionAssumption DEF Inv
<1>1. stopped' = stopped
  BY <1>0, AttemptLocal DEF OthersUntouched
<1>2. CASE StepIsChallenged(j)
  <2>1. jobState[j] = "RUNNING"
    BY <1>0, <1>2 DEF StepIsChallenged, At, JobInv, StateAtPc
  <2>2. ~stopped => Transition(j, "WAITING_FOR_MANUAL_CHALLENGE")
    BY <1>2, <2>1 DEF StepIsChallenged
  <2>3. "WAITING_FOR_MANUAL_CHALLENGE" \in JobStates
    BY DEF JobStates, LiveJobStates
  <2>4. ~stopped => jobState'[j] = "WAITING_FOR_MANUAL_CHALLENGE"
    BY <1>0, <2>2, <2>3, TransitionType
  <2> QED BY <1>1, <2>4 DEF ChallengeParked
<1>3. CASE RunAttempt(j) \/ SessionFails(j) \/ StepFails(j) \/ StepIsAborted(j)
  <2>1. pc'[j] # "classify" \/ error'[j] # "CHALLENGE"
    BY <1>0, <1>3 DEF TypeOK, RunAttempt, SessionFails, StepFails, StepIsAborted, Throw, GoTo
  <2> QED BY <2>1 DEF ChallengeParked
<1>4. CASE OpenSession(j) \/ StepSucceeds(j) \/ ResumeManualChallenge(j)
  <2>1. \/ Throw(j, "NO_CONTEXT")
        \/ \E n \in 0 .. Len(Workflow) : Continue(j, n)
    <3>1. CASE OpenSession(j)
      BY <1>0, <3>1 DEF OpenSession, TypeOK, Steps
    <3>2. CASE StepSucceeds(j)
      <4>1. done[j] + 1 \in 0 .. Len(Workflow)
        BY <1>0, <3>2 DEF JobInv, Position, StepSucceeds, At
      <4> QED BY <3>2, <4>1 DEF StepSucceeds
    <3>3. CASE ResumeManualChallenge(j)
      <4>1. done[j] # NoContext => done[j] \in 0 .. Len(Workflow)
        BY <1>0 DEF TypeOK, Steps
      <4> QED BY <3>3, <4>1 DEF ResumeManualChallenge
    <3> QED BY <1>4, <3>1, <3>2, <3>3
  <2>2. pc'[j] # "classify" \/ error'[j] \in { "CANCELLED", "NO_CONTEXT" }
    BY <1>0, <2>1, ContinueType, ThrowType DEF Errors
  <2> QED BY <2>2 DEF ChallengeParked
<1>5. CASE StartRunning(j) \/ HandleFailure(j) \/ KeepIp(j) \/ ScheduleRetry(j) \/ Wake(j)
  <2>1. pc'[j] # "classify"
    BY <1>0, <1>5 DEF TypeOK, StartRunning, HandleFailure, KeepIp, ScheduleRetry, Wake, GoTo
  <2> QED BY <2>1 DEF ChallengeParked
<1> QED BY <1>2, <1>3, <1>4, <1>5 DEF Attempt

LEMMA NextKeepsChallengeParked ==
  ASSUME Inv, [Next]_vars, \A j \in Jobs : ChallengeParked(j)
  PROVE  \A j \in Jobs : ChallengeParked(j)'
<1>0. TypeOK
  BY DEF Inv
<1>1. ASSUME NEW j \in Jobs, OthersUntouched(j), ChallengeParked(j)'
      PROVE  \A k \in Jobs : ChallengeParked(k)'
  BY <1>1 DEF OthersUntouched, ChallengeParked
<1>2. ASSUME NEW j \in Jobs, Delivery(j) \/ Recovery(j)
      PROVE  pc'[j] # "classify"
  <2>1. CASE Delivery(j)
    BY <1>0, <2>1 DEF TypeOK, Delivery, Capture, RefuseDelivery, Requeue, BeginDelivery, Send,
      IsNotSent, IsRejected, IsUncertain, IsAcknowledged, RecordFailure, Terminalize, Release,
      At, GoTo, taskVars
  <2>2. CASE Recovery(j)
    BY <1>0, <2>2 DEF TypeOK, Recovery, RecoverFinalResult, RecoverManualChallenge,
      RecoverParkedJob, RecoverInterruptedExecution, CountInterruption, ScheduleInterrupted,
      RecoverPreExecution, Redeliver, Recovering, GoTo, durableVars
  <2> QED BY <1>2, <2>1, <2>2
<1>3. CASE \E j \in Jobs : Task(j)
  <2>1. PICK j \in Jobs : Task(j)
    BY <1>3
  <2>2. ChallengeParked(j)'
    BY <1>2, <2>1, AttemptKeepsChallengeParked DEF Task, ChallengeParked
  <2> QED BY <1>0, <1>1, <2>1, <2>2, TaskLocal
<1>4. CASE \E j \in Jobs : RequestResume(j)
  <2>1. PICK j \in Jobs : RequestResume(j)
    BY <1>4
  <2>2. ChallengeParked(j)'
    BY <1>0, <2>1 DEF RequestResume, GoTo, TypeOK, ChallengeParked
  <2> QED BY <1>0, <1>1, <2>1, <2>2, RequestResumeLocal
<1>5. CASE ProcessRestart
  BY <1>5 DEF ProcessRestart, ChallengeParked
<1>6. CASE Admit
  <2>1. UNCHANGED << error, stopped, jobState >>
    BY <1>6 DEF Admit, durableVars
  <2>2. ASSUME NEW j \in Jobs PROVE pc'[j] \in { pc[j], "run" }
    BY <1>6 DEF Admit
  <2> QED BY <2>1, <2>2 DEF ChallengeParked
<1>7. CASE \/ Stop \/ BeginRedelivery \/ BootCompletes \/ UNCHANGED vars
           \/ \E j \in Jobs : PortalApplies(j)
  <2>1. UNCHANGED << pc, error, jobState >> /\ (stopped => stopped')
    BY <1>7 DEF Stop, BeginRedelivery, BootCompletes, PortalApplies, vars, durableVars,
      taskVars, processVars
  <2> QED BY <2>1 DEF ChallengeParked
<1> QED BY <1>3, <1>4, <1>5, <1>6, <1>7 DEF Next

\* An attempt ends without a result at a challenge or by an abort, only.
LEMMA AttemptKeepsLeftInCharge ==
  ASSUME Inv, NEW j \in Jobs, ChallengeParked(j), LeftInCharge(j), Attempt(j)
  PROVE  LeftInCharge(j)'
<1>0. TypeOK /\ JobInv(j) /\ Len(Workflow) \in Nat
  BY ExecutionAssumption DEF Inv
<1>1. stopped' = stopped /\ restarts' = restarts /\ phase' = phase /\ result' = result
  BY <1>0, AttemptLocal, AttemptKeepsResults DEF OthersUntouched
<1>2. pc'[j] \notin { "recovery kept", "recovery counted" }
      /\ (pc'[j] = "idle" => HandleFailure(j) \/ stopped)
  <2>1. CASE OpenSession(j) \/ StepSucceeds(j) \/ ResumeManualChallenge(j)
    BY <1>0, <2>1 DEF TypeOK, OpenSession, StepSucceeds, ResumeManualChallenge, Continue,
      Throw, GoTo
  <2>2. CASE ~OpenSession(j) /\ ~StepSucceeds(j) /\ ~ResumeManualChallenge(j)
    BY <1>0, <2>2 DEF TypeOK, Attempt, RunAttempt, StartRunning, SessionFails, StepFails,
      StepIsChallenged, StepIsAborted, HandleFailure, KeepIp, ScheduleRetry, Wake, Throw, GoTo
  <2> QED BY <2>1, <2>2
<1>3. ASSUME HandleFailure(j), pc'[j] = "idle", ~stopped
      PROVE  jobState'[j] = "WAITING_FOR_MANUAL_CHALLENGE"
  <2>1. /\ pc[j] = "classify" /\ jobState' = jobState
        /\ ~Terminal(j) /\ ~(Retryable(j) /\ jobState[j] = "RUNNING")
    BY <1>0, <1>3 DEF TypeOK, HandleFailure, At, GoTo
  <2>2. error[j] = "CHALLENGE"
    BY <1>0, <2>1 DEF Terminal, Retryable, JobInv, StateAtFailure
  <2> QED BY <1>3, <2>1, <2>2 DEF ChallengeParked
<1> QED BY <1>1, <1>2, <1>3 DEF LeftInCharge

\* From the capture on there is a result, or the job is terminal.
LEMMA DeliveryKeepsLeftInCharge ==
  ASSUME Inv, NEW j \in Jobs, LeftInCharge(j), Delivery(j)
  PROVE  LeftInCharge(j)'
<1>0. TypeOK /\ JobInv(j)
  BY DEF Inv
<1>1. restarts' = restarts /\ phase' = phase
  BY <1>0, DeliveryLocal DEF OthersUntouched
<1>2. pc'[j] \notin { "recovery kept", "recovery counted" }
  BY <1>0 DEF TypeOK, Delivery, Capture, RefuseDelivery, Requeue, BeginDelivery, Send,
    IsNotSent, IsRejected, IsUncertain, IsAcknowledged, RecordFailure, Terminalize, Release,
    At, GoTo, taskVars
<1>3. result'[j] # NoResult \/ IsTerminal(jobState'[j])
  <2>1. CASE Capture(j)
    <3>1. jobState' = jobState
      BY <2>1 DEF Capture
    <3>2. CASE result[j] = NoResult /\ ~IsTerminal(jobState[j])
      <4>1. result'[j].status = "PENDING"
        BY <1>0, <2>1, <3>2 DEF Capture, TypeOK
      <4> QED BY <4>1 DEF NoResult
    <3>3. CASE result[j] # NoResult
      <4>1. result' = result
        BY <2>1, <3>3 DEF Capture
      <4> QED BY <3>3, <4>1
    <3> QED BY <3>1, <3>2, <3>3
  <2>2. CASE ~Capture(j)
    <3>1. pc[j] \in Delivering
      BY <2>2 DEF Delivery, RefuseDelivery, Requeue, BeginDelivery, Send, IsNotSent,
        IsRejected, IsUncertain, IsAcknowledged, Terminalize, Release, At, Delivering
    <3>2. result[j].status # "NONE"
      BY <1>0, <3>1 DEF JobInv, ResultAtPc, ResultOfJob
    <3>3. result'[j].status # "NONE"
      BY <1>0, <2>2, <3>2 DEF TypeOK, Delivery, RefuseDelivery, Requeue, BeginDelivery, Send,
        IsNotSent, IsRejected, IsUncertain, IsAcknowledged, RecordFailure, SetDelivery,
        Terminalize, Release, durableVars
    <3> QED BY <3>3 DEF NoResult
  <2> QED BY <2>1, <2>2
<1> QED BY <1>1, <1>2, <1>3 DEF LeftInCharge

LEMMA NextKeepsLeftInCharge ==
  ASSUME Inv, [Next]_vars, \A j \in Jobs : ChallengeParked(j), \A j \in Jobs : LeftInCharge(j)
  PROVE  \A j \in Jobs : LeftInCharge(j)'
<1>0. TypeOK
  BY DEF Inv
<1>1. ASSUME NEW j \in Jobs, OthersUntouched(j), LeftInCharge(j)'
      PROVE  \A k \in Jobs : LeftInCharge(k)'
  BY <1>1 DEF OthersUntouched, LeftInCharge
<1>2. ASSUME NEW j \in Jobs, Recovery(j) PROVE LeftInCharge(j)'
  <2>1. restarts' = restarts
    BY <1>0, <1>2, RecoveryLocal DEF OthersUntouched
  <2>2. phase # "UP" \/ pc[j] \in { "recovery kept", "recovery counted" }
    BY <1>2 DEF Recovery, RecoverFinalResult, RecoverManualChallenge, RecoverParkedJob,
      RecoverInterruptedExecution, CountInterruption, ScheduleInterrupted,
      RecoverPreExecution, Redeliver, Recovering, At
  <2> QED BY <2>1, <2>2 DEF LeftInCharge
<1>3. CASE \E j \in Jobs : Task(j)
  <2>1. PICK j \in Jobs : Task(j)
    BY <1>3
  <2>2. LeftInCharge(j)'
    BY <1>2, <2>1, AttemptKeepsLeftInCharge, DeliveryKeepsLeftInCharge DEF Task
  <2> QED BY <1>0, <1>1, <2>1, <2>2, TaskLocal
<1>4. CASE \E j \in Jobs : RequestResume(j)
  <2>1. PICK j \in Jobs : RequestResume(j)
    BY <1>4
  <2>2. pc'[j] = "resume" /\ phase' = phase /\ restarts' = restarts
    BY <1>0, <2>1 DEF RequestResume, GoTo, TypeOK, processVars, historyVars
  <2>3. LeftInCharge(j)'
    BY <2>2 DEF LeftInCharge
  <2> QED BY <1>0, <1>1, <2>1, <2>3, RequestResumeLocal
<1>5. CASE ProcessRestart
  <2>1. restarts' # 0
    BY <1>0, <1>5, ExecutionAssumption DEF ProcessRestart, TypeOK
  <2> QED BY <2>1 DEF LeftInCharge
<1>6. CASE Admit
  <2>1. UNCHANGED << stopped, jobState, result, phase, restarts >>
    BY <1>6 DEF Admit, durableVars, historyVars
  <2>2. ASSUME NEW j \in Jobs
        PROVE  IF j \in handedOff /\ ~stopped THEN pc'[j] = "run" ELSE pc'[j] = pc[j]
    BY <1>6 DEF Admit
  <2> QED BY <2>1, <2>2 DEF LeftInCharge
<1>7. CASE \/ Stop \/ BeginRedelivery \/ BootCompletes \/ UNCHANGED vars
           \/ \E j \in Jobs : PortalApplies(j)
  <2>1. /\ UNCHANGED << pc, jobState, result, handedOff, restarts >>
        /\ (stopped => stopped') /\ (phase = "UP" => phase' = "UP")
    BY <1>7 DEF Stop, BeginRedelivery, BootCompletes, PortalApplies, vars, durableVars,
      taskVars, processVars, historyVars
  <2> QED BY <2>1 DEF LeftInCharge
<1> QED BY <1>3, <1>4, <1>5, <1>6, <1>7 DEF Next

------------------------------------------------------------------------------
(* The requests.                                                            *)

\* A delivery sends only from a row that stands for no request, and what may
\* have arrived leaves the row uncertain.
LEMMA DeliveryKeepsSentOnce ==
  ASSUME Inv, NEW j \in Jobs, SentOnce(j), Delivery(j)
  PROVE  SentOnce(j)'
<1> SUFFICES ASSUME "IDEMPOTENT" \notin Contracts
             PROVE  /\ wire'[j] + applied'[j] <= 1
                    /\ result'[j].status \in { "NONE", "PENDING" } \/ pc'[j] = "begun" =>
                         wire'[j] + applied'[j] = 0
  BY DEF SentOnce
<1>0. TypeOK /\ JobInv(j) /\ ~SupportsIdempotentReplay
  BY DEF Inv, TypeOK, SupportsIdempotentReplay
<1>1. wire[j] \in Nat /\ applied[j] \in Nat /\ wire[j] + applied[j] <= 1
  BY <1>0 DEF TypeOK, SentOnce
<1>2. result[j].status \in { "NONE", "PENDING" } \/ pc[j] = "begun" => wire[j] + applied[j] = 0
  BY DEF SentOnce
<1>3. CASE Capture(j)
  <2>1. UNCHANGED << wire, applied >> /\ pc'[j] # "begun"
    BY <1>0, <1>3 DEF Capture, GoTo, TypeOK, portalVars
  <2>2. result' = result \/ result[j] = NoResult
    BY <1>3 DEF Capture
  <2> QED BY <1>1, <1>2, <2>1, <2>2 DEF NoResult
<1>4. CASE RefuseDelivery(j) \/ Terminalize(j) \/ Release(j)
  <2>1. UNCHANGED << wire, applied, result >> /\ pc'[j] # "begun"
    BY <1>0, <1>4 DEF RefuseDelivery, Terminalize, Release, GoTo, TypeOK, durableVars,
      portalVars
  <2> QED BY <1>1, <1>2, <2>1
<1>5. CASE Requeue(j)
  <2>1. result[j].status = "UNCERTAIN" /\ ~ReplayIsBlocked(j)
    BY <1>5 DEF Requeue
  <2> QED BY <1>0, <2>1 DEF ReplayIsBlocked
<1>6. CASE BeginDelivery(j)
  <2>1. result[j].status = "PENDING" /\ UNCHANGED << wire, applied >>
    BY <1>6 DEF BeginDelivery, portalVars
  <2> QED BY <1>1, <1>2, <2>1
<1>7. CASE Send(j)
  <2>1. pc[j] = "begun" /\ pc'[j] = "sending" /\ result' = result
        /\ wire'[j] = wire[j] + 1 /\ applied' = applied
    BY <1>0, <1>7 DEF Send, At, GoTo, TypeOK, durableVars
  <2>2. result[j].status = "IN_FLIGHT"
    BY <1>0, <2>1 DEF JobInv, ResultAtPc
  <2> QED BY <1>1, <1>2, <2>1, <2>2
<1>8. CASE IsNotSent(j)
  <2>1. pc[j] = "begun" /\ UNCHANGED << wire, applied >>
    BY <1>8 DEF IsNotSent, At, portalVars
  <2> QED BY <1>1, <1>2, <2>1
<1>9. CASE IsRejected(j)
  <2>1. wire[j] > 0 /\ wire'[j] = wire[j] - 1 /\ applied' = applied
    BY <1>0, <1>9 DEF IsRejected, TypeOK
  <2> QED BY <1>1, <2>1
<1>10. CASE IsUncertain(j)
  <2>1. UNCHANGED << wire, applied >> /\ GoTo(j, "idle")
        /\ SetDelivery(j, "UNCERTAIN", "UNCERTAIN")
    BY <1>0, <1>10 DEF IsUncertain, RecordFailure, portalVars
  <2>2. pc'[j] = "idle" /\ result'[j].status = "UNCERTAIN"
    BY <1>0, <2>1, GoToType, SetDeliveryType
    DEF PcValues, Awaiting, DeliveryStatuses, Certainties
  <2> QED BY <1>1, <2>1, <2>2
<1>11. CASE IsAcknowledged(j)
  <2>1. UNCHANGED << wire, applied >> /\ GoTo(j, "terminalize")
        /\ SetDelivery(j, "DELIVERED", "NONE")
    BY <1>11 DEF IsAcknowledged, portalVars
  <2>2. pc'[j] = "terminalize" /\ result'[j].status = "DELIVERED"
    BY <1>0, <2>1, GoToType, SetDeliveryType
    DEF PcValues, Running, DeliveryStatuses, Certainties
  <2> QED BY <1>1, <2>1, <2>2
<1> QED BY <1>3, <1>4, <1>5, <1>6, <1>7, <1>8, <1>9, <1>10, <1>11 DEF Delivery

\* Attempts and recovery send nothing, and recovery takes a row that was in
\* flight for an uncertain one.
LEMMA OtherTasksKeepSentOnce ==
  ASSUME Inv, NEW j \in Jobs, SentOnce(j), Attempt(j) \/ Recovery(j)
  PROVE  SentOnce(j)'
<1>0. TypeOK
  BY DEF Inv
<1>1. CASE Attempt(j)
  <2>1. UNCHANGED << wire, applied, result >>
    BY <1>1, AttemptKeepsResults
    DEF Attempt, RunAttempt, StartRunning, OpenSession, SessionFails, StepSucceeds, StepFails,
      StepIsChallenged, StepIsAborted, HandleFailure, KeepIp, ScheduleRetry, Wake,
      ResumeManualChallenge, portalVars
  <2>2. pc'[j] # "begun"
    <3>1. CASE OpenSession(j) \/ StepSucceeds(j) \/ ResumeManualChallenge(j)
      BY <1>0, <3>1 DEF TypeOK, OpenSession, StepSucceeds, ResumeManualChallenge, Continue,
        Throw, GoTo
    <3>2. CASE ~OpenSession(j) /\ ~StepSucceeds(j) /\ ~ResumeManualChallenge(j)
      BY <1>0, <1>1, <3>2 DEF TypeOK, Attempt, RunAttempt, StartRunning, SessionFails,
        StepFails, StepIsChallenged, StepIsAborted, HandleFailure, KeepIp, ScheduleRetry,
        Wake, Throw, GoTo
    <3> QED BY <3>1, <3>2
  <2> QED BY <2>1, <2>2 DEF SentOnce
<1>2. CASE Recovery(j)
  <2>1. UNCHANGED << wire, applied >> /\ pc'[j] # "begun"
    BY <1>0, <1>2 DEF TypeOK, Recovery, RecoverFinalResult, RecoverManualChallenge,
      RecoverParkedJob, RecoverInterruptedExecution, CountInterruption, ScheduleInterrupted,
      RecoverPreExecution, Redeliver, Recovering, GoTo, durableVars, portalVars
  <2>2. result' = result \/ result'[j].status = "UNCERTAIN"
    <3>1. CASE RecoverFinalResult(j)
      BY <1>0, <3>1 DEF RecoverFinalResult, TypeOK
    <3>2. CASE ~RecoverFinalResult(j)
      BY <1>2, <3>2 DEF Recovery, RecoverManualChallenge, RecoverParkedJob,
        RecoverInterruptedExecution, CountInterruption, ScheduleInterrupted,
        RecoverPreExecution, Redeliver, durableVars
    <3> QED BY <3>1, <3>2
  <2> QED BY <2>1, <2>2 DEF SentOnce
<1> QED BY <1>1, <1>2

LEMMA NextKeepsSentOnce ==
  ASSUME Inv, [Next]_vars, \A j \in Jobs : SentOnce(j)
  PROVE  \A j \in Jobs : SentOnce(j)'
<1>0. TypeOK
  BY DEF Inv
<1>1. ASSUME NEW j \in Jobs, OthersUntouched(j), SentOnce(j)'
      PROVE  \A k \in Jobs : SentOnce(k)'
  BY <1>1 DEF OthersUntouched, SentOnce
<1>2. CASE \E j \in Jobs : Task(j)
  <2>1. PICK j \in Jobs : Task(j)
    BY <1>2
  <2>2. SentOnce(j)'
    BY <2>1, DeliveryKeepsSentOnce, OtherTasksKeepSentOnce DEF Task
  <2> QED BY <1>0, <1>1, <2>1, <2>2, TaskLocal
<1>3. CASE \E j \in Jobs : PortalApplies(j)
  <2>1. PICK j \in Jobs : PortalApplies(j)
    BY <1>3
  <2>2. /\ wire'[j] = wire[j] - 1 /\ applied'[j] = applied[j] + 1
        /\ wire[j] \in Nat /\ applied[j] \in Nat /\ UNCHANGED << pc, result >>
    BY <1>0, <2>1 DEF PortalApplies, TypeOK, durableVars, taskVars
  <2>3. wire'[j] + applied'[j] = wire[j] + applied[j]
    BY <2>2
  <2>4. SentOnce(j)'
    BY <2>2, <2>3 DEF SentOnce
  <2> QED BY <1>0, <1>1, <2>1, <2>4, PortalAppliesLocal
<1>4. CASE ProcessRestart \/ Admit \/ \E j \in Jobs : RequestResume(j)
  <2>1. UNCHANGED << wire, applied, result >>
    BY <1>4 DEF ProcessRestart, Admit, RequestResume, durableVars, portalVars
  <2>2. ASSUME NEW j \in Jobs PROVE pc'[j] \in { pc[j], "idle", "run", "resume" }
    BY <1>0, <1>4 DEF ProcessRestart, Admit, RequestResume, GoTo, TypeOK
  <2> QED BY <2>1, <2>2 DEF SentOnce
<1>5. CASE Stop \/ BeginRedelivery \/ BootCompletes \/ UNCHANGED vars
  <2>1. UNCHANGED << wire, applied, result, pc >>
    BY <1>5 DEF Stop, BeginRedelivery, BootCompletes, vars, durableVars, taskVars, portalVars
  <2> QED BY <2>1 DEF SentOnce
<1> QED BY <1>2, <1>3, <1>4, <1>5 DEF Next

------------------------------------------------------------------------------
(* The history is an invariant too.                                         *)

LEMMA InitHistoryInv ==
  ASSUME Init
  PROVE  HistoryInv
<1>1. ASSUME NEW j \in Jobs
      PROVE  Progress(j) /\ ChallengeParked(j) /\ LeftInCharge(j) /\ SentOnce(j)
  <2>1. /\ \A k \in Steps : answers[j][k] = 0
        /\ done[j] = NoContext /\ pc[j] = "idle" /\ j \in handedOff
        /\ wire[j] = 0 /\ applied[j] = 0 /\ phase = "UP"
    BY DEF Init
  <2>2. Progress(j)
    BY <2>1 DEF Progress
  <2>3. ChallengeParked(j) /\ LeftInCharge(j)
    BY <2>1 DEF ChallengeParked, LeftInCharge
  <2>4. SentOnce(j)
    BY <2>1 DEF SentOnce
  <2> QED BY <2>2, <2>3, <2>4
<1> QED BY <1>1 DEF HistoryInv

LEMMA NextHistoryInv ==
  ASSUME Inv, HistoryInv, [Next]_vars
  PROVE  HistoryInv'
BY NextKeepsProgress, NextKeepsChallengeParked, NextKeepsLeftInCharge, NextKeepsSentOnce
DEF HistoryInv

LEMMA HistoryInvariance == Spec => [](Inv /\ HistoryInv)
<1>1. Init => HistoryInv
  BY InitHistoryInv
<1>2. Inv /\ HistoryInv /\ [Next]_vars => HistoryInv'
  BY NextHistoryInv
<1> QED BY <1>1, <1>2, Invariance, PTL DEF Spec

------------------------------------------------------------------------------
(* What follows from it.                                                    *)

\* The workflow engine never repeats a step that succeeded: retries and resumes
\* skip what the JobContext holds, and a restart, which loses the JobContext,
\* leaves nothing that would start an attempt without it.
THEOREM StepsAnsweredOnce == Spec => []CompletedStepsNotReplayed
<1>1. HistoryInv => CompletedStepsNotReplayed
  BY DEF HistoryInv, Progress, CompletedStepsNotReplayed
<1> QED BY <1>1, HistoryInvariance, PTL

\* Nobody is left out: an execution of a process that was neither stopped nor
\* restarted ends with its job terminal, parked at a challenge for an operator,
\* or with a result the delivery is responsible for.
THEOREM NobodyAbandoned == Spec => []NoAbandonedJob
<1>1. HistoryInv => NoAbandonedJob
  BY DEF HistoryInv, LeftInCharge, NoAbandonedJob
<1> QED BY <1>1, HistoryInvariance, PTL

\* Whatever contract a boot is configured with out of those without verified
\* replay, or with it alone, deliverRecord sends a result only when the Portal
\* neither has an earlier one nor can still get it.
THEOREM NothingReplayedBlindly ==
  ASSUME "IDEMPOTENT" \notin Contracts \/ Contracts = { "IDEMPOTENT" }
  PROVE  Spec => []NoBlindReplay
<1>1. ASSUME Inv, HistoryInv PROVE NoBlindReplay
  <2>1. CASE "IDEMPOTENT" \notin Contracts
    BY <1>1, <2>1 DEF HistoryInv, SentOnce, NoBlindReplay
  <2>2. CASE Contracts = { "IDEMPOTENT" }
    BY <1>1, <2>2 DEF Inv, TypeOK, NoBlindReplay
  <2> QED BY <2>1, <2>2
<1>2. Inv /\ HistoryInv => NoBlindReplay
  BY <1>1
<1> QED BY <1>2, HistoryInvariance, PTL

\* Without verified replay the Portal applies the result of a job at most once,
\* through every refused, uncertain and recovered delivery.
THEOREM AppliedAtMostOnce ==
  ASSUME "IDEMPOTENT" \notin Contracts
  PROVE  Spec => [](\A j \in Jobs : applied[j] <= 1)
<1>1. ASSUME Inv, HistoryInv, NEW j \in Jobs PROVE applied[j] <= 1
  <2>1. wire[j] \in Nat /\ applied[j] \in Nat /\ wire[j] + applied[j] <= 1
    BY <1>1 DEF Inv, TypeOK, HistoryInv, SentOnce
  <2> QED BY <2>1
<1>2. Inv /\ HistoryInv => \A j \in Jobs : applied[j] <= 1
  BY <1>1
<1> QED BY <1>2, HistoryInvariance, PTL

\* Only the engine's loop sends a step's request, after assertNotAborted.
LEMMA TaskStepsUnlessStopped ==
  ASSUME Inv, NEW j \in Jobs, Task(j), stopped, pc'[j] = "step"
  PROVE  FALSE
<1>0. TypeOK
  BY DEF Inv
<1>1. CASE OpenSession(j) \/ StepSucceeds(j) \/ ResumeManualChallenge(j)
  BY <1>0, <1>1 DEF TypeOK, OpenSession, StepSucceeds, ResumeManualChallenge, Continue, Throw,
    GoTo
<1>2. CASE RunAttempt(j) \/ StartRunning(j) \/ SessionFails(j) \/ StepFails(j)
           \/ StepIsChallenged(j) \/ StepIsAborted(j) \/ HandleFailure(j) \/ KeepIp(j)
           \/ ScheduleRetry(j) \/ Wake(j)
  BY <1>0, <1>2 DEF TypeOK, RunAttempt, StartRunning, SessionFails, StepFails,
    StepIsChallenged, StepIsAborted, HandleFailure, KeepIp, ScheduleRetry, Wake, Throw, GoTo
<1>3. CASE Delivery(j)
  BY <1>0, <1>3 DEF TypeOK, Delivery, Capture, RefuseDelivery, Requeue, BeginDelivery, Send,
    IsNotSent, IsRejected, IsUncertain, IsAcknowledged, RecordFailure, Terminalize, Release,
    At, GoTo, taskVars
<1>4. CASE Recovery(j)
  BY <1>0, <1>4 DEF TypeOK, Recovery, RecoverFinalResult, RecoverManualChallenge,
    RecoverParkedJob, RecoverInterruptedExecution, CountInterruption, ScheduleInterrupted,
    RecoverPreExecution, Redeliver, Recovering, At, GoTo, durableVars
<1> QED BY <1>1, <1>2, <1>3, <1>4 DEF Task, Attempt

\* Once stop() has aborted the signals no attempt, retry or resume sends the
\* request of another step; the one that is out may still be answered.
THEOREM StoppedStartsNoStep == Spec => NoStepAfterStop
<1>1. ASSUME Inv, [Next]_vars, NEW j \in Jobs, stopped, pc'[j] = "step"
      PROVE  pc[j] = "step" /\ done'[j] = done[j]
  <2>0. TypeOK
    BY <1>1 DEF Inv
  <2>1. CASE \E k \in Jobs : Task(k)
    <3>1. PICK k \in Jobs : Task(k)
      BY <2>1
    <3>2. k # j
      BY <1>1, <3>1, TaskStepsUnlessStopped
    <3> QED BY <1>1, <2>0, <3>1, <3>2, TaskLocal DEF OthersUntouched
  <2>2. CASE Admit \/ ProcessRestart \/ \E k \in Jobs : RequestResume(k)
    BY <1>1, <2>0, <2>2 DEF Admit, ProcessRestart, RequestResume, GoTo, TypeOK
  <2>3. CASE \/ Stop \/ BeginRedelivery \/ BootCompletes \/ UNCHANGED vars
             \/ \E k \in Jobs : PortalApplies(k)
    BY <1>1, <2>3 DEF Stop, BeginRedelivery, BootCompletes, PortalApplies, vars, taskVars
  <2> QED BY <1>1, <2>1, <2>2, <2>3 DEF Next
<1>2. Inv /\ [Next]_vars =>
        [\A j \in Jobs :
           stopped /\ pc'[j] = "step" => pc[j] = "step" /\ done'[j] = done[j]]_vars
  BY <1>1
<1> QED BY <1>2, Invariance, PTL DEF Spec, NoStepAfterStop
=============================================================================
