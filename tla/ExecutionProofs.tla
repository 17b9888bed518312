--------------------------- MODULE ExecutionProofs ---------------------------
(***************************************************************************)
(* Proofs about ExecutionRuntime: for every set of jobs, every workflow,   *)
(* every retry budget and every number of restarts.                        *)
(*                                                                         *)
(* The properties speak of one job each, so does the invariant behind      *)
(* them: it says which states, allocations and results a job may have at   *)
(* each place of its task.                                                 *)
(***************************************************************************)
EXTENDS ExecutionRuntime, TLAPS

\* Before the outcome is captured.
Working == { "run", "activated", "session", "step", "counted", "kept", "sleeping" }

\* After it.
Delivering == { "deliver", "begun", "sending", "terminalize", "release" }

\* The state in which the task of j expects its job.
StateAtPc(j) ==
  /\ j \in handedOff => pc[j] = "idle" /\ jobState[j] = "WAITING_FOR_IP"
  /\ pc[j] \in { "run", "activated" } => jobState[j] \in { "WAITING_FOR_IP", "RETRY_PENDING" }
  /\ pc[j] \in { "session", "step", "counted", "kept" } => jobState[j] = "RUNNING"
  /\ pc[j] \in { "recovery kept", "recovery counted" } => jobState[j] = "RUNNING"
  /\ pc[j] = "sleeping" => jobState[j] = "RETRY_PENDING"
  /\ pc[j] = "resume" => jobState[j] = "WAITING_FOR_MANUAL_CHALLENGE"
  /\ pc[j] = "release" => IsTerminal(jobState[j])

\* An execution fails while its job runs, or because its context is gone.
StateAtFailure(j) ==
  /\ pc[j] = "classify" =>
       /\ error[j] # "NONE"
       /\ error[j] = "NO_CONTEXT" =>
            jobState[j] = "WAITING_FOR_MANUAL_CHALLENGE" /\ done[j] = NoContext
       /\ error[j] \notin { "CHALLENGE", "NO_CONTEXT" } => jobState[j] = "RUNNING"
  /\ pc[j] = "capture" =>
       \/ jobState[j] = "RUNNING"
       \/ /\ jobState[j] = "WAITING_FOR_MANUAL_CHALLENGE"
          /\ error[j] # "NONE" /\ done[j] = NoContext

\* Only a job with steps left is at a step.
Position(j) == pc[j] = "step" => done[j] \in 0 .. (Len(Workflow) - 1)

Budget(j) ==
  /\ retryCount[j] <= MaxRetries
  /\ pc[j] = "recovery kept" => retryCount[j] < MaxRetries

Address(j) ==
  /\ ip[j] = "RELEASED" => IsTerminal(jobState[j])
  /\ pc[j] \in { "activated", "session", "step" } => ip[j] = "ACTIVE"
  /\ jobState[j] = "WAITING_FOR_MANUAL_CHALLENGE" /\ done[j] # NoContext => ip[j] = "ACTIVE"

\* What is known of the result at each place, and what it says of the job.
ResultAtPc(j) ==
  /\ j \in handedOff \/ pc[j] \in Working => result[j] = NoResult
  /\ pc[j] \in { "recovery kept", "recovery counted" } => result[j] = NoResult
  /\ pc[j] = "classify" /\ result[j] # NoResult => error[j] = "NO_CONTEXT"
  /\ pc[j] = "capture" /\ result[j] # NoResult =>
       jobState[j] = "WAITING_FOR_MANUAL_CHALLENGE"
  /\ pc[j] \in Delivering => result[j] # NoResult
  /\ plan[j] \in { "FINAL_RESULT_PENDING", "FINAL_RESULT_UNCERTAIN" } => result[j] # NoResult
  /\ pc[j] \in { "begun", "sending" } => result[j].status = "IN_FLIGHT"
  /\ pc[j] \in { "terminalize", "release" } => result[j].status = "DELIVERED"
  /\ jobState[j] = "WAITING_FOR_MANUAL_CHALLENGE" /\ done[j] # NoContext =>
       result[j] = NoResult

ResultOfJob(j) ==
  /\ result[j].status = "NONE" => result[j] = NoResult
  /\ result[j] # NoResult =>
       \/ jobState[j] = "RUNNING"
       \/ jobState[j] = "WAITING_FOR_MANUAL_CHALLENGE" /\ result[j].outcome = "FAILURE"
       \/ IsTerminal(jobState[j])
  /\ result[j].status = "DELIVERED" => applied[j] > 0
  /\ IsTerminal(jobState[j]) =>
       /\ result[j].status = "DELIVERED"
       /\ jobState[j] = TerminalState(result[j].outcome)

JobInv(j) ==
  /\ StateAtPc(j) /\ StateAtFailure(j)
  /\ Position(j) /\ Budget(j) /\ Address(j)
  /\ ResultAtPc(j) /\ ResultOfJob(j)

Inv ==
  /\ TypeOK
  /\ phase # "UP" => handedOff = {}
  /\ \A j \in Jobs : JobInv(j)
------------------------------------------------------------------------------
(* The parts actions are made of, and their types.                          *)

PcValues == Awaiting \union Running

LEMMA GoToType ==
  ASSUME TypeOK, NEW j \in Jobs, NEW p \in PcValues, GoTo(j, p)
  PROVE  /\ pc' \in [Jobs -> PcValues]
         /\ pc'[j] = p
         /\ \A k \in Jobs \ {j} : pc'[k] = pc[k]
  BY DEF TypeOK, GoTo, PcValues

LEMMA ThrowType ==
  ASSUME TypeOK, NEW j \in Jobs, NEW e \in Errors, Throw(j, e)
  PROVE  /\ pc' \in [Jobs -> PcValues] /\ error' \in [Jobs -> Errors]
         /\ pc'[j] = "classify" /\ error'[j] = e
         /\ \A k \in Jobs \ {j} : pc'[k] = pc[k] /\ error'[k] = error[k]
<1>1. GoTo(j, "classify") /\ error' = [error EXCEPT ![j] = e]
  BY DEF Throw
<1>2. "classify" \in PcValues
  BY DEF PcValues, Running
<1>3. error \in [Jobs -> Errors]
  BY DEF TypeOK
<1> QED BY <1>1, <1>2, <1>3, GoToType

LEMMA TransitionType ==
  ASSUME TypeOK, NEW j \in Jobs, NEW to \in JobStates, Transition(j, to)
  PROVE  /\ jobState' \in [Jobs -> JobStates]
         /\ jobState'[j] = to /\ ~IsTerminal(jobState[j])
         /\ \A k \in Jobs \ {j} : jobState'[k] = jobState[k]
<1>1. jobState \in [Jobs -> JobStates]
  BY DEF TypeOK
<1>2. to \in Successors(jobState[j]) /\ jobState' = [jobState EXCEPT ![j] = to]
  BY DEF Transition, CanTransition
<1>3. ~IsTerminal(jobState[j])
  BY <1>2 DEF Successors, IsTerminal, TerminalJobStates
<1> QED BY <1>1, <1>2, <1>3

\* An attempt that goes on is at its next step, at its end, or aborted.
LEMMA ContinueType ==
  ASSUME TypeOK, NEW j \in Jobs, NEW n \in 0 .. Len(Workflow), Continue(j, n)
  PROVE  /\ pc' \in [Jobs -> PcValues] /\ error' \in [Jobs -> Errors]
         /\ done' \in [Jobs -> Steps \union { 0, NoContext }]
         /\ done'[j] = n
         /\ \/ pc'[j] = "capture" /\ error'[j] = "NONE"
            \/ pc'[j] = "classify" /\ error'[j] = "CANCELLED"
            \/ pc'[j] = "step" /\ n \in 0 .. (Len(Workflow) - 1) /\ error'[j] = error[j]
         /\ \A k \in Jobs \ {j} :
              pc'[k] = pc[k] /\ error'[k] = error[k] /\ done'[k] = done[k]
<1>0. Len(Workflow) \in Nat
  BY ExecutionAssumption
<1>1. done \in [Jobs -> Steps \union { 0, NoContext }] /\ error \in [Jobs -> Errors]
      /\ done' = [done EXCEPT ![j] = n]
  BY DEF TypeOK, Continue
<1>2. n \in Steps \union { 0, NoContext }
  BY <1>0 DEF Steps
<1>3. { "capture", "step" } \subseteq PcValues /\ { "NONE", "CANCELLED" } \subseteq Errors
  BY DEF PcValues, Awaiting, Running, Errors
<1>4. CASE n = Len(Workflow)
  <2>1. GoTo(j, "capture") /\ error' = [error EXCEPT ![j] = "NONE"]
    BY <1>4 DEF Continue
  <2> QED BY <2>1, <1>1, <1>2, <1>3, GoToType
<1>5. CASE n # Len(Workflow) /\ stopped
  <2>1. Throw(j, "CANCELLED")
    BY <1>5 DEF Continue
  <2> QED BY <2>1, <1>1, <1>2, <1>3, ThrowType
<1>6. CASE n # Len(Workflow) /\ ~stopped
  <2>1. GoTo(j, "step") /\ error' = error
    BY <1>6 DEF Continue
  <2>2. n \in 0 .. (Len(Workflow) - 1)
    BY <1>0, <1>6
  <2> QED BY <2>1, <2>2, <1>1, <1>2, <1>3, GoToType
<1> QED BY <1>4, <1>5, <1>6

ResultRow == [status : DeliveryStatuses, outcome : Outcomes, certainty : Certainties]

LEMMA SetDeliveryType ==
  ASSUME TypeOK, NEW j \in Jobs, NEW s \in DeliveryStatuses, NEW c \in Certainties,
         SetDelivery(j, s, c)
  PROVE  /\ result' \in [Jobs -> ResultRow]
         /\ result'[j].status = s /\ result'[j].outcome = result[j].outcome
         /\ \A k \in Jobs \ {j} : result'[k] = result[k]
  BY DEF TypeOK, SetDelivery, ResultRow

\* A delivery that failed is over; its row waits or is uncertain.
LEMMA RecordFailureType ==
  ASSUME TypeOK, NEW j \in Jobs, NEW c \in Certainties, RecordFailure(j, c)
  PROVE  /\ pc' \in [Jobs -> PcValues] /\ result' \in [Jobs -> ResultRow]
         /\ pc'[j] = "idle"
         /\ result'[j].status \in { "PENDING", "UNCERTAIN" }
         /\ result'[j].outcome = result[j].outcome
         /\ \A k \in Jobs \ {j} : pc'[k] = pc[k] /\ result'[k] = result[k]
<1>1. "idle" \in PcValues /\ { "PENDING", "UNCERTAIN" } \subseteq DeliveryStatuses
      /\ "UNCERTAIN" \in Certainties
  BY DEF PcValues, Awaiting, DeliveryStatuses, Certainties
<1>2. GoTo(j, "idle")
      /\ (SetDelivery(j, "PENDING", c) \/ SetDelivery(j, "UNCERTAIN", "UNCERTAIN"))
  BY DEF RecordFailure
<1> QED BY <1>1, <1>2, GoToType, SetDeliveryType

------------------------------------------------------------------------------
(* Steps of one task.                                                       *)

\* What a step of the task of j leaves alone.
Frame(j) ==
  /\ \A k \in Jobs \ {j} :
       /\ jobState'[k] = jobState[k] /\ retryCount'[k] = retryCount[k] /\ ip'[k] = ip[k]
       /\ result'[k] = result[k] /\ pc'[k] = pc[k] /\ done'[k] = done[k]
       /\ error'[k] = error[k] /\ plan'[k] = plan[k] /\ applied'[k] = applied[k]
  /\ handedOff' = handedOff /\ phase' = phase

LEMMA OthersKeepInv ==
  ASSUME Inv, NEW j \in Jobs, Frame(j), TypeOK', JobInv(j)'
  PROVE  Inv'
<1>1. ASSUME NEW k \in Jobs \ {j} PROVE JobInv(k)'
  <2>1. JobInv(k)
    BY DEF Inv
  <2>2. /\ jobState'[k] = jobState[k] /\ retryCount'[k] = retryCount[k] /\ ip'[k] = ip[k]
        /\ result'[k] = result[k] /\ pc'[k] = pc[k] /\ done'[k] = done[k]
        /\ error'[k] = error[k] /\ plan'[k] = plan[k] /\ applied'[k] = applied[k]
        /\ handedOff' = handedOff
    BY DEF Frame
  <2>3. StateAtPc(k)' /\ StateAtFailure(k)' /\ Position(k)' /\ Budget(k)' /\ Address(k)'
    BY <2>1, <2>2
    DEF JobInv, StateAtPc, StateAtFailure, Position, Budget, Address
  <2>4. ResultAtPc(k)' /\ ResultOfJob(k)'
    BY <2>1, <2>2 DEF JobInv, ResultAtPc, ResultOfJob
  <2> QED BY <2>3, <2>4 DEF JobInv
<1>2. (phase # "UP" => handedOff = {})'
  BY DEF Inv, Frame
<1> QED BY <1>1, <1>2 DEF Inv

LEMMA WakeKeepsInv ==
  ASSUME Inv, NEW j \in Jobs, Wake(j)
  PROVE  Inv'
<1>0. TypeOK /\ JobInv(j)
  BY DEF Inv
<1>1. UNCHANGED << jobState, retryCount, currentStep, ip, result, phase, contract, stopped,
                   done, error, handedOff, unrecovered, plan, wire, applied, interrupted,
                   answers, restarts >>
  BY DEF Wake, durableVars, taskVars, processVars, portalVars, historyVars
<1>2. /\ pc[j] = "sleeping" /\ pc'[j] \in { "idle", "run" } /\ pc' \in [Jobs -> PcValues]
      /\ \A k \in Jobs \ {j} : pc'[k] = pc[k]
  BY <1>0, GoToType DEF Wake, At, PcValues, Awaiting, Running
<1>3. TypeOK'
  BY <1>0, <1>1, <1>2 DEF TypeOK, PcValues, ResultRow
<1>4. Frame(j)
  BY <1>1, <1>2 DEF Frame
<1>5. JobInv(j)'
  BY <1>0, <1>1, <1>2
  DEF JobInv, StateAtPc, StateAtFailure, Position, Budget, Address, ResultAtPc, ResultOfJob,
      Working, Delivering
<1> QED BY <1>3, <1>4, <1>5, OthersKeepInv

LEMMA SessionFailsKeepsInv ==
  ASSUME Inv, NEW j \in Jobs, SessionFails(j)
  PROVE  Inv'
<1>0. TypeOK /\ JobInv(j)
  BY DEF Inv
<1>1. UNCHANGED << jobState, retryCount, currentStep, ip, result, phase, contract, stopped,
                   done, handedOff, unrecovered, plan, wire, applied, interrupted, answers,
                   restarts >>
  BY DEF SessionFails, durableVars, taskVars, processVars, portalVars, historyVars
<1>2. /\ pc[j] = "session" /\ pc'[j] = "classify" /\ error'[j] \in { "RETRYABLE", "FATAL" }
      /\ pc' \in [Jobs -> PcValues] /\ error' \in [Jobs -> Errors]
      /\ \A k \in Jobs \ {j} : pc'[k] = pc[k] /\ error'[k] = error[k]
  BY <1>0, ThrowType DEF SessionFails, At, Errors
<1>3. TypeOK'
  BY <1>0, <1>1, <1>2 DEF TypeOK, PcValues, ResultRow
<1>4. Frame(j)
  BY <1>1, <1>2 DEF Frame
<1>5. JobInv(j)'
  BY <1>0, <1>1, <1>2
  DEF JobInv, StateAtPc, StateAtFailure, Position, Budget, Address, ResultAtPc, ResultOfJob,
      Working, Delivering
<1> QED BY <1>3, <1>4, <1>5, OthersKeepInv

LEMMA StepFailsKeepsInv ==
  ASSUME Inv, NEW j \in Jobs, StepFails(j)
  PROVE  Inv'
<1>0. TypeOK /\ JobInv(j)
  BY DEF Inv
<1>1. UNCHANGED << jobState, retryCount, currentStep, ip, result, phase, contract, stopped,
                   done, handedOff, unrecovered, plan, wire, applied, interrupted, answers,
                   restarts >>
  BY DEF StepFails, durableVars, taskVars, processVars, portalVars, historyVars
<1>2. /\ pc[j] = "step" /\ pc'[j] = "classify" /\ error'[j] \in { "RETRYABLE", "FATAL" }
      /\ pc' \in [Jobs -> PcValues] /\ error' \in [Jobs -> Errors]
      /\ \A k \in Jobs \ {j} : pc'[k] = pc[k] /\ error'[k] = error[k]
  BY <1>0, ThrowType DEF StepFails, At, Errors
<1>3. TypeOK'
  BY <1>0, <1>1, <1>2 DEF TypeOK, PcValues, ResultRow
<1>4. Frame(j)
  BY <1>1, <1>2 DEF Frame
<1>5. JobInv(j)'
  BY <1>0, <1>1, <1>2
  DEF JobInv, StateAtPc, StateAtFailure, Position, Budget, Address, ResultAtPc, ResultOfJob,
      Working, Delivering
<1> QED BY <1>3, <1>4, <1>5, OthersKeepInv

LEMMA StepIsAbortedKeepsInv ==
  ASSUME Inv, NEW j \in Jobs, StepIsAborted(j)
  PROVE  Inv'
<1>0. TypeOK /\ JobInv(j)
  BY DEF Inv
<1>1. UNCHANGED << jobState, retryCount, currentStep, ip, result, phase, contract, stopped,
                   done, handedOff, unrecovered, plan, wire, applied, interrupted, answers,
                   restarts >>
  BY DEF StepIsAborted, durableVars, taskVars, processVars, portalVars, historyVars
<1>2. /\ pc[j] = "step" /\ pc'[j] = "classify" /\ error'[j] = "CANCELLED"
      /\ pc' \in [Jobs -> PcValues] /\ error' \in [Jobs -> Errors]
      /\ \A k \in Jobs \ {j} : pc'[k] = pc[k] /\ error'[k] = error[k]
  BY <1>0, ThrowType DEF StepIsAborted, At, Errors
<1>3. TypeOK'
  BY <1>0, <1>1, <1>2 DEF TypeOK, PcValues, ResultRow
<1>4. Frame(j)
  BY <1>1, <1>2 DEF Frame
<1>5. JobInv(j)'
  BY <1>0, <1>1, <1>2
  DEF JobInv, StateAtPc, StateAtFailure, Position, Budget, Address, ResultAtPc, ResultOfJob,
      Working, Delivering
<1> QED BY <1>3, <1>4, <1>5, OthersKeepInv

LEMMA StartRunningKeepsInv ==
  ASSUME Inv, NEW j \in Jobs, StartRunning(j)
  PROVE  Inv'
<1>0. TypeOK /\ JobInv(j)
  BY DEF Inv
<1>1. UNCHANGED << retryCount, currentStep, ip, result, phase, contract, stopped, done,
                   error, handedOff, unrecovered, plan, wire, applied, interrupted, answers,
                   restarts >>
  BY DEF StartRunning, durableVars, taskVars, processVars, portalVars, historyVars
<1>2. /\ pc[j] = "activated" /\ pc'[j] = "session" /\ jobState'[j] = "RUNNING"
      /\ pc' \in [Jobs -> PcValues] /\ jobState' \in [Jobs -> JobStates]
      /\ \A k \in Jobs \ {j} : pc'[k] = pc[k] /\ jobState'[k] = jobState[k]
  BY <1>0, GoToType, TransitionType
  DEF StartRunning, At, PcValues, Awaiting, Running, JobStates, LiveJobStates
<1>3. TypeOK'
  BY <1>0, <1>1, <1>2 DEF TypeOK, PcValues, ResultRow
<1>4. Frame(j)
  BY <1>1, <1>2 DEF Frame
<1>5. JobInv(j)'
  BY <1>0, <1>1, <1>2
  DEF JobInv, StateAtPc, StateAtFailure, Position, Budget, Address, ResultAtPc, ResultOfJob,
      Working, Delivering, IsTerminal, TerminalJobStates
<1> QED BY <1>3, <1>4, <1>5, OthersKeepInv

LEMMA KeepIpKeepsInv ==
  ASSUME Inv, NEW j \in Jobs, KeepIp(j)
  PROVE  Inv'
<1>0. TypeOK /\ JobInv(j)
  BY DEF Inv
<1>1. UNCHANGED << jobState, retryCount, currentStep, result, phase, contract, stopped,
                   done, error, handedOff, unrecovered, plan, wire, applied, interrupted,
                   answers, restarts >>
  BY DEF KeepIp, durableVars, taskVars, processVars, portalVars, historyVars
<1>2. /\ pc[j] = "counted" /\ pc'[j] = "kept" /\ ip'[j] = "RETRY_RESERVED"
      /\ pc' \in [Jobs -> PcValues] /\ ip' \in [Jobs -> AllocationStates]
      /\ \A k \in Jobs \ {j} : pc'[k] = pc[k] /\ ip'[k] = ip[k]
  BY <1>0, GoToType DEF KeepIp, At, TypeOK, AllocationStates, PcValues, Awaiting, Running
<1>3. TypeOK'
  BY <1>0, <1>1, <1>2 DEF TypeOK, PcValues, ResultRow
<1>4. Frame(j)
  BY <1>1, <1>2 DEF Frame
<1>5. JobInv(j)'
  BY <1>0, <1>1, <1>2
  DEF JobInv, StateAtPc, StateAtFailure, Position, Budget, Address, ResultAtPc, ResultOfJob,
      Working, Delivering
<1> QED BY <1>3, <1>4, <1>5, OthersKeepInv

LEMMA ScheduleRetryKeepsInv ==
  ASSUME Inv, NEW j \in Jobs, ScheduleRetry(j)
  PROVE  Inv'
<1>0. TypeOK /\ JobInv(j)
  BY DEF Inv
<1>1. UNCHANGED << retryCount, currentStep, ip, result, phase, contract, stopped, done,
                   error, handedOff, unrecovered, plan, wire, applied, interrupted, answers,
                   restarts >>
  BY DEF ScheduleRetry, durableVars, taskVars, processVars, portalVars, historyVars
<1>2. /\ pc[j] = "kept" /\ pc'[j] \in { "idle", "sleeping" } /\ jobState'[j] = "RETRY_PENDING"
      /\ pc' \in [Jobs -> PcValues] /\ jobState' \in [Jobs -> JobStates]
      /\ \A k \in Jobs \ {j} : pc'[k] = pc[k] /\ jobState'[k] = jobState[k]
  BY <1>0, GoToType, TransitionType
  DEF ScheduleRetry, At, PcValues, Awaiting, Running, JobStates, LiveJobStates
<1>3. TypeOK'
  BY <1>0, <1>1, <1>2 DEF TypeOK, PcValues, ResultRow
<1>4. Frame(j)
  BY <1>1, <1>2 DEF Frame
<1>5. JobInv(j)'
  BY <1>0, <1>1, <1>2
  DEF JobInv, StateAtPc, StateAtFailure, Position, Budget, Address, ResultAtPc, ResultOfJob,
      Working, Delivering, IsTerminal, TerminalJobStates
<1> QED BY <1>3, <1>4, <1>5, OthersKeepInv

LEMMA RunAttemptKeepsInv ==
  ASSUME Inv, NEW j \in Jobs, RunAttempt(j)
  PROVE  Inv'
<1>0. TypeOK /\ JobInv(j)
  BY DEF Inv
<1>1. UNCHANGED << jobState, retryCount, currentStep, result, phase, contract, stopped,
                   done, handedOff, unrecovered, plan, wire, applied, interrupted, answers,
                   restarts >>
  BY DEF RunAttempt, durableVars, taskVars, processVars, portalVars, historyVars
<1>2. /\ pc[j] = "run" /\ pc'[j] = "activated" /\ ip'[j] = "ACTIVE" /\ error' = error
      /\ pc' \in [Jobs -> PcValues] /\ ip' \in [Jobs -> AllocationStates]
      /\ error' \in [Jobs -> Errors]
      /\ \A k \in Jobs \ {j} : pc'[k] = pc[k] /\ ip'[k] = ip[k]
  <2>1. pc[j] = "run"
    BY DEF RunAttempt, At
  <2>2. jobState[j] \in { "WAITING_FOR_IP", "RETRY_PENDING" }
    BY <1>0, <2>1 DEF JobInv, StateAtPc
  <2>3. HasLiveIp(j)
    BY <1>0, <2>2 DEF JobInv, Address, IsTerminal, TerminalJobStates, HasLiveIp
  <2> QED BY <1>0, <2>1, <2>2, <2>3, GoToType
          DEF RunAttempt, TypeOK, AllocationStates, PcValues, Awaiting, Running
<1>3. TypeOK'
  BY <1>0, <1>1, <1>2 DEF TypeOK, PcValues, ResultRow
<1>4. Frame(j)
  BY <1>1, <1>2 DEF Frame
<1>5. JobInv(j)'
  BY <1>0, <1>1, <1>2
  DEF JobInv, StateAtPc, StateAtFailure, Position, Budget, Address, ResultAtPc, ResultOfJob,
      Working, Delivering
<1> QED BY <1>3, <1>4, <1>5, OthersKeepInv

LEMMA OpenSessionKeepsInv ==
  ASSUME Inv, NEW j \in Jobs, OpenSession(j)
  PROVE  Inv'
<1>0. TypeOK /\ JobInv(j)
  BY DEF Inv
<1>1. UNCHANGED << jobState, retryCount, currentStep, ip, result, phase, contract, stopped,
                   handedOff, unrecovered, plan, wire, applied, interrupted, answers,
                   restarts >>
  BY DEF OpenSession, durableVars, taskVars, processVars, portalVars, historyVars
<1>2. /\ pc[j] = "session" /\ done'[j] \in 0 .. Len(Workflow)
      /\ \/ pc'[j] = "capture" /\ error'[j] = "NONE"
         \/ pc'[j] = "classify" /\ error'[j] = "CANCELLED"
         \/ pc'[j] = "step" /\ done'[j] \in 0 .. (Len(Workflow) - 1)
      /\ pc' \in [Jobs -> PcValues] /\ error' \in [Jobs -> Errors]
      /\ done' \in [Jobs -> Steps \union { 0, NoContext }]
      /\ \A k \in Jobs \ {j} : pc'[k] = pc[k] /\ error'[k] = error[k] /\ done'[k] = done[k]
  <2>1. PICK n \in 0 .. Len(Workflow) : Continue(j, n)
    <3>1. Len(Workflow) \in Nat
      BY ExecutionAssumption
    <3>2. (IF done[j] = NoContext THEN 0 ELSE done[j]) \in 0 .. Len(Workflow)
      BY <1>0, <3>1 DEF TypeOK, Steps
    <3> QED BY <3>2 DEF OpenSession
  <2> QED BY <1>0, <2>1, ContinueType DEF OpenSession, At
<1>3. TypeOK'
  BY <1>0, <1>1, <1>2 DEF TypeOK, PcValues, ResultRow
<1>4. Frame(j)
  BY <1>1, <1>2 DEF Frame
<1>5. JobInv(j)'
  BY <1>0, <1>1, <1>2
  DEF JobInv, StateAtPc, StateAtFailure, Position, Budget, Address, ResultAtPc, ResultOfJob,
      Working, Delivering
<1> QED BY <1>3, <1>4, <1>5, OthersKeepInv

LEMMA StepSucceedsKeepsInv ==
  ASSUME Inv, NEW j \in Jobs, StepSucceeds(j)
  PROVE  Inv'
<1>0. TypeOK /\ JobInv(j)
  BY DEF Inv
<1>1. UNCHANGED << jobState, retryCount, currentStep, ip, result, phase, contract, stopped,
                   handedOff, unrecovered, plan, wire, applied, interrupted, restarts >>
  BY DEF StepSucceeds, durableVars, taskVars, processVars, portalVars, historyVars
<1>2. /\ pc[j] = "step" /\ done'[j] \in 0 .. Len(Workflow)
      /\ \/ pc'[j] = "capture" /\ error'[j] = "NONE"
         \/ pc'[j] = "classify" /\ error'[j] = "CANCELLED"
         \/ pc'[j] = "step" /\ done'[j] \in 0 .. (Len(Workflow) - 1)
      /\ pc' \in [Jobs -> PcValues] /\ error' \in [Jobs -> Errors]
      /\ done' \in [Jobs -> Steps \union { 0, NoContext }]
      /\ answers' \in [Jobs -> [Steps -> Nat]]
      /\ \A k \in Jobs \ {j} : pc'[k] = pc[k] /\ error'[k] = error[k] /\ done'[k] = done[k]
  <2>0. Len(Workflow) \in Nat
    BY ExecutionAssumption
  <2>1. pc[j] = "step" /\ done[j] + 1 \in 0 .. Len(Workflow) /\ done[j] + 1 \in Steps
    BY <1>0, <2>0 DEF StepSucceeds, At, JobInv, Position, Steps
  <2>2. answers' \in [Jobs -> [Steps -> Nat]]
    <3>1. answers \in [Jobs -> [Steps -> Nat]]
      BY <1>0 DEF TypeOK
    <3> QED BY <2>1, <3>1 DEF StepSucceeds
  <2>3. Continue(j, done[j] + 1)
    BY DEF StepSucceeds
  <2> QED BY <1>0, <2>1, <2>2, <2>3, ContinueType
<1>3. TypeOK'
  BY <1>0, <1>1, <1>2 DEF TypeOK, PcValues, ResultRow
<1>4. Frame(j)
  BY <1>1, <1>2 DEF Frame
<1>5. JobInv(j)'
  BY <1>0, <1>1, <1>2
  DEF JobInv, StateAtPc, StateAtFailure, Position, Budget, Address, ResultAtPc, ResultOfJob,
      Working, Delivering
<1> QED BY <1>3, <1>4, <1>5, OthersKeepInv

LEMMA StepIsChallengedKeepsInv ==
  ASSUME Inv, NEW j \in Jobs, StepIsChallenged(j)
  PROVE  Inv'
<1>0. TypeOK /\ JobInv(j)
  BY DEF Inv
<1>1. UNCHANGED << retryCount, ip, result, phase, contract, stopped, done, handedOff,
                   unrecovered, plan, wire, applied, interrupted, answers, restarts >>
  BY DEF StepIsChallenged, durableVars, taskVars, processVars, portalVars, historyVars
<1>2. /\ pc[j] = "step" /\ pc'[j] = "classify" /\ error'[j] = "CHALLENGE"
      /\ jobState'[j] \in { "RUNNING", "WAITING_FOR_MANUAL_CHALLENGE" }
      /\ pc' \in [Jobs -> PcValues] /\ error' \in [Jobs -> Errors]
      /\ jobState' \in [Jobs -> JobStates]
      /\ currentStep' \in [Jobs -> Steps \union { 0 }]
      /\ \A k \in Jobs \ {j} :
           pc'[k] = pc[k] /\ error'[k] = error[k] /\ jobState'[k] = jobState[k]
  <2>0. Len(Workflow) \in Nat
    BY ExecutionAssumption
  <2>1. pc[j] = "step" /\ jobState[j] = "RUNNING" /\ done[j] + 1 \in Steps
    BY <1>0, <2>0 DEF StepIsChallenged, At, JobInv, Position, StateAtPc, Steps
  <2>2. Throw(j, "CHALLENGE")
    BY DEF StepIsChallenged
  <2>3. /\ jobState' \in [Jobs -> JobStates]
        /\ currentStep' \in [Jobs -> Steps \union { 0 }]
        /\ jobState'[j] \in { "RUNNING", "WAITING_FOR_MANUAL_CHALLENGE" }
        /\ \A k \in Jobs \ {j} : jobState'[k] = jobState[k]
    <3>1. CASE ~stopped
      <4>1. /\ Transition(j, "WAITING_FOR_MANUAL_CHALLENGE")
            /\ currentStep' = [currentStep EXCEPT ![j] = done[j] + 1]
        BY <2>1, <3>1 DEF StepIsChallenged
      <4> QED BY <1>0, <2>1, <4>1, TransitionType DEF TypeOK, JobStates, LiveJobStates
    <3>2. CASE stopped
      BY <1>0, <2>1, <3>2 DEF StepIsChallenged, TypeOK
    <3> QED BY <3>1, <3>2
  <2> QED BY <1>0, <2>1, <2>2, <2>3, ThrowType DEF Errors
<1>3. TypeOK'
  BY <1>0, <1>1, <1>2 DEF TypeOK, PcValues, ResultRow
<1>4. Frame(j)
  BY <1>1, <1>2 DEF Frame
<1>5. JobInv(j)'
  BY <1>0, <1>1, <1>2
  DEF JobInv, StateAtPc, StateAtFailure, Position, Budget, Address, ResultAtPc, ResultOfJob,
      Working, Delivering, IsTerminal, TerminalJobStates
<1> QED BY <1>3, <1>4, <1>5, OthersKeepInv

LEMMA HandleFailureKeepsInv ==
  ASSUME Inv, NEW j \in Jobs, HandleFailure(j)
  PROVE  Inv'
<1>0. TypeOK /\ JobInv(j)
  BY DEF Inv
<1>1. UNCHANGED << jobState, currentStep, ip, result, phase, contract, stopped, done, error,
                   handedOff, unrecovered, plan, wire, applied, interrupted, answers,
                   restarts >>
  BY DEF HandleFailure, durableVars, taskVars, processVars, portalVars, historyVars
<1>2. /\ pc[j] = "classify"
      /\ \/ /\ Retryable(j) /\ jobState[j] = "RUNNING"
            /\ retryCount'[j] = retryCount[j] + 1 /\ pc'[j] = "counted"
         \/ /\ error[j] # "CHALLENGE"
            /\ retryCount'[j] = retryCount[j] /\ pc'[j] = "capture"
         \/ retryCount'[j] = retryCount[j] /\ pc'[j] = "idle"
      /\ pc' \in [Jobs -> PcValues] /\ retryCount' \in [Jobs -> Nat]
      /\ \A k \in Jobs \ {j} : pc'[k] = pc[k] /\ retryCount'[k] = retryCount[k]
  <2>1. { "counted", "capture", "idle" } \subseteq PcValues
    BY DEF PcValues, Awaiting, Running
  <2>2. retryCount \in [Jobs -> Nat]
    BY <1>0 DEF TypeOK
  <2> QED BY <1>0, <2>1, <2>2, GoToType DEF HandleFailure, At, Terminal
<1>3. TypeOK'
  BY <1>0, <1>1, <1>2 DEF TypeOK, PcValues, ResultRow
<1>4. Frame(j)
  BY <1>1, <1>2 DEF Frame
<1>5. JobInv(j)'
  <2>1. retryCount[j] \in Nat /\ MaxRetries \in Nat
    BY <1>0, ExecutionAssumption DEF TypeOK
  <2>2. CASE pc'[j] = "counted"
    <3>1. error[j] = "RETRYABLE" /\ jobState[j] = "RUNNING" /\ retryCount[j] < MaxRetries
          /\ retryCount'[j] = retryCount[j] + 1
      BY <1>2, <2>2 DEF Retryable
    <3> QED BY <1>0, <1>1, <1>2, <2>1, <2>2, <3>1
            DEF JobInv, StateAtPc, StateAtFailure, Position, Budget, Address, ResultAtPc,
                ResultOfJob, Working, Delivering
  <2>3. CASE pc'[j] = "capture"
    <3>1. error[j] # "CHALLENGE" /\ retryCount'[j] = retryCount[j]
      BY <1>2, <2>3
    <3> QED BY <1>0, <1>1, <1>2, <2>3, <3>1
            DEF JobInv, StateAtPc, StateAtFailure, Position, Budget, Address, ResultAtPc,
                ResultOfJob, Working, Delivering
  <2>4. CASE pc'[j] = "idle"
    <3>1. retryCount'[j] = retryCount[j]
      BY <1>2, <2>4
    <3> QED BY <1>0, <1>1, <1>2, <2>4, <3>1
            DEF JobInv, StateAtPc, StateAtFailure, Position, Budget, Address, ResultAtPc,
                ResultOfJob, Working, Delivering
  <2> QED BY <1>2, <2>2, <2>3, <2>4
<1> QED BY <1>3, <1>4, <1>5, OthersKeepInv

LEMMA ResumeManualChallengeKeepsInv ==
  ASSUME Inv, NEW j \in Jobs, ResumeManualChallenge(j)
  PROVE  Inv'
<1>0. TypeOK /\ JobInv(j)
  BY DEF Inv
<1>1. UNCHANGED << retryCount, currentStep, ip, result, phase, contract, stopped, handedOff,
                   unrecovered, plan, wire, applied, interrupted, answers, restarts >>
  BY DEF ResumeManualChallenge, durableVars, taskVars, processVars, portalVars, historyVars
<1>2. /\ pc[j] = "resume"
      /\ \/ /\ done[j] = NoContext /\ pc'[j] = "classify" /\ error'[j] = "NO_CONTEXT"
            /\ done'[j] = done[j] /\ jobState'[j] = jobState[j]
         \/ /\ done[j] # NoContext /\ jobState'[j] = "RUNNING"
            /\ \/ pc'[j] = "capture" /\ error'[j] = "NONE"
               \/ pc'[j] = "classify" /\ error'[j] = "CANCELLED"
               \/ pc'[j] = "step" /\ done'[j] \in 0 .. (Len(Workflow) - 1)
      /\ pc' \in [Jobs -> PcValues] /\ error' \in [Jobs -> Errors]
      /\ jobState' \in [Jobs -> JobStates]
      /\ done' \in [Jobs -> Steps \union { 0, NoContext }]
      /\ \A k \in Jobs \ {j} :
           /\ pc'[k] = pc[k] /\ error'[k] = error[k]
           /\ done'[k] = done[k] /\ jobState'[k] = jobState[k]
  <2>0. Len(Workflow) \in Nat
    BY ExecutionAssumption
  <2>1. CASE done[j] = NoContext
    <3>1. Throw(j, "NO_CONTEXT") /\ jobState' = jobState /\ done' = done
      BY <2>1 DEF ResumeManualChallenge
    <3> QED BY <1>0, <2>1, <3>1, ThrowType DEF ResumeManualChallenge, At, TypeOK, Errors
  <2>2. CASE done[j] # NoContext
    <3>1. Transition(j, "RUNNING") /\ Continue(j, done[j])
      BY <2>2 DEF ResumeManualChallenge
    <3>2. done[j] \in 0 .. Len(Workflow)
      BY <1>0, <2>0, <2>2 DEF TypeOK, Steps
    <3>3. "RUNNING" \in JobStates
      BY DEF JobStates, LiveJobStates
    <3> QED BY <1>0, <2>2, <3>1, <3>2, <3>3, ContinueType, TransitionType
            DEF ResumeManualChallenge, At
  <2> QED BY <2>1, <2>2
<1>3. TypeOK'
  BY <1>0, <1>1, <1>2 DEF TypeOK, PcValues, ResultRow
<1>4. Frame(j)
  BY <1>1, <1>2 DEF Frame
<1>5. JobInv(j)'
  BY <1>0, <1>1, <1>2
  DEF JobInv, StateAtPc, StateAtFailure, Position, Budget, Address, ResultAtPc, ResultOfJob,
      Working, Delivering, IsTerminal, TerminalJobStates
<1> QED BY <1>3, <1>4, <1>5, OthersKeepInv

LEMMA RequestResumeKeepsInv ==
  ASSUME Inv, NEW j \in Jobs, RequestResume(j)
  PROVE  Inv'
<1>0. TypeOK /\ JobInv(j)
  BY DEF Inv
<1>1. UNCHANGED << jobState, retryCount, currentStep, ip, result, phase, contract, stopped,
                   done, error, handedOff, unrecovered, plan, wire, applied, interrupted,
                   answers, restarts >>
  BY DEF RequestResume, durableVars, taskVars, processVars, portalVars, historyVars
<1>2. /\ pc[j] = "idle" /\ pc'[j] = "resume"
      /\ jobState[j] = "WAITING_FOR_MANUAL_CHALLENGE"
      /\ pc' \in [Jobs -> PcValues]
      /\ \A k \in Jobs \ {j} : pc'[k] = pc[k]
  BY <1>0, GoToType DEF RequestResume, PcValues, Awaiting, Running
<1>3. TypeOK'
  BY <1>0, <1>1, <1>2 DEF TypeOK, PcValues, ResultRow
<1>4. Frame(j)
  BY <1>1, <1>2 DEF Frame
<1>5. JobInv(j)'
  BY <1>0, <1>1, <1>2
  DEF JobInv, StateAtPc, StateAtFailure, Position, Budget, Address, ResultAtPc, ResultOfJob,
      Working, Delivering
<1> QED BY <1>3, <1>4, <1>5, OthersKeepInv

LEMMA CaptureKeepsInv ==
  ASSUME Inv, NEW j \in Jobs, Capture(j)
  PROVE  Inv'
<1>0. TypeOK /\ JobInv(j)
  BY DEF Inv
<1>1. UNCHANGED << jobState, retryCount, currentStep, ip, phase, contract, stopped, done,
                   error, handedOff, unrecovered, plan, wire, applied, interrupted, answers,
                   restarts >>
  BY DEF Capture, durableVars, taskVars, processVars, portalVars, historyVars
<1>2. /\ pc[j] = "capture"
      /\ \/ pc'[j] = "idle" /\ result'[j] = result[j]
         \/ pc'[j] = "deliver" /\ result'[j] = result[j] /\ result[j] # NoResult
         \/ /\ pc'[j] = "deliver" /\ result[j] = NoResult
            /\ result'[j] = [status |-> "PENDING", outcome |-> OutcomeOf(error[j]),
                             certainty |-> "NONE"]
      /\ pc' \in [Jobs -> PcValues]
      /\ result' \in [Jobs -> ResultRow]
      /\ \A k \in Jobs \ {j} : pc'[k] = pc[k] /\ result'[k] = result[k]
  <2>1. { "idle", "deliver" } \subseteq PcValues
    BY DEF PcValues, Awaiting, Running
  <2>2. result \in [Jobs -> ResultRow]
    BY <1>0 DEF TypeOK, ResultRow
  <2>3. [status |-> "PENDING", outcome |-> OutcomeOf(error[j]), certainty |-> "NONE"] \in ResultRow
    BY DEF ResultRow, DeliveryStatuses, Outcomes, Certainties, OutcomeOf
  <2> QED BY <1>0, <2>1, <2>2, <2>3, GoToType DEF Capture, At
<1>3. TypeOK'
  BY <1>0, <1>1, <1>2 DEF TypeOK, PcValues, ResultRow
<1>4. Frame(j)
  BY <1>1, <1>2 DEF Frame
<1>5. JobInv(j)'
  <2>1. CASE result'[j] = result[j]
    <3>1. CASE pc'[j] = "idle"
      BY <1>0, <1>1, <1>2, <2>1, <3>1
      DEF JobInv, StateAtPc, StateAtFailure, Position, Budget, Address, ResultAtPc,
          ResultOfJob, Working, Delivering
    <3>2. CASE pc'[j] = "deliver" /\ result[j] # NoResult
      BY <1>0, <1>1, <1>2, <2>1, <3>2
      DEF JobInv, StateAtPc, StateAtFailure, Position, Budget, Address, ResultAtPc,
          ResultOfJob, Working, Delivering
    <3>3. CASE result[j] = NoResult /\ pc'[j] = "deliver"
      BY <1>2, <2>1, <3>3 DEF NoResult
    <3> QED BY <1>2, <2>1, <3>1, <3>2, <3>3
  <2>2. CASE /\ pc'[j] = "deliver" /\ result[j] = NoResult
             /\ result'[j] = [status |-> "PENDING", outcome |-> OutcomeOf(error[j]),
                              certainty |-> "NONE"]
    <3>1. result'[j] # NoResult /\ result'[j].status = "PENDING"
          /\ result'[j].outcome = OutcomeOf(error[j])
      BY <2>2 DEF NoResult
    <3>2. ~IsTerminal(jobState[j])
      BY <1>0, <1>2 DEF JobInv, StateAtFailure, IsTerminal, TerminalJobStates
    <3> QED BY <1>0, <1>1, <1>2, <2>2, <3>1, <3>2
            DEF OutcomeOf, JobInv, StateAtPc, StateAtFailure, Position, Budget, Address,
                ResultAtPc, ResultOfJob, Working, Delivering
  <2> QED BY <1>2, <2>1, <2>2
<1> QED BY <1>3, <1>4, <1>5, OthersKeepInv

LEMMA RefuseDeliveryKeepsInv ==
  ASSUME Inv, NEW j \in Jobs, RefuseDelivery(j)
  PROVE  Inv'
<1>0. TypeOK /\ JobInv(j)
  BY DEF Inv
<1>1. UNCHANGED << jobState, retryCount, currentStep, ip, result, phase, contract, stopped,
                   done, error, handedOff, unrecovered, plan, wire, applied, interrupted,
                   answers, restarts >>
  BY DEF RefuseDelivery, durableVars, taskVars, processVars, portalVars, historyVars
<1>2. /\ pc[j] = "deliver" /\ pc'[j] = "idle"
      /\ pc' \in [Jobs -> PcValues]
      /\ \A k \in Jobs \ {j} : pc'[k] = pc[k]
  BY <1>0, GoToType DEF RefuseDelivery, At, PcValues, Awaiting, Running
<1>3. TypeOK'
  BY <1>0, <1>1, <1>2 DEF TypeOK, PcValues, ResultRow
<1>4. Frame(j)
  BY <1>1, <1>2 DEF Frame
<1>5. JobInv(j)'
  BY <1>0, <1>1, <1>2
  DEF JobInv, StateAtPc, StateAtFailure, Position, Budget, Address, ResultAtPc, ResultOfJob,
      Working, Delivering
<1> QED BY <1>3, <1>4, <1>5, OthersKeepInv

LEMMA RequeueKeepsInv ==
  ASSUME Inv, NEW j \in Jobs, Requeue(j)
  PROVE  Inv'
<1>0. TypeOK /\ JobInv(j)
  BY DEF Inv
<1>1. UNCHANGED << jobState, retryCount, currentStep, ip, phase, contract, stopped, pc,
                   done, error, handedOff, unrecovered, plan, wire, applied, interrupted,
                   answers, restarts >>
  BY DEF Requeue, durableVars, taskVars, processVars, portalVars, historyVars
<1>2. /\ pc[j] = "deliver" /\ result[j].status = "UNCERTAIN"
      /\ result'[j].status = "PENDING" /\ result'[j].outcome = result[j].outcome
      /\ result' \in [Jobs -> ResultRow]
      /\ \A k \in Jobs \ {j} : result'[k] = result[k]
  <2>1. result[j].certainty \in Certainties /\ "PENDING" \in DeliveryStatuses
    BY <1>0 DEF TypeOK, DeliveryStatuses
  <2> QED BY <1>0, <2>1, SetDeliveryType DEF Requeue, At
<1>3. TypeOK'
  BY <1>0, <1>1, <1>2 DEF TypeOK, PcValues, ResultRow
<1>4. Frame(j)
  BY <1>1, <1>2 DEF Frame
<1>5. JobInv(j)'
  BY <1>0, <1>1, <1>2
  DEF JobInv, StateAtPc, StateAtFailure, Position, Budget, Address, ResultAtPc, ResultOfJob,
      Working, Delivering, NoResult, IsTerminal, TerminalJobStates
<1> QED BY <1>3, <1>4, <1>5, OthersKeepInv

LEMMA BeginDeliveryKeepsInv ==
  ASSUME Inv, NEW j \in Jobs, BeginDelivery(j)
  PROVE  Inv'
<1>0. TypeOK /\ JobInv(j)
  BY DEF Inv
<1>1. UNCHANGED << jobState, retryCount, currentStep, ip, phase, contract, stopped, done,
                   error, handedOff, unrecovered, plan, wire, applied, interrupted, answers,
                   restarts >>
  BY DEF BeginDelivery, durableVars, taskVars, processVars, portalVars, historyVars
<1>2. /\ pc[j] = "deliver" /\ pc'[j] = "begun" /\ result[j].status = "PENDING"
      /\ result'[j].status = "IN_FLIGHT" /\ result'[j].outcome = result[j].outcome
      /\ pc' \in [Jobs -> PcValues]
      /\ result' \in [Jobs -> ResultRow]
      /\ \A k \in Jobs \ {j} : result'[k] = result[k] /\ pc'[k] = pc[k]
  <2>1. "NONE" \in Certainties /\ "IN_FLIGHT" \in DeliveryStatuses /\ "begun" \in PcValues
    BY DEF DeliveryStatuses, Certainties, PcValues, Running
  <2> QED BY <1>0, <2>1, SetDeliveryType, GoToType DEF BeginDelivery, At
<1>3. TypeOK'
  BY <1>0, <1>1, <1>2 DEF TypeOK, PcValues, ResultRow
<1>4. Frame(j)
  BY <1>1, <1>2 DEF Frame
<1>5. JobInv(j)'
  BY <1>0, <1>1, <1>2
  DEF JobInv, StateAtPc, StateAtFailure, Position, Budget, Address, ResultAtPc, ResultOfJob,
      Working, Delivering, NoResult, IsTerminal, TerminalJobStates
<1> QED BY <1>3, <1>4, <1>5, OthersKeepInv

LEMMA SendKeepsInv ==
  ASSUME Inv, NEW j \in Jobs, Send(j)
  PROVE  Inv'
<1>0. TypeOK /\ JobInv(j)
  BY DEF Inv
<1>1. UNCHANGED << jobState, retryCount, currentStep, ip, result, phase, contract, stopped,
                   done, error, handedOff, unrecovered, plan, applied, interrupted, answers,
                   restarts >>
  BY DEF Send, durableVars, taskVars, processVars, portalVars, historyVars
<1>2. /\ pc[j] = "begun" /\ pc'[j] = "sending"
      /\ pc' \in [Jobs -> PcValues]
      /\ wire' \in [Jobs -> Nat]
      /\ \A k \in Jobs \ {j} : pc'[k] = pc[k]
  <2>1. "sending" \in PcValues
    BY DEF PcValues, Awaiting
  <2>2. wire' \in [Jobs -> Nat]
    BY <1>0 DEF Send, TypeOK
  <2>3. pc[j] = "begun" /\ GoTo(j, "sending")
    BY DEF Send, At
  <2> QED BY <1>0, <2>1, <2>2, <2>3, GoToType
<1>3. TypeOK'
  BY <1>0, <1>1, <1>2 DEF TypeOK, PcValues, ResultRow
<1>4. Frame(j)
  BY <1>1, <1>2 DEF Frame
<1>5. JobInv(j)'
  BY <1>0, <1>1, <1>2
  DEF JobInv, StateAtPc, StateAtFailure, Position, Budget, Address, ResultAtPc, ResultOfJob,
      Working, Delivering
<1> QED BY <1>3, <1>4, <1>5, OthersKeepInv

LEMMA IsNotSentKeepsInv ==
  ASSUME Inv, NEW j \in Jobs, IsNotSent(j)
  PROVE  Inv'
<1>0. TypeOK /\ JobInv(j)
  BY DEF Inv
<1>1. UNCHANGED << jobState, retryCount, currentStep, ip, phase, contract, stopped, done,
                   error, handedOff, unrecovered, plan, wire, applied, interrupted, answers,
                   restarts >>
  BY DEF IsNotSent, RecordFailure, durableVars, taskVars, processVars, portalVars,
         historyVars
<1>2. /\ pc[j] \in { "begun", "sending" } /\ pc'[j] = "idle"
      /\ result'[j].status \in { "PENDING", "UNCERTAIN" }
      /\ result'[j].outcome = result[j].outcome
      /\ pc' \in [Jobs -> PcValues]
      /\ result' \in [Jobs -> ResultRow]
      /\ \A k \in Jobs \ {j} : pc'[k] = pc[k] /\ result'[k] = result[k]
  BY <1>0, RecordFailureType DEF IsNotSent, At, Certainties
<1>3. TypeOK'
  BY <1>0, <1>1, <1>2 DEF TypeOK, PcValues, ResultRow
<1>4. Frame(j)
  BY <1>1, <1>2 DEF Frame
<1>5. JobInv(j)'
  <2>1. result[j] # NoResult /\ result[j].status = "IN_FLIGHT"
    BY <1>0, <1>2 DEF JobInv, ResultAtPc, Delivering
  <2>2. ~IsTerminal(jobState[j])
    BY <1>0, <2>1 DEF JobInv, ResultOfJob
  <2>3. result'[j] # NoResult /\ result'[j].status \notin { "NONE", "DELIVERED" }
    BY <1>2 DEF NoResult
  <2>4. jobState[j] = "WAITING_FOR_MANUAL_CHALLENGE" => done[j] = NoContext
    BY <1>0, <2>1 DEF JobInv, ResultAtPc
  <2> QED BY <1>0, <1>1, <1>2, <2>1, <2>2, <2>3, <2>4
          DEF JobInv, StateAtPc, StateAtFailure, Position, Budget, Address, ResultAtPc,
              ResultOfJob, Working, Delivering
<1> QED BY <1>3, <1>4, <1>5, OthersKeepInv

LEMMA IsUncertainKeepsInv ==
  ASSUME Inv, NEW j \in Jobs, IsUncertain(j)
  PROVE  Inv'
<1>0. TypeOK /\ JobInv(j)
  BY DEF Inv
<1>1. UNCHANGED << jobState, retryCount, currentStep, ip, phase, contract, stopped, done,
                   error, handedOff, unrecovered, plan, wire, applied, interrupted, answers,
                   restarts >>
  BY DEF IsUncertain, RecordFailure, durableVars, taskVars, processVars, portalVars,
         historyVars
<1>2. /\ pc[j] \in { "begun", "sending" } /\ pc'[j] = "idle"
      /\ result'[j].status \in { "PENDING", "UNCERTAIN" }
      /\ result'[j].outcome = result[j].outcome
      /\ pc' \in [Jobs -> PcValues]
      /\ result' \in [Jobs -> ResultRow]
      /\ \A k \in Jobs \ {j} : pc'[k] = pc[k] /\ result'[k] = result[k]
  BY <1>0, RecordFailureType DEF IsUncertain, At, Certainties
<1>3. TypeOK'
  BY <1>0, <1>1, <1>2 DEF TypeOK, PcValues, ResultRow
<1>4. Frame(j)
  BY <1>1, <1>2 DEF Frame
<1>5. JobInv(j)'
  <2>1. result[j] # NoResult /\ result[j].status = "IN_FLIGHT"
    BY <1>0, <1>2 DEF JobInv, ResultAtPc, Delivering
  <2>2. ~IsTerminal(jobState[j])
    BY <1>0, <2>1 DEF JobInv, ResultOfJob
  <2>3. result'[j] # NoResult /\ result'[j].status \notin { "NONE", "DELIVERED" }
    BY <1>2 DEF NoResult
  <2>4. jobState[j] = "WAITING_FOR_MANUAL_CHALLENGE" => done[j] = NoContext
    BY <1>0, <2>1 DEF JobInv, ResultAtPc
  <2> QED BY <1>0, <1>1, <1>2, <2>1, <2>2, <2>3, <2>4
          DEF JobInv, StateAtPc, StateAtFailure, Position, Budget, Address, ResultAtPc,
              ResultOfJob, Working, Delivering
<1> QED BY <1>3, <1>4, <1>5, OthersKeepInv

LEMMA IsRejectedKeepsInv ==
  ASSUME Inv, NEW j \in Jobs, IsRejected(j)
  PROVE  Inv'
<1>0. TypeOK /\ JobInv(j)
  BY DEF Inv
<1>1. UNCHANGED << jobState, retryCount, currentStep, ip, phase, contract, stopped, done,
                   error, handedOff, unrecovered, plan, applied, interrupted, answers,
                   restarts >>
  BY DEF IsRejected, RecordFailure, durableVars, taskVars, processVars, portalVars,
         historyVars
<1>2. /\ pc[j] \in { "begun", "sending" } /\ pc'[j] = "idle"
      /\ result'[j].status \in { "PENDING", "UNCERTAIN" }
      /\ result'[j].outcome = result[j].outcome
      /\ pc' \in [Jobs -> PcValues]
      /\ result' \in [Jobs -> ResultRow]
      /\ wire' \in [Jobs -> Nat]
      /\ \A k \in Jobs \ {j} : pc'[k] = pc[k] /\ result'[k] = result[k]
  <2>1. wire' \in [Jobs -> Nat]
    BY <1>0 DEF IsRejected, TypeOK
  <2> QED BY <1>0, <2>1, RecordFailureType DEF IsRejected, At, Certainties
<1>3. TypeOK'
  BY <1>0, <1>1, <1>2 DEF TypeOK, PcValues, ResultRow
<1>4. Frame(j)
  BY <1>1, <1>2 DEF Frame
<1>5. JobInv(j)'
  <2>1. result[j] # NoResult /\ result[j].status = "IN_FLIGHT"
    BY <1>0, <1>2 DEF JobInv, ResultAtPc, Delivering
  <2>2. ~IsTerminal(jobState[j])
    BY <1>0, <2>1 DEF JobInv, ResultOfJob
  <2>3. result'[j] # NoResult /\ result'[j].status \notin { "NONE", "DELIVERED" }
    BY <1>2 DEF NoResult
  <2>4. jobState[j] = "WAITING_FOR_MANUAL_CHALLENGE" => done[j] = NoContext
    BY <1>0, <2>1 DEF JobInv, ResultAtPc
  <2> QED BY <1>0, <1>1, <1>2, <2>1, <2>2, <2>3, <2>4
          DEF JobInv, StateAtPc, StateAtFailure, Position, Budget, Address, ResultAtPc,
              ResultOfJob, Working, Delivering
<1> QED BY <1>3, <1>4, <1>5, OthersKeepInv

LEMMA IsAcknowledgedKeepsInv ==
  ASSUME Inv, NEW j \in Jobs, IsAcknowledged(j)
  PROVE  Inv'
<1>0. TypeOK /\ JobInv(j)
  BY DEF Inv
<1>1. UNCHANGED << jobState, retryCount, currentStep, ip, phase, contract, stopped, done,
                   error, handedOff, unrecovered, plan, wire, applied, interrupted, answers,
                   restarts >>
  BY DEF IsAcknowledged, durableVars, taskVars, processVars, portalVars, historyVars
<1>2. /\ pc[j] = "sending" /\ pc'[j] = "terminalize" /\ applied[j] > 0
      /\ result'[j].status = "DELIVERED" /\ result'[j].outcome = result[j].outcome
      /\ pc' \in [Jobs -> PcValues]
      /\ result' \in [Jobs -> ResultRow]
      /\ \A k \in Jobs \ {j} : pc'[k] = pc[k] /\ result'[k] = result[k]
  <2>1. "NONE" \in Certainties /\ "DELIVERED" \in DeliveryStatuses /\ "terminalize" \in PcValues
    BY DEF DeliveryStatuses, Certainties, PcValues, Running
  <2> QED BY <1>0, <2>1, SetDeliveryType, GoToType DEF IsAcknowledged, At
<1>3. TypeOK'
  BY <1>0, <1>1, <1>2 DEF TypeOK, PcValues, ResultRow
<1>4. Frame(j)
  BY <1>1, <1>2 DEF Frame
<1>5. JobInv(j)'
  BY <1>0, <1>1, <1>2
  DEF JobInv, StateAtPc, StateAtFailure, Position, Budget, Address, ResultAtPc, ResultOfJob,
      Working, Delivering, NoResult, IsTerminal, TerminalJobStates
<1> QED BY <1>3, <1>4, <1>5, OthersKeepInv

LEMMA TerminalizeKeepsInv ==
  ASSUME Inv, NEW j \in Jobs, Terminalize(j)
  PROVE  Inv'
<1>0. TypeOK /\ JobInv(j)
  BY DEF Inv
<1>1. UNCHANGED << retryCount, currentStep, ip, result, phase, contract, stopped, done,
                   error, handedOff, unrecovered, plan, wire, applied, interrupted, answers,
                   restarts >>
  BY DEF Terminalize, durableVars, taskVars, processVars, portalVars, historyVars
<1>2. /\ pc[j] = "terminalize"
      /\ \/ pc'[j] = "release" /\ jobState'[j] = TerminalState(result[j].outcome)
         \/ pc'[j] = "idle" /\ jobState'[j] = jobState[j]
      /\ pc' \in [Jobs -> PcValues]
      /\ jobState' \in [Jobs -> JobStates]
      /\ \A k \in Jobs \ {j} : pc'[k] = pc[k] /\ jobState'[k] = jobState[k]
  <2>1. { "release", "idle" } \subseteq PcValues /\ TerminalState(result[j].outcome) \in JobStates
    BY DEF PcValues, Running, Awaiting, JobStates, TerminalJobStates, TerminalState
  <2>2. jobState \in [Jobs -> JobStates]
    BY <1>0 DEF TypeOK
  <2> QED BY <1>0, <2>1, <2>2, GoToType, TransitionType DEF Terminalize, At
<1>3. TypeOK'
  BY <1>0, <1>1, <1>2 DEF TypeOK, PcValues, ResultRow
<1>4. Frame(j)
  BY <1>1, <1>2 DEF Frame
<1>5. JobInv(j)'
  BY <1>0, <1>1, <1>2
  DEF JobInv, StateAtPc, StateAtFailure, Position, Budget, Address, ResultAtPc, ResultOfJob,
      Working, Delivering, TerminalState, IsTerminal, TerminalJobStates
<1> QED BY <1>3, <1>4, <1>5, OthersKeepInv

LEMMA ReleaseKeepsInv ==
  ASSUME Inv, NEW j \in Jobs, Release(j)
  PROVE  Inv'
<1>0. TypeOK /\ JobInv(j)
  BY DEF Inv
<1>1. UNCHANGED << jobState, retryCount, currentStep, result, phase, contract, stopped,
                   done, error, handedOff, unrecovered, plan, wire, applied, interrupted,
                   answers, restarts >>
  BY DEF Release, durableVars, taskVars, processVars, portalVars, historyVars
<1>2. /\ pc[j] = "release" /\ pc'[j] = "idle" /\ ip'[j] = "RELEASED"
      /\ pc' \in [Jobs -> PcValues]
      /\ ip' \in [Jobs -> AllocationStates]
      /\ \A k \in Jobs \ {j} : pc'[k] = pc[k] /\ ip'[k] = ip[k]
  BY <1>0, GoToType DEF Release, At, TypeOK, AllocationStates, PcValues, Awaiting, Running
<1>3. TypeOK'
  BY <1>0, <1>1, <1>2 DEF TypeOK, PcValues, ResultRow
<1>4. Frame(j)
  BY <1>1, <1>2 DEF Frame
<1>5. JobInv(j)'
  BY <1>0, <1>1, <1>2
  DEF JobInv, StateAtPc, StateAtFailure, Position, Budget, Address, ResultAtPc, ResultOfJob,
      Working, Delivering, IsTerminal, TerminalJobStates
<1> QED BY <1>3, <1>4, <1>5, OthersKeepInv

LEMMA PortalAppliesKeepsInv ==
  ASSUME Inv, NEW j \in Jobs, PortalApplies(j)
  PROVE  Inv'
<1>0. TypeOK /\ JobInv(j)
  BY DEF Inv
<1>1. UNCHANGED << jobState, retryCount, currentStep, ip, result, phase, contract, stopped,
                   pc, done, error, handedOff, unrecovered, plan, interrupted, answers,
                   restarts >>
  BY DEF PortalApplies, durableVars, taskVars, processVars, portalVars, historyVars
<1>2. /\ wire' \in [Jobs -> Nat] /\ applied' \in [Jobs -> Nat]
      /\ applied'[j] > 0
      /\ \A k \in Jobs \ {j} : applied'[k] = applied[k]
  BY <1>0 DEF PortalApplies, TypeOK
<1>3. TypeOK'
  BY <1>0, <1>1, <1>2 DEF TypeOK, PcValues, ResultRow
<1>4. Frame(j)
  BY <1>1, <1>2 DEF Frame
<1>5. JobInv(j)'
  BY <1>0, <1>1, <1>2
  DEF JobInv, StateAtPc, StateAtFailure, Position, Budget, Address, ResultAtPc, ResultOfJob,
      Working, Delivering
<1> QED BY <1>3, <1>4, <1>5, OthersKeepInv

LEMMA RecoverFinalResultKeepsInv ==
  ASSUME Inv, NEW j \in Jobs, RecoverFinalResult(j)
  PROVE  Inv'
<1>0. TypeOK /\ JobInv(j)
  BY DEF Inv
<1>1. UNCHANGED << jobState, retryCount, currentStep, ip, phase, contract, stopped, done,
                   error, handedOff, wire, applied, interrupted, answers, restarts >>
  BY DEF RecoverFinalResult, Recovering, durableVars, taskVars, processVars, portalVars,
         historyVars
<1>2. /\ pc[j] = "idle" /\ handedOff = {}
      /\ \/ /\ result[j].status \in { "IN_FLIGHT", "UNCERTAIN" }
            /\ result'[j].status = "UNCERTAIN" /\ result'[j].outcome = result[j].outcome
            /\ pc'[j] = "idle"
         \/ result[j].status = "PENDING" /\ result'[j] = result[j] /\ pc'[j] = "idle"
         \/ /\ result[j].status = "DELIVERED" /\ result'[j] = result[j]
            /\ pc'[j] = "terminalize"
      /\ pc' \in [Jobs -> PcValues]
      /\ result' \in [Jobs -> ResultRow]
      /\ unrecovered' \in SUBSET Jobs
      /\ plan' \in [Jobs -> RecoveryStatuses]
      /\ \A k \in Jobs \ {j} : pc'[k] = pc[k] /\ result'[k] = result[k] /\ plan'[k] = plan[k]
  <2>1. handedOff = {} /\ pc[j] = "idle" /\ unrecovered' \in SUBSET Jobs
    BY <1>0 DEF Inv, Recovering, TypeOK, RecoverFinalResult
  <2>2. /\ result \in [Jobs -> ResultRow] /\ plan \in [Jobs -> RecoveryStatuses]
        /\ pc \in [Jobs -> PcValues]
    BY <1>0 DEF TypeOK, ResultRow, PcValues
  <2>3. /\ "UNCERTAIN" \in DeliveryStatuses \intersect Certainties /\ "terminalize" \in PcValues
        /\ { "FINAL_RESULT_UNCERTAIN", "FINAL_RESULT_PENDING", "FINAL_RESULT_DELIVERED" }
             \subseteq RecoveryStatuses
    BY DEF DeliveryStatuses, Certainties, PcValues, Running, RecoveryStatuses
  <2>4. CASE result[j].status \in { "IN_FLIGHT", "UNCERTAIN" }
    <3>1. /\ result' = [result EXCEPT ![j].status = "UNCERTAIN", ![j].certainty = "UNCERTAIN"]
          /\ plan' = [plan EXCEPT ![j] = "FINAL_RESULT_UNCERTAIN"] /\ pc' = pc
      BY <2>4 DEF RecoverFinalResult, Planned
    <3>2. result' \in [Jobs -> ResultRow]
      BY <2>2, <2>3, <3>1 DEF ResultRow
    <3> QED BY <2>1, <2>2, <2>3, <2>4, <3>1, <3>2 DEF ResultRow
  <2>5. CASE result[j].status = "PENDING"
    <3>1. result' = result /\ plan' = [plan EXCEPT ![j] = "FINAL_RESULT_PENDING"] /\ pc' = pc
      BY <2>5 DEF RecoverFinalResult, Planned
    <3> QED BY <2>1, <2>2, <2>3, <2>5, <3>1
  <2>6. CASE result[j].status = "DELIVERED"
    <3>1. /\ result' = result /\ plan' = [plan EXCEPT ![j] = "FINAL_RESULT_DELIVERED"]
          /\ GoTo(j, "terminalize")
      BY <2>6 DEF RecoverFinalResult, Planned
    <3> QED BY <1>0, <2>1, <2>2, <2>3, <2>6, <3>1, GoToType
  <2> QED BY <2>4, <2>5, <2>6 DEF RecoverFinalResult
<1>3. TypeOK'
  BY <1>0, <1>1, <1>2 DEF TypeOK, PcValues, ResultRow
<1>4. Frame(j)
  BY <1>1, <1>2 DEF Frame
<1>5. JobInv(j)'
  <2>1. /\ result'[j].status # "NONE" /\ result[j].status # "NONE"
        /\ result'[j].outcome = result[j].outcome
        /\ (result'[j].status = "DELIVERED" <=> result[j].status = "DELIVERED")
    BY <1>2
  <2>2. result'[j] # NoResult /\ result[j] # NoResult
    BY <2>1 DEF NoResult
  <2> QED BY <1>0, <1>1, <1>2, <2>1, <2>2
          DEF JobInv, StateAtPc, StateAtFailure, Position, Budget, Address, ResultAtPc,
              ResultOfJob, Working, Delivering
<1> QED BY <1>3, <1>4, <1>5, OthersKeepInv

LEMMA RecoverManualChallengeKeepsInv ==
  ASSUME Inv, NEW j \in Jobs, RecoverManualChallenge(j)
  PROVE  Inv'
<1>0. TypeOK /\ JobInv(j)
  BY DEF Inv
<1>1. UNCHANGED << jobState, retryCount, currentStep, ip, result, phase, contract, stopped,
                   pc, done, error, handedOff, wire, applied, interrupted, answers, restarts
                   >>
  BY DEF RecoverManualChallenge, Recovering, durableVars, taskVars, processVars, portalVars,
         historyVars
<1>2. /\ pc[j] = "idle" /\ handedOff = {}
      /\ plan'[j] = "WAITING_MANUAL"
      /\ unrecovered' \in SUBSET Jobs
      /\ plan' \in [Jobs -> RecoveryStatuses]
      /\ \A k \in Jobs \ {j} : plan'[k] = plan[k]
  <2>1. handedOff = {} /\ pc[j] = "idle" /\ unrecovered' \in SUBSET Jobs
    BY <1>0 DEF Inv, Recovering, TypeOK, RecoverManualChallenge
  <2> QED BY <1>0, <2>1 DEF RecoverManualChallenge, Planned, TypeOK, RecoveryStatuses
<1>3. TypeOK'
  BY <1>0, <1>1, <1>2 DEF TypeOK, PcValues, ResultRow
<1>4. Frame(j)
  BY <1>1, <1>2 DEF Frame
<1>5. JobInv(j)'
  BY <1>0, <1>1, <1>2
  DEF JobInv, StateAtPc, StateAtFailure, Position, Budget, Address, ResultAtPc, ResultOfJob,
      Working, Delivering
<1> QED BY <1>3, <1>4, <1>5, OthersKeepInv

LEMMA RecoverParkedJobKeepsInv ==
  ASSUME Inv, NEW j \in Jobs, RecoverParkedJob(j)
  PROVE  Inv'
<1>0. TypeOK /\ JobInv(j)
  BY DEF Inv
<1>1. UNCHANGED << jobState, retryCount, currentStep, result, phase, contract, stopped, pc,
                   done, error, handedOff, wire, applied, interrupted, answers, restarts >>
  BY DEF RecoverParkedJob, Recovering, durableVars, taskVars, processVars, portalVars,
         historyVars
<1>2. /\ pc[j] = "idle" /\ handedOff = {}
      /\ jobState[j] # "WAITING_FOR_MANUAL_CHALLENGE"
      /\ ip'[j] \in { ip[j], "RETRY_RESERVED" }
      /\ plan'[j] \in { "BLOCKED_SESSION_LOSS", "BLOCKED_UNSAFE_REPLAY", "RETRY_SCHEDULED" }
      /\ unrecovered' \in SUBSET Jobs
      /\ plan' \in [Jobs -> RecoveryStatuses]
      /\ ip' \in [Jobs -> AllocationStates]
      /\ \A k \in Jobs \ {j} : plan'[k] = plan[k] /\ ip'[k] = ip[k]
  <2>1. handedOff = {} /\ pc[j] = "idle" /\ unrecovered' \in SUBSET Jobs
    BY <1>0 DEF Inv, Recovering, TypeOK, RecoverParkedJob
  <2>2. ip \in [Jobs -> AllocationStates] /\ plan \in [Jobs -> RecoveryStatuses]
    BY <1>0 DEF TypeOK
  <2>3. ip' = ip \/ ip' = [ip EXCEPT ![j] = "RETRY_RESERVED"]
    BY DEF RecoverParkedJob, PreserveSameIp
  <2>4. \E s \in { "BLOCKED_SESSION_LOSS", "BLOCKED_UNSAFE_REPLAY", "RETRY_SCHEDULED" } :
          plan' = [plan EXCEPT ![j] = s]
    BY DEF RecoverParkedJob, Planned
  <2>5. jobState[j] # "WAITING_FOR_MANUAL_CHALLENGE"
    BY DEF RecoverParkedJob, Interrupted
  <2> QED BY <2>1, <2>2, <2>3, <2>4, <2>5 DEF AllocationStates, RecoveryStatuses
<1>3. TypeOK'
  BY <1>0, <1>1, <1>2 DEF TypeOK, PcValues, ResultRow
<1>4. Frame(j)
  BY <1>1, <1>2 DEF Frame
<1>5. JobInv(j)'
  BY <1>0, <1>1, <1>2
  DEF JobInv, StateAtPc, StateAtFailure, Position, Budget, Address, ResultAtPc, ResultOfJob,
      Working, Delivering
<1> QED BY <1>3, <1>4, <1>5, OthersKeepInv

LEMMA RecoverInterruptedExecutionKeepsInv ==
  ASSUME Inv, NEW j \in Jobs, RecoverInterruptedExecution(j)
  PROVE  Inv'
<1>0. TypeOK /\ JobInv(j)
  BY DEF Inv
<1>1. UNCHANGED << jobState, retryCount, currentStep, result, phase, contract, stopped,
                   done, error, handedOff, wire, applied, interrupted, answers, restarts >>
  BY DEF RecoverInterruptedExecution, Recovering, durableVars, taskVars, processVars,
         portalVars, historyVars
<1>2. /\ pc[j] = "idle" /\ handedOff = {}
      /\ jobState[j] = "RUNNING" /\ result[j] = NoResult
      /\ ip'[j] \in { ip[j], "RETRY_RESERVED" }
      /\ \/ pc'[j] = "recovery kept" /\ retryCount[j] < MaxRetries /\ plan'[j] = plan[j]
         \/ pc'[j] = "idle" /\ plan'[j] \in { "RETRY_EXHAUSTED", "BLOCKED_SESSION_LOSS" }
      /\ unrecovered' \in SUBSET Jobs
      /\ plan' \in [Jobs -> RecoveryStatuses]
      /\ pc' \in [Jobs -> PcValues]
      /\ ip' \in [Jobs -> AllocationStates]
      /\ \A k \in Jobs \ {j} : plan'[k] = plan[k] /\ ip'[k] = ip[k] /\ pc'[k] = pc[k]
  <2>1. handedOff = {} /\ pc[j] = "idle" /\ unrecovered' \in SUBSET Jobs
    BY <1>0 DEF Inv, Recovering, TypeOK, RecoverInterruptedExecution
  <2>2. /\ ip \in [Jobs -> AllocationStates] /\ plan \in [Jobs -> RecoveryStatuses]
        /\ pc \in [Jobs -> PcValues]
    BY <1>0 DEF TypeOK, PcValues
  <2>3. ip' = ip \/ ip' = [ip EXCEPT ![j] = "RETRY_RESERVED"]
    BY DEF RecoverInterruptedExecution, PreserveSameIp
  <2>4. \/ GoTo(j, "recovery kept") /\ plan' = plan /\ retryCount[j] < MaxRetries
        \/ \E s \in { "RETRY_EXHAUSTED", "BLOCKED_SESSION_LOSS" } :
             plan' = [plan EXCEPT ![j] = s] /\ pc' = pc
    BY DEF RecoverInterruptedExecution, Planned
  <2>5. jobState[j] = "RUNNING" /\ result[j] = NoResult
    BY DEF RecoverInterruptedExecution, Interrupted
  <2>6. "recovery kept" \in PcValues
    BY DEF PcValues, Running
  <2>7. /\ ip' \in [Jobs -> AllocationStates] /\ ip'[j] \in { ip[j], "RETRY_RESERVED" }
        /\ \A k \in Jobs \ {j} : ip'[k] = ip[k]
    BY <2>2, <2>3 DEF AllocationStates
  <2>8. CASE GoTo(j, "recovery kept") /\ plan' = plan /\ retryCount[j] < MaxRetries
    BY <1>0, <2>1, <2>2, <2>5, <2>6, <2>7, <2>8, GoToType
  <2>9. CASE \E s \in { "RETRY_EXHAUSTED", "BLOCKED_SESSION_LOSS" } :
             plan' = [plan EXCEPT ![j] = s] /\ pc' = pc
    BY <2>1, <2>2, <2>5, <2>7, <2>9 DEF RecoveryStatuses
  <2> QED BY <2>4, <2>8, <2>9
<1>3. TypeOK'
  BY <1>0, <1>1, <1>2 DEF TypeOK, PcValues, ResultRow
<1>4. Frame(j)
  BY <1>1, <1>2 DEF Frame
<1>5. JobInv(j)'
  BY <1>0, <1>1, <1>2
  DEF JobInv, StateAtPc, StateAtFailure, Position, Budget, Address, ResultAtPc, ResultOfJob,
      Working, Delivering
<1> QED BY <1>3, <1>4, <1>5, OthersKeepInv

LEMMA RecoverPreExecutionKeepsInv ==
  ASSUME Inv, NEW j \in Jobs, RecoverPreExecution(j)
  PROVE  Inv'
<1>0. TypeOK /\ JobInv(j)
  BY DEF Inv
<1>1. UNCHANGED << jobState, retryCount, currentStep, ip, result, phase, contract, stopped,
                   pc, done, error, handedOff, plan, wire, applied, interrupted, answers,
                   restarts >>
  BY DEF RecoverPreExecution, Recovering, durableVars, taskVars, processVars, portalVars,
         historyVars
<1>2. unrecovered' \in SUBSET Jobs
  BY <1>0 DEF RecoverPreExecution, Recovering, TypeOK
<1>3. TypeOK'
  BY <1>0, <1>1, <1>2 DEF TypeOK, PcValues, ResultRow
<1>4. Frame(j)
  BY <1>1, <1>2 DEF Frame
<1>5. JobInv(j)'
  BY <1>0, <1>1, <1>2
  DEF JobInv, StateAtPc, StateAtFailure, Position, Budget, Address, ResultAtPc, ResultOfJob,
      Working, Delivering
<1> QED BY <1>3, <1>4, <1>5, OthersKeepInv

LEMMA CountInterruptionKeepsInv ==
  ASSUME Inv, NEW j \in Jobs, CountInterruption(j)
  PROVE  Inv'
<1>0. TypeOK /\ JobInv(j)
  BY DEF Inv
<1>1. UNCHANGED << jobState, currentStep, ip, result, phase, contract, stopped, done, error,
                   handedOff, unrecovered, plan, wire, applied, interrupted, answers,
                   restarts >>
  BY DEF CountInterruption, durableVars, taskVars, processVars, portalVars, historyVars
<1>2. /\ pc[j] = "recovery kept" /\ pc'[j] = "recovery counted"
      /\ retryCount'[j] = retryCount[j] + 1 /\ retryCount[j] \in Nat
      /\ pc' \in [Jobs -> PcValues]
      /\ retryCount' \in [Jobs -> Nat]
      /\ \A k \in Jobs \ {j} : pc'[k] = pc[k] /\ retryCount'[k] = retryCount[k]
  <2>1. "recovery counted" \in PcValues
    BY DEF PcValues, Running
  <2>2. retryCount \in [Jobs -> Nat] /\ retryCount' = [retryCount EXCEPT ![j] = @ + 1]
    BY <1>0 DEF CountInterruption, TypeOK
  <2>3. pc[j] = "recovery kept" /\ GoTo(j, "recovery counted")
    BY DEF CountInterruption, At
  <2>4. /\ pc'[j] = "recovery counted" /\ pc' \in [Jobs -> PcValues]
        /\ \A k \in Jobs \ {j} : pc'[k] = pc[k]
    BY <1>0, <2>1, <2>3, GoToType
  <2>5. /\ retryCount'[j] = retryCount[j] + 1 /\ retryCount[j] \in Nat
        /\ retryCount' \in [Jobs -> Nat]
        /\ \A k \in Jobs \ {j} : retryCount'[k] = retryCount[k]
    BY <2>2
  <2> QED BY <2>3, <2>4, <2>5
<1>3. TypeOK'
  BY <1>0, <1>1, <1>2 DEF TypeOK, PcValues, ResultRow
<1>4. Frame(j)
  BY <1>1, <1>2 DEF Frame
<1>5. JobInv(j)'
  <2>1. retryCount[j] \in Nat /\ MaxRetries \in Nat /\ retryCount[j] < MaxRetries
    BY <1>0, <1>2, ExecutionAssumption DEF JobInv, Budget
  <2>2. Budget(j)'
    <3>1. retryCount'[j] = retryCount[j] + 1
      BY <1>2
    <3>2. retryCount'[j] <= MaxRetries
      BY <2>1, <3>1
    <3>3. pc'[j] # "recovery kept"
      BY <1>2
    <3> QED BY <3>2, <3>3 DEF Budget
  <2>3. /\ StateAtPc(j)' /\ StateAtFailure(j)' /\ Position(j)' /\ Address(j)'
        /\ ResultAtPc(j)' /\ ResultOfJob(j)'
    BY <1>0, <1>1, <1>2
    DEF JobInv, StateAtPc, StateAtFailure, Position, Budget, Address, ResultAtPc,
        ResultOfJob, Working, Delivering
  <2> QED BY <2>2, <2>3 DEF JobInv
<1> QED BY <1>3, <1>4, <1>5, OthersKeepInv

LEMMA ScheduleInterruptedKeepsInv ==
  ASSUME Inv, NEW j \in Jobs, ScheduleInterrupted(j)
  PROVE  Inv'
<1>0. TypeOK /\ JobInv(j)
  BY DEF Inv
<1>1. UNCHANGED << retryCount, currentStep, ip, result, phase, contract, stopped, done,
                   error, handedOff, unrecovered, wire, applied, interrupted, answers,
                   restarts >>
  BY DEF ScheduleInterrupted, durableVars, taskVars, processVars, portalVars, historyVars
<1>2. /\ pc[j] = "recovery counted" /\ pc'[j] = "idle" /\ jobState'[j] = "RETRY_PENDING"
      /\ plan'[j] = "RETRY_SCHEDULED"
      /\ pc' \in [Jobs -> PcValues]
      /\ plan' \in [Jobs -> RecoveryStatuses]
      /\ jobState' \in [Jobs -> JobStates]
      /\ \A k \in Jobs \ {j} : pc'[k] = pc[k] /\ jobState'[k] = jobState[k] /\ plan'[k] = plan[k]
  <2>1. /\ "RETRY_PENDING" \in JobStates /\ "idle" \in PcValues
        /\ "RETRY_SCHEDULED" \in RecoveryStatuses
    BY DEF JobStates, LiveJobStates, PcValues, Awaiting, RecoveryStatuses
  <2>2. plan \in [Jobs -> RecoveryStatuses]
    BY <1>0 DEF TypeOK
  <2> QED BY <1>0, <2>1, <2>2, GoToType, TransitionType DEF ScheduleInterrupted, At, Planned
<1>3. TypeOK'
  BY <1>0, <1>1, <1>2 DEF TypeOK, PcValues, ResultRow
<1>4. Frame(j)
  BY <1>1, <1>2 DEF Frame
<1>5. JobInv(j)'
  BY <1>0, <1>1, <1>2
  DEF JobInv, StateAtPc, StateAtFailure, Position, Budget, Address, ResultAtPc, ResultOfJob,
      Working, Delivering, IsTerminal, TerminalJobStates
<1> QED BY <1>3, <1>4, <1>5, OthersKeepInv

LEMMA RedeliverKeepsInv ==
  ASSUME Inv, NEW j \in Jobs, Redeliver(j)
  PROVE  Inv'
<1>0. TypeOK /\ JobInv(j)
  BY DEF Inv
<1>1. UNCHANGED << jobState, retryCount, currentStep, ip, result, phase, contract, stopped,
                   done, error, handedOff, unrecovered, wire, applied, interrupted, answers,
                   restarts >>
  BY DEF Redeliver, Planned, durableVars, taskVars, processVars, portalVars, historyVars
<1>2. /\ pc[j] = "idle" /\ handedOff = {}
      /\ result[j] # NoResult /\ pc'[j] = "deliver" /\ plan'[j] = "NONE"
      /\ pc' \in [Jobs -> PcValues]
      /\ plan' \in [Jobs -> RecoveryStatuses]
      /\ \A k \in Jobs \ {j} : pc'[k] = pc[k] /\ plan'[k] = plan[k]
  <2>1. handedOff = {} /\ pc[j] = "idle"
    BY DEF Inv, Redeliver
  <2>2. plan[j] \in { "FINAL_RESULT_PENDING", "FINAL_RESULT_UNCERTAIN" }
    BY DEF Redeliver, CanAttempt
  <2>3. result[j] # NoResult
    BY <1>0, <2>2 DEF JobInv, ResultAtPc
  <2>4. "NONE" \in RecoveryStatuses /\ "deliver" \in PcValues /\ plan \in [Jobs -> RecoveryStatuses]
    BY <1>0 DEF RecoveryStatuses, PcValues, Running, TypeOK
  <2> QED BY <1>0, <2>1, <2>3, <2>4, GoToType DEF Redeliver, Planned
<1>3. TypeOK'
  BY <1>0, <1>1, <1>2 DEF TypeOK, PcValues, ResultRow
<1>4. Frame(j)
  BY <1>1, <1>2 DEF Frame
<1>5. JobInv(j)'
  BY <1>0, <1>1, <1>2
  DEF JobInv, StateAtPc, StateAtFailure, Position, Budget, Address, ResultAtPc, ResultOfJob,
      Working, Delivering
<1> QED BY <1>3, <1>4, <1>5, OthersKeepInv

------------------------------------------------------------------------------
(* Steps of the whole process.                                              *)

LEMMA AdmitKeepsInv ==
  ASSUME Inv, Admit
  PROVE  Inv'
<1>0. TypeOK /\ \A j \in Jobs : JobInv(j)
  BY DEF Inv
<1>1. UNCHANGED << durableVars, done, error, phase, contract, stopped, unrecovered, plan,
                   portalVars, historyVars >>
  BY DEF Admit
<1>2. /\ pc' = [j \in Jobs |-> IF j \in handedOff /\ ~stopped THEN "run" ELSE pc[j]]
      /\ handedOff' = {} /\ phase = "UP"
  BY DEF Admit
<1>3. pc' \in [Jobs -> PcValues]
  <2>1. pc \in [Jobs -> PcValues] /\ "run" \in PcValues
    BY <1>0 DEF TypeOK, PcValues, Awaiting
  <2> QED BY <1>2, <2>1
<1>4. TypeOK'
  BY <1>0, <1>1, <1>2, <1>3
  DEF TypeOK, PcValues, durableVars, portalVars, historyVars
<1>5. ASSUME NEW j \in Jobs PROVE JobInv(j)'
  <2>0. JobInv(j)
    BY <1>0
  <2>1. /\ jobState'[j] = jobState[j] /\ retryCount'[j] = retryCount[j] /\ ip'[j] = ip[j]
        /\ result'[j] = result[j] /\ done'[j] = done[j] /\ error'[j] = error[j]
        /\ plan'[j] = plan[j] /\ applied'[j] = applied[j]
    BY <1>1 DEF durableVars, portalVars
  <2>2. CASE j \in handedOff /\ ~stopped
    <3>1. pc'[j] = "run" /\ pc[j] = "idle" /\ jobState[j] = "WAITING_FOR_IP"
          /\ result[j] = NoResult
      BY <1>2, <2>0, <2>2 DEF JobInv, StateAtPc, ResultAtPc
    <3> QED BY <1>2, <2>0, <2>1, <3>1
            DEF JobInv, StateAtPc, StateAtFailure, Position, Budget, Address, ResultAtPc,
                ResultOfJob, Working, Delivering
  <2>3. CASE ~(j \in handedOff /\ ~stopped)
    <3>1. pc'[j] = pc[j]
      BY <1>2, <2>3
    <3> QED BY <1>2, <2>0, <2>1, <3>1
            DEF JobInv, StateAtPc, StateAtFailure, Position, Budget, Address, ResultAtPc,
                ResultOfJob
  <2> QED BY <2>2, <2>3
<1>6. (phase # "UP" => handedOff = {})'
  BY <1>2
<1> QED BY <1>4, <1>5, <1>6 DEF Inv

\* Stop, BeginRedelivery and BootCompletes leave the jobs alone.
LEMMA PhaseStepKeepsInv ==
  ASSUME Inv, UNCHANGED << durableVars, taskVars, contract, handedOff, unrecovered, plan,
                           portalVars, historyVars >>,
         phase' \in { "BOOT", "REDELIVER", "UP" }, stopped' \in BOOLEAN,
         phase' # "UP" => handedOff = {}
  PROVE  Inv'
<1>1. TypeOK'
  BY DEF Inv, TypeOK, durableVars, taskVars, portalVars, historyVars
<1>2. ASSUME NEW j \in Jobs PROVE JobInv(j)'
  <2>1. JobInv(j)
    BY DEF Inv
  <2> QED BY <2>1
          DEF JobInv, StateAtPc, StateAtFailure, Position, Budget, Address, ResultAtPc,
              ResultOfJob, durableVars, taskVars, portalVars
<1> QED BY <1>1, <1>2 DEF Inv

\* What is durable is all an invariant of a process that just started can use.
LEMMA ProcessRestartKeepsInv ==
  ASSUME Inv, ProcessRestart
  PROVE  Inv'
<1>0. TypeOK /\ \A j \in Jobs : JobInv(j)
  BY DEF Inv
<1>1. UNCHANGED << durableVars, portalVars, answers >>
  BY DEF ProcessRestart
<1>2. /\ restarts' \in 0 .. MaxRestarts
      /\ interrupted' \in [Jobs -> Steps \union { 0 }]
  <2>0. Len(Workflow) \in Nat /\ MaxRestarts \in Nat
    BY ExecutionAssumption
  <2>1. restarts < MaxRestarts /\ restarts' = restarts + 1 /\ restarts \in 0 .. MaxRestarts
    BY <1>0 DEF ProcessRestart, TypeOK
  <2>2. interrupted' = [j \in Jobs |-> IF pc[j] = "step" THEN done[j] + 1 ELSE 0]
    BY DEF ProcessRestart
  <2>3. ASSUME NEW j \in Jobs, pc[j] = "step" PROVE done[j] + 1 \in Steps
    <3>1. done[j] \in 0 .. (Len(Workflow) - 1)
      BY <1>0, <2>3 DEF JobInv, Position
    <3> QED BY <2>0, <3>1 DEF Steps
  <2>4. restarts' \in 0 .. MaxRestarts
    BY <2>0, <2>1
  <2> QED BY <2>2, <2>3, <2>4
<1>3. /\ contract' \in Contracts /\ stopped' = FALSE /\ phase' = "BOOT" /\ handedOff' = {}
      /\ pc' = [j \in Jobs |-> "idle"] /\ done' = [j \in Jobs |-> NoContext]
      /\ error' = [j \in Jobs |-> "NONE"] /\ plan' = [j \in Jobs |-> "NONE"]
      /\ unrecovered' \in SUBSET Jobs
  BY DEF ProcessRestart
<1>4. TypeOK'
  BY <1>0, <1>1, <1>2, <1>3
  DEF TypeOK, Awaiting, Errors, RecoveryStatuses, durableVars, portalVars
<1>5. ASSUME NEW j \in Jobs PROVE JobInv(j)'
  <2>0. JobInv(j)
    BY <1>0
  <2>1. /\ jobState'[j] = jobState[j] /\ retryCount'[j] = retryCount[j] /\ ip'[j] = ip[j]
        /\ result'[j] = result[j] /\ applied'[j] = applied[j]
    BY <1>1 DEF durableVars, portalVars
  <2>2. /\ pc'[j] = "idle" /\ done'[j] = NoContext /\ error'[j] = "NONE"
        /\ plan'[j] = "NONE" /\ handedOff' = {}
    BY <1>3
  <2> QED BY <2>0, <2>1, <2>2
          DEF JobInv, StateAtPc, StateAtFailure, Position, Budget, Address, ResultAtPc,
              ResultOfJob, Working, Delivering
<1> QED BY <1>3, <1>4, <1>5 DEF Inv

------------------------------------------------------------------------------
(* The invariant is inductive.                                              *)

LEMMA InitInv ==
  ASSUME Init
  PROVE  Inv
<1>1. TypeOK
  <2>1. 0 \in 0 .. MaxRestarts
    BY ExecutionAssumption
  <2>2. NoResult \in [status : DeliveryStatuses, outcome : Outcomes, certainty : Certainties]
    BY DEF NoResult, DeliveryStatuses, Outcomes, Certainties
  <2> QED BY <2>1, <2>2
          DEF Init, TypeOK, JobStates, LiveJobStates, AllocationStates, Awaiting, Errors,
              RecoveryStatuses
<1>2. ASSUME NEW j \in Jobs PROVE JobInv(j)
  <2>1. /\ jobState[j] = "WAITING_FOR_IP" /\ retryCount[j] = 0 /\ ip[j] = "RESERVED"
        /\ result[j] = NoResult /\ result[j].status = "NONE" /\ pc[j] = "idle"
        /\ done[j] = NoContext /\ error[j] = "NONE" /\ plan[j] = "NONE"
    BY DEF Init, NoResult
  <2>2. 0 <= MaxRetries
    BY ExecutionAssumption
  <2>3. Budget(j)
    BY <2>1, <2>2 DEF Budget
  <2> QED BY <2>1, <2>3
          DEF JobInv, StateAtPc, StateAtFailure, Position, Address, ResultAtPc, ResultOfJob,
              Working, Delivering, IsTerminal, TerminalJobStates
<1>3. phase = "UP"
  BY DEF Init
<1> QED BY <1>1, <1>2, <1>3 DEF Inv

LEMMA AttemptKeepsInv ==
  ASSUME Inv, NEW j \in Jobs, Attempt(j)
  PROVE  Inv'
BY RunAttemptKeepsInv, StartRunningKeepsInv, OpenSessionKeepsInv, SessionFailsKeepsInv,
   StepSucceedsKeepsInv, StepFailsKeepsInv, StepIsChallengedKeepsInv, StepIsAbortedKeepsInv,
   HandleFailureKeepsInv, KeepIpKeepsInv, ScheduleRetryKeepsInv, WakeKeepsInv,
   ResumeManualChallengeKeepsInv
DEF Attempt

LEMMA DeliveryKeepsInv ==
  ASSUME Inv, NEW j \in Jobs, Delivery(j)
  PROVE  Inv'
BY CaptureKeepsInv, RefuseDeliveryKeepsInv, RequeueKeepsInv, BeginDeliveryKeepsInv,
   SendKeepsInv, IsNotSentKeepsInv, IsRejectedKeepsInv, IsUncertainKeepsInv,
   IsAcknowledgedKeepsInv, TerminalizeKeepsInv, ReleaseKeepsInv
DEF Delivery

LEMMA RecoveryKeepsInv ==
  ASSUME Inv, NEW j \in Jobs, Recovery(j)
  PROVE  Inv'
BY RecoverFinalResultKeepsInv, RecoverManualChallengeKeepsInv, RecoverParkedJobKeepsInv,
   RecoverInterruptedExecutionKeepsInv, CountInterruptionKeepsInv,
   ScheduleInterruptedKeepsInv, RecoverPreExecutionKeepsInv, RedeliverKeepsInv
DEF Recovery

LEMMA NextInv ==
  ASSUME Inv, [Next]_vars
  PROVE  Inv'
<1>1. CASE Admit
  BY <1>1, AdmitKeepsInv
<1>2. CASE Stop
  <2>1. phase = "UP" /\ phase' = phase /\ stopped' = TRUE
        /\ UNCHANGED << durableVars, taskVars, contract, handedOff, unrecovered, plan,
                        portalVars, historyVars >>
    BY <1>2 DEF Stop
  <2> QED BY <2>1, PhaseStepKeepsInv
<1>3. CASE ProcessRestart
  BY <1>3, ProcessRestartKeepsInv
<1>4. CASE BeginRedelivery
  <2>1. phase = "BOOT" /\ phase' = "REDELIVER" /\ stopped' = stopped
        /\ UNCHANGED << durableVars, taskVars, contract, handedOff, unrecovered, plan,
                        portalVars, historyVars >>
    BY <1>4 DEF BeginRedelivery
  <2>2. handedOff = {} /\ stopped \in BOOLEAN
    BY <2>1 DEF Inv, TypeOK
  <2> QED BY <2>1, <2>2, PhaseStepKeepsInv
<1>5. CASE BootCompletes
  <2>1. phase' = "UP" /\ stopped' = stopped
        /\ UNCHANGED << durableVars, taskVars, contract, handedOff, unrecovered, plan,
                        portalVars, historyVars >>
    BY <1>5 DEF BootCompletes
  <2>2. stopped \in BOOLEAN
    BY DEF Inv, TypeOK
  <2> QED BY <2>1, <2>2, PhaseStepKeepsInv
<1>6. ASSUME NEW j \in Jobs, Task(j) \/ RequestResume(j) \/ PortalApplies(j) PROVE Inv'
  BY <1>6, AttemptKeepsInv, DeliveryKeepsInv, RecoveryKeepsInv, RequestResumeKeepsInv,
     PortalAppliesKeepsInv
  DEF Task
<1>7. CASE UNCHANGED vars
  <2>1. UNCHANGED << durableVars, taskVars, contract, handedOff, unrecovered, plan,
                     portalVars, historyVars >> /\ phase' = phase /\ stopped' = stopped
    BY <1>7 DEF vars, processVars
  <2>2. phase \in { "BOOT", "REDELIVER", "UP" } /\ stopped \in BOOLEAN
        /\ (phase # "UP" => handedOff = {})
    BY DEF Inv, TypeOK
  <2> QED BY <2>1, <2>2, PhaseStepKeepsInv
<1> QED BY <1>1, <1>2, <1>3, <1>4, <1>5, <1>6, <1>7 DEF Next

LEMMA Invariance == Spec => []Inv
<1>1. Init => Inv
  BY InitInv
<1>2. Inv /\ [Next]_vars => Inv'
  BY NextInv
<1> QED BY <1>1, <1>2, PTL DEF Spec

------------------------------------------------------------------------------
(* What follows from it.                                                    *)

\* Every variable keeps its type through every handler, retry and restart; the
\* index of the running step never leaves the workflow.
THEOREM TypeCorrect == Spec => []TypeOK
<1>1. Inv => TypeOK
  BY DEF Inv
<1> QED BY <1>1, Invariance, PTL

\* The runner and the recovery service never spend more than the retry budget
\* of a job, in however many attempts, resumes and restarts.
THEOREM BudgetKept == Spec => []RetryBudget
<1>1. Inv => RetryBudget
  BY DEF Inv, JobInv, Budget, RetryBudget
<1> QED BY <1>1, Invariance, PTL

\* No failure, retry, refused delivery or restart gives up the address of a job
\* that is not yet terminal.
THEOREM AddressHeld == Spec => []IpHeldUntilTerminal
<1>1. Inv => IpHeldUntilTerminal
  BY DEF Inv, JobInv, Address, IpHeldUntilTerminal
<1> QED BY <1>1, Invariance, PTL

\* Sessions and workflow steps run on an active allocation: what a retry or a
\* recovery parked is activated again before, also when a challenge is resumed.
THEOREM AttemptsOnActiveIp == Spec => []RunsOnActiveIp
<1>1. Inv => RunsOnActiveIp
  BY DEF Inv, JobInv, Address, RunsOnActiveIp
<1> QED BY <1>1, Invariance, PTL

\* A job is terminal only with a delivered result that the Portal applied, and
\* in the state its captured outcome stands for.
THEOREM TerminalAfterAck == Spec => []TerminalOnlyAfterAck
<1>1. ASSUME Inv PROVE TerminalOnlyAfterAck
  <2>1. ASSUME NEW j \in Jobs, IsTerminal(jobState[j])
        PROVE  /\ applied[j] > 0 /\ result[j].status = "DELIVERED"
               /\ jobState[j] = TerminalState(result[j].outcome)
    <3>1. ResultOfJob(j)
      BY <1>1 DEF Inv, JobInv
    <3> QED BY <2>1, <3>1 DEF ResultOfJob
  <2> QED BY <2>1 DEF TerminalOnlyAfterAck
<1> QED BY <1>1, Invariance, PTL

\* No captured outcome is followed by work: no attempt, step or retry of the
\* job, in this process or after a restart.
THEOREM CapturedWorkIsOver == Spec => []NoWorkAfterResult
<1>1. Inv => NoWorkAfterResult
  BY DEF Inv, JobInv, ResultAtPc, Working, NoWorkAfterResult
<1> QED BY <1>1, Invariance, PTL

\* A delivered result finds its job where the state machine allows the terminal
\* state of the outcome: finalizeDeliveredRecord never throws, and so no boot.
THEOREM DeliveredTerminalizes == Spec => []DeliveredCanTerminalize
<1>1. ASSUME Inv PROVE DeliveredCanTerminalize
  <2>1. ASSUME NEW j \in Jobs, result[j].status = "DELIVERED"
        PROVE  LET to == TerminalState(result[j].outcome)
               IN jobState[j] = to \/ CanTransition(jobState[j], to)
    <3>1. ResultOfJob(j) /\ result[j] # NoResult
      BY <1>1, <2>1 DEF Inv, JobInv, NoResult
    <3>2. CASE IsTerminal(jobState[j])
      BY <3>1, <3>2 DEF ResultOfJob
    <3>3. CASE jobState[j] = "RUNNING"
      BY <3>3 DEF TerminalState, CanTransition, Successors
    <3>4. CASE jobState[j] = "WAITING_FOR_MANUAL_CHALLENGE" /\ result[j].outcome = "FAILURE"
      BY <3>4 DEF TerminalState, CanTransition, Successors
    <3> QED BY <3>1, <3>2, <3>3, <3>4 DEF ResultOfJob
  <2> QED BY <2>1 DEF DeliveredCanTerminalize
<1> QED BY <1>1, Invariance, PTL

------------------------------------------------------------------------------
(* What a step may never do.                                                *)

KeepsResult(j) ==
  /\ result[j] # NoResult => result'[j].outcome = result[j].outcome
  /\ result[j].status = "DELIVERED" => result'[j] = result[j]

LEMMA SetDeliveryKeepsResults ==
  ASSUME TypeOK, NEW j \in Jobs, NEW s, NEW c, SetDelivery(j, s, c),
         result[j].status # "DELIVERED"
  PROVE  \A k \in Jobs : KeepsResult(k)
<1>1. result \in [Jobs -> ResultRow]
  BY DEF TypeOK, ResultRow
<1>2. result'[j].outcome = result[j].outcome /\ \A k \in Jobs \ {j} : result'[k] = result[k]
  BY <1>1 DEF SetDelivery, ResultRow
<1> QED BY <1>2 DEF KeepsResult

LEMMA RecordFailureKeepsResults ==
  ASSUME Inv, NEW j \in Jobs, NEW c, pc[j] \in { "begun", "sending" }, RecordFailure(j, c)
  PROVE  \A k \in Jobs : KeepsResult(k)
<1>1. TypeOK /\ result[j].status = "IN_FLIGHT"
  BY DEF Inv, JobInv, ResultAtPc
<1>2. SetDelivery(j, "PENDING", c) \/ SetDelivery(j, "UNCERTAIN", "UNCERTAIN")
  BY DEF RecordFailure
<1> QED BY <1>1, <1>2, SetDeliveryKeepsResults

\* Every final_results update of FinalResultStore names the status it expects.
LEMMA DeliveryKeepsResults ==
  ASSUME Inv, NEW j \in Jobs, Delivery(j)
  PROVE  \A k \in Jobs : KeepsResult(k)
<1>0. TypeOK /\ result \in [Jobs -> ResultRow]
  BY DEF Inv, TypeOK, ResultRow
<1>1. CASE Capture(j)
  <2>1. \/ result' = result
        \/ /\ result[j] = NoResult
           /\ \A k \in Jobs \ {j} : result'[k] = result[k]
    BY <1>0, <1>1 DEF Capture
  <2> QED BY <2>1 DEF KeepsResult, NoResult
<1>2. CASE Requeue(j) \/ BeginDelivery(j)
  <2>1. result[j].status \in { "UNCERTAIN", "PENDING" }
        /\ \E s, c : SetDelivery(j, s, c)
    BY <1>2 DEF Requeue, BeginDelivery
  <2> QED BY <1>0, <2>1, SetDeliveryKeepsResults
<1>3. CASE IsNotSent(j) \/ IsRejected(j) \/ IsUncertain(j)
  <2>1. pc[j] \in { "begun", "sending" } /\ \E c : RecordFailure(j, c)
    BY <1>3 DEF IsNotSent, IsRejected, IsUncertain, At
  <2> QED BY <2>1, RecordFailureKeepsResults
<1>4. CASE IsAcknowledged(j)
  <2>1. SetDelivery(j, "DELIVERED", "NONE") /\ pc[j] = "sending"
    BY <1>4 DEF IsAcknowledged, At
  <2>2. result[j].status = "IN_FLIGHT"
    BY <2>1 DEF Inv, JobInv, ResultAtPc
  <2> QED BY <1>0, <2>1, <2>2, SetDeliveryKeepsResults
<1>5. CASE RefuseDelivery(j) \/ Send(j) \/ Terminalize(j) \/ Release(j)
  <2>1. result' = result
    BY <1>5 DEF RefuseDelivery, Send, Terminalize, Release, durableVars
  <2> QED BY <2>1 DEF KeepsResult
<1> QED BY <1>1, <1>2, <1>3, <1>4, <1>5 DEF Delivery

LEMMA RecoveryKeepsResults ==
  ASSUME Inv, NEW j \in Jobs, Recovery(j)
  PROVE  \A k \in Jobs : KeepsResult(k)
<1>1. CASE RecoverFinalResult(j)
  <2>1. \/ result' = result
        \/ /\ result[j].status \in { "IN_FLIGHT", "UNCERTAIN" }
           /\ SetDelivery(j, "UNCERTAIN", "UNCERTAIN")
    BY <1>1 DEF RecoverFinalResult, SetDelivery
  <2>2. CASE result' = result
    BY <2>2 DEF KeepsResult
  <2>3. CASE result[j].status \in { "IN_FLIGHT", "UNCERTAIN" }
             /\ SetDelivery(j, "UNCERTAIN", "UNCERTAIN")
    BY <2>3, SetDeliveryKeepsResults DEF Inv
  <2> QED BY <2>1, <2>2, <2>3
<1>2. CASE ~RecoverFinalResult(j)
  <2>1. result' = result
    BY <1>2
    DEF Recovery, RecoverManualChallenge, RecoverParkedJob, RecoverInterruptedExecution,
        CountInterruption, ScheduleInterrupted, RecoverPreExecution, Redeliver, durableVars
  <2> QED BY <2>1 DEF KeepsResult
<1> QED BY <1>1, <1>2

LEMMA AttemptKeepsResults ==
  ASSUME NEW j \in Jobs, Attempt(j)
  PROVE  result' = result
BY DEF Attempt, RunAttempt, StartRunning, OpenSession, SessionFails, StepSucceeds,
       StepFails,
       StepIsChallenged, StepIsAborted, HandleFailure, KeepIp, ScheduleRetry, Wake,
       ResumeManualChallenge, durableVars

\* A captured outcome is never overwritten and an acknowledged delivery is
\* final, whichever of the runner, the delivery and the recovery acts next.
THEOREM ResultsFinal == Spec => ResultIsFinal
<1>1. ASSUME Inv, [Next]_vars PROVE \A k \in Jobs : KeepsResult(k)
  <2>1. CASE \E j \in Jobs : Delivery(j)
    BY <1>1, <2>1, DeliveryKeepsResults
  <2>2. CASE \E j \in Jobs : Recovery(j)
    BY <1>1, <2>2, RecoveryKeepsResults
  <2>3. CASE \E j \in Jobs : Attempt(j)
    BY <2>3, AttemptKeepsResults DEF KeepsResult
  <2>4. CASE \/ Admit \/ Stop \/ ProcessRestart \/ BeginRedelivery \/ BootCompletes
             \/ \E j \in Jobs : RequestResume(j) \/ PortalApplies(j)
             \/ UNCHANGED vars
    <3>1. result' = result
      BY <2>4
      DEF Admit, Stop, ProcessRestart, BeginRedelivery, BootCompletes, RequestResume,
                  PortalApplies, vars, durableVars
    <3> QED BY <3>1 DEF KeepsResult
  <2> QED BY <1>1, <2>1, <2>2, <2>3, <2>4 DEF Next, Task
<1>2. Inv /\ [Next]_vars =>
        [\A j \in Jobs :
           /\ result[j] # NoResult => result'[j].outcome = result[j].outcome
           /\ result[j].status = "DELIVERED" => result'[j] = result[j]]_vars
  BY <1>1 DEF KeepsResult
<1> QED BY <1>2, Invariance, PTL DEF Spec, ResultIsFinal

LeavesChallenge(j) ==
  /\ jobState[j] = "WAITING_FOR_MANUAL_CHALLENGE"
  /\ jobState'[j] \notin { "WAITING_FOR_MANUAL_CHALLENGE", "FAILED_FINAL" }
  => jobState'[j] = "RUNNING" /\ pc[j] = "resume" /\ done[j] # NoContext

LEMMA TaskLeavesChallenge ==
  ASSUME Inv, NEW j \in Jobs, Task(j)
  PROVE  \A k \in Jobs : LeavesChallenge(k)
<1>0. TypeOK /\ JobInv(j)
  BY DEF Inv
<1>1. ASSUME NEW to \in JobStates, Transition(j, to),
             jobState[j] = "WAITING_FOR_MANUAL_CHALLENGE" =>
               \/ to = "RUNNING" /\ pc[j] = "resume" /\ done[j] # NoContext
               \/ to = "FAILED_FINAL"
      PROVE  \A k \in Jobs : LeavesChallenge(k)
  BY <1>0, <1>1, TransitionType DEF LeavesChallenge
<1>2. { "RUNNING", "WAITING_FOR_MANUAL_CHALLENGE", "RETRY_PENDING" } \subseteq JobStates
  BY DEF JobStates, LiveJobStates
<1>3. CASE StartRunning(j)
  <2>1. Transition(j, "RUNNING") /\ jobState[j] # "WAITING_FOR_MANUAL_CHALLENGE"
    BY <1>0, <1>3 DEF StartRunning, At, JobInv, StateAtPc
  <2> QED BY <1>1, <1>2, <2>1
<1>4. CASE ScheduleRetry(j) \/ ScheduleInterrupted(j)
  <2>1. Transition(j, "RETRY_PENDING") /\ jobState[j] # "WAITING_FOR_MANUAL_CHALLENGE"
    BY <1>0, <1>4 DEF ScheduleRetry, ScheduleInterrupted, At, JobInv, StateAtPc
  <2> QED BY <1>1, <1>2, <2>1
<1>5. CASE StepIsChallenged(j)
  <2>1. jobState[j] = "RUNNING"
    BY <1>0, <1>5 DEF StepIsChallenged, At, JobInv, StateAtPc
  <2>2. jobState' = jobState \/ Transition(j, "WAITING_FOR_MANUAL_CHALLENGE")
    BY <1>5 DEF StepIsChallenged
  <2> QED BY <1>1, <1>2, <2>1, <2>2 DEF LeavesChallenge
<1>6. CASE ResumeManualChallenge(j)
  <2>1. \/ jobState' = jobState
        \/ Transition(j, "RUNNING") /\ pc[j] = "resume" /\ done[j] # NoContext
    BY <1>6 DEF ResumeManualChallenge, At
  <2> QED BY <1>1, <1>2, <2>1 DEF LeavesChallenge
<1>7. CASE Terminalize(j)
  <2>1. jobState' = jobState \/ Transition(j, TerminalState(result[j].outcome))
    BY <1>7 DEF Terminalize
  <2>2. TerminalState(result[j].outcome) \in { "COMPLETED", "FAILED_FINAL" } \intersect JobStates
    BY DEF TerminalState, JobStates, TerminalJobStates
  <2>3. ~CanTransition("WAITING_FOR_MANUAL_CHALLENGE", "COMPLETED")
    BY DEF CanTransition, Successors
  <2> QED BY <1>1, <2>1, <2>2, <2>3 DEF LeavesChallenge, Transition
<1>8. CASE jobState' = jobState
  BY <1>8 DEF LeavesChallenge
<1>9. \/ StartRunning(j) \/ ScheduleRetry(j) \/ ScheduleInterrupted(j) \/ StepIsChallenged(j)
      \/ ResumeManualChallenge(j) \/ Terminalize(j) \/ jobState' = jobState
  <2>1. Attempt(j) => \/ StartRunning(j) \/ ScheduleRetry(j) \/ StepIsChallenged(j)
                      \/ ResumeManualChallenge(j) \/ jobState' = jobState
    BY DEF Attempt, RunAttempt, OpenSession, SessionFails, StepSucceeds, StepFails,
           StepIsAborted, HandleFailure, KeepIp, Wake, durableVars
  <2>2. Delivery(j) => Terminalize(j) \/ jobState' = jobState
    BY DEF Delivery, Capture, RefuseDelivery, Requeue, BeginDelivery, Send, IsNotSent,
           IsRejected, IsUncertain, IsAcknowledged, RecordFailure, Release, durableVars
  <2>3. Recovery(j) => ScheduleInterrupted(j) \/ jobState' = jobState
    BY DEF Recovery, RecoverFinalResult, RecoverManualChallenge, RecoverParkedJob,
           RecoverInterruptedExecution, CountInterruption, RecoverPreExecution, Redeliver,
           durableVars
  <2> QED BY <2>1, <2>2, <2>3 DEF Task
<1> QED BY <1>3, <1>4, <1>5, <1>6, <1>7, <1>8, <1>9

\* A job an operator has to help runs again only by the operator's resume in the
\* process that still has its context, however many attempts, recoveries and boots
\* work beside it; otherwise it stays where it is or ends as FAILED_FINAL.
THEOREM ChallengeWaitsForOperator == Spec => NoAutoResume
<1>1. ASSUME Inv, [Next]_vars PROVE \A k \in Jobs : LeavesChallenge(k)
  <2>1. CASE \E j \in Jobs : Task(j)
    BY <1>1, <2>1, TaskLeavesChallenge
  <2>2. CASE \/ Admit \/ Stop \/ ProcessRestart \/ BeginRedelivery \/ BootCompletes
             \/ \E j \in Jobs : RequestResume(j) \/ PortalApplies(j)
             \/ UNCHANGED vars
    <3>1. jobState' = jobState
      BY <2>2
      DEF Admit, Stop, ProcessRestart, BeginRedelivery, BootCompletes, RequestResume,
                  PortalApplies, vars, durableVars
    <3> QED BY <3>1 DEF LeavesChallenge
  <2> QED BY <1>1, <2>1, <2>2 DEF Next
<1>2. Inv /\ [Next]_vars =>
        [\A j \in Jobs :
           /\ jobState[j] = "WAITING_FOR_MANUAL_CHALLENGE"
           /\ jobState'[j] \notin { "WAITING_FOR_MANUAL_CHALLENGE", "FAILED_FINAL" }
           => jobState'[j] = "RUNNING" /\ pc[j] = "resume" /\ done[j] # NoContext]_vars
  BY <1>1 DEF LeavesChallenge
<1> QED BY <1>2, Invariance, PTL DEF Spec, NoAutoResume
=============================================================================
