--------------------------- MODULE ExecutionState ---------------------------
(***************************************************************************)
(* The state in which jobs are executed, finalized and recovered, shared   *)
(* by the modules ExecutionAttempt, ResultDelivery and RestartRecovery:    *)
(* what is in the database, what only the process remembers, and what is   *)
(* under way at the Portal.                                                *)
(*                                                                         *)
(* The process has one thread.  pc[j] says where the task of job j is; at  *)
(* the values in Awaiting the task waits for something (a microtask, a     *)
(* timer, a response) and others may run.  Between two such points a task  *)
(* runs alone, but every database transaction on the way is a step of its  *)
(* own, since the process may die between any two of them.                 *)
(***************************************************************************)
EXTENDS JobStates, Integers, Sequences

CONSTANTS
  Jobs,
  Workflow,    \* kinds of the workflow's steps: "http", "otp" or "upload"
  MaxRetries,  \* maxRetries of the runner and of the recovery service
  Contracts,   \* Portal result contracts a boot may be configured with
  MaxRestarts, \* bound: process restarts in one behaviour
  MaxRequests  \* bound: requests for a job after which nobody resumes it

StepKinds == { "http", "otp", "upload" }

\* No contract, one without and one with verified idempotent replay.
ContractKinds == { "NONE", "PLAIN", "IDEMPOTENT" }

ASSUME ExecutionAssumption ==
  /\ Workflow \in Seq(StepKinds) /\ Workflow # << >>
  /\ MaxRetries \in Nat /\ MaxRestarts \in Nat /\ MaxRequests \in Nat
  /\ Contracts \subseteq ContractKinds /\ Contracts # {}

VARIABLES
  \* durable
  jobState,     \* jobs.state
  retryCount,   \* jobs.retry_count
  currentStep,  \* jobs.current_step: index of a step, 0 for NULL
  ip,           \* status of the job's allocation row
  result,       \* the job's row of final_results
  \* memory of the process
  phase,        \* "BOOT" (recoverAll), "REDELIVER" (result runner) or "UP"
  contract,     \* the configured Portal result contract
  stopped,      \* IntakeExecutionHandler.stopped: every signal is aborted
  pc,           \* where the task of a job is
  done,         \* JobContext: steps with a response; NoContext without one
  error,        \* the error the task is handling
  handedOff,    \* jobs of the intake cycle the handler has yet to start
  unrecovered,  \* jobs recoverAll has yet to look at
  plan,         \* recoverAll's results: the recovery status of each job
  \* the Portal
  wire,         \* result updates sent and not yet processed
  applied,      \* result updates the Portal applied
  \* history
  interrupted,  \* the step that ran when the process last ended, or 0
  answers,      \* how often each step has succeeded
  restarts

durableVars == << jobState, retryCount, currentStep, ip, result >>
taskVars == << pc, done, error >>
processVars == << phase, contract, stopped, handedOff, unrecovered, plan >>
portalVars == << wire, applied >>
historyVars == << interrupted, answers, restarts >>
vars == << durableVars, taskVars, processVars, portalVars, historyVars >>

NoContext == -1

Steps == 1 .. Len(Workflow)

AllocationStates == { "RESERVED", "ACTIVE", "RETRY_RESERVED", "RELEASED" }

\* FINAL_RESULT_DELIVERY_STATUSES, and "NONE" for no row.
DeliveryStatuses == { "NONE", "PENDING", "IN_FLIGHT", "DELIVERED", "UNCERTAIN" }
Certainties == { "NONE", "NOT_SENT", "REJECTED", "UNCERTAIN" }
Outcomes == { "NONE", "SUCCESS", "FAILURE" }

NoResult == [status |-> "NONE", outcome |-> "NONE", certainty |-> "NONE"]

\* NONE: the workflow succeeded.  CANCELLED: JobCancelledError.  NO_CONTEXT:
\* the plain Error of a resume without a JobContext.
Errors == { "NONE", "RETRYABLE", "FATAL", "CHALLENGE", "CANCELLED", "NO_CONTEXT" }

RecoveryStatuses ==
  { "NONE", "RETRY_SCHEDULED", "RETRY_EXHAUSTED", "WAITING_MANUAL",
    "BLOCKED_UNSAFE_REPLAY", "BLOCKED_SESSION_LOSS", "FINAL_RESULT_PENDING",
    "FINAL_RESULT_UNCERTAIN", "FINAL_RESULT_DELIVERED" }

Awaiting == { "idle", "run", "resume", "session", "step", "sleeping", "sending" }

\* Awaits that end before any event is handled.
Microtasks == { "run", "resume" }

\* What runs between two awaits, in the order of the code.
Running ==
  { "activated", "classify", "counted", "kept", "capture", "deliver",
    "begun", "terminalize", "release", "recovery kept", "recovery counted" }

TypeOK ==
  /\ jobState \in [Jobs -> JobStates]
  /\ retryCount \in [Jobs -> Nat]
  /\ currentStep \in [Jobs -> Steps \union { 0 }]
  /\ ip \in [Jobs -> AllocationStates]
  /\ result \in [Jobs -> [status : DeliveryStatuses, outcome : Outcomes,
                          certainty : Certainties]]
  /\ phase \in { "BOOT", "REDELIVER", "UP" }
  /\ contract \in Contracts
  /\ stopped \in BOOLEAN
  /\ pc \in [Jobs -> Awaiting \union Running]
  /\ done \in [Jobs -> Steps \union { 0, NoContext }]
  /\ error \in [Jobs -> Errors]
  /\ handedOff \in SUBSET Jobs
  /\ unrecovered \in SUBSET Jobs
  /\ plan \in [Jobs -> RecoveryStatuses]
  /\ wire \in [Jobs -> Nat] /\ applied \in [Jobs -> Nat]
  /\ interrupted \in [Jobs -> Steps \union { 0 }]
  /\ answers \in [Jobs -> [Steps -> Nat]]
  /\ restarts \in 0 .. MaxRestarts

\* Intake has bound an address to every job, moved it to WAITING_FOR_IP and
\* handed it to the handler, which runs for the first time.
Init ==
  /\ jobState = [j \in Jobs |-> "WAITING_FOR_IP"]
  /\ retryCount = [j \in Jobs |-> 0]
  /\ currentStep = [j \in Jobs |-> 0]
  /\ ip = [j \in Jobs |-> "RESERVED"]
  /\ result = [j \in Jobs |-> NoResult]
  /\ phase = "UP"
  /\ contract \in Contracts
  /\ stopped = FALSE
  /\ pc = [j \in Jobs |-> "idle"]
  /\ done = [j \in Jobs |-> NoContext]
  /\ error = [j \in Jobs |-> "NONE"]
  /\ handedOff = Jobs
  /\ unrecovered = {}
  /\ plan = [j \in Jobs |-> "NONE"]
  /\ wire = [j \in Jobs |-> 0]
  /\ applied = [j \in Jobs |-> 0]
  /\ interrupted = [j \in Jobs |-> 0]
  /\ answers = [j \in Jobs |-> [k \in Steps |-> 0]]
  /\ restarts = 0

\* The task of j may run: it is at p and no other task is between two awaits.
At(j, p) ==
  /\ pc[j] = p
  /\ \A i \in Jobs \ {j} : pc[i] \in Awaiting

GoTo(j, p) == pc' = [pc EXCEPT ![j] = p]

\* Every task waits for the outside: the next event can be handled.
EventLoop == \A j \in Jobs : pc[j] \in Awaiting \ Microtasks

HasLiveIp(j) == ip[j] # "RELEASED"

\* transitionJob: the state machine decides; a refused transition throws.
Transition(j, to) ==
  /\ CanTransition(jobState[j], to)
  /\ jobState' = [jobState EXCEPT ![j] = to]
=============================================================================
