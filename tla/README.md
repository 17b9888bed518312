# IVAC worker: a TLA+ verification project

The repository is a Node.js worker.  It takes visa applications from a *Portal*,
runs a configured HTTP workflow for each of them against a *target* site through
one exclusive outbound address (proxy), and reports one final result per
application to the Portal.  Everything it must not forget is in one SQLite
database (better-sqlite3, synchronous, one process).  The modules here model the
part of that program whose correctness depends on order, failure and restart:
who owns an address, what an intake cycle leaves behind, how an execution fails
and is retried, when a job may become terminal, what a restart does, which codes and
documents a workflow works with, and how the process comes up and goes down.

Paths below are relative to `src/src/` of the repository copy (`jobs/job-store.js` is
`src/src/jobs/job-store.js`).

## 1. Inventory

| Part | State it keeps | Operations | Talks to | Hard about it | What makes it correct |
|---|---|---|---|---|---|
| **Job life cycle** `jobs/job-state.js` | none | transition table, terminal test | everybody | every writer assumes the same table | a delivered result can always be recorded (`DeliveredCanTerminalize`) |
| **Job store** `jobs/job-store.js` | tables `jobs`, `job_events`, claims | create-or-get, transition, retry count, claim | database | a count and a transition in separate transactions | one transition per step, retry budget |
| **Proxy pool** `network/proxy-pool.js` | table `proxies` | sync from config, health, enable, disable | allocator, reservations (share rows) | reconfiguration while owned | an owner's row and endpoint are never touched |
| **IP allocator** `network/ip-allocator.js` | table `ip_allocations` | acquire, activate, retry-reserve, release | pool rows, job state | release while still needed | one address per job, one owner per address |
| **Intake reservations** `network/intake-reservation-store.js` | table `portal_intake_reservations` | reserve, bind, release | pool rows, allocations, jobs | two tables count against one limit | gapless hand-over, capacity |
| **Portal intake** `portal/portal-intake-service.js`, `portal/capacity.js` | locals of one cycle | `runCycle` | Portal client, all stores | destructive fetch, failure in the middle of a cycle, duplicates | nothing consumed without an address |
| **Intake loop** `runtime/intake-loop.js` | loop flags, timer | start, stop, delay | intake service, handler | stop at any await | stop returns, nothing starts after it |
| **Execution handler** `runtime/intake-execution-handler.js` | `stopped`, running tasks, abort controllers | admit a cycle, resume, stop | runners | stop races with admission | no work after stop |
| **Execution worker** `runtime/execution-worker.js` | JobContext per job (memory) | run, resume a manual challenge | allocator, sessions, engine | context lost on restart | no completed step is repeated |
| **Retry runner and policy** `runtime/retrying-execution-runner.js`, `recovery/retry-policy.js` | none (durable count) | classify, count, keep address, back off | job store, allocator | three transactions per retry | bounded retries on the same address |
| **Workflow engine** `workflow/*` | responses, current step, upload markers in the JobContext | execute, resume prefix, upload loop | HTTP client, OTP, documents | abort points, resume position, one of several uploads fails | every state it leaves behind can be resumed, nothing is repeated |
| **OTP service** `otp/*` | watch and code in the JobContext | take a baseline, poll until deadline or abort, match | page with the codes of many phone numbers | old, late, lost and other people's codes, deadline vs. poll | a job signs in with its own, fresh code |
| **Finalizing runner** `runtime/finalizing-execution-runner.js` | none | success / terminal failure to a result | result service | which error is an outcome | only terminal failures become FAILURE |
| **Final result service and store** `results/*` | table `final_results` | capture, begin, delivered, uncertain, requeue | Portal result client, job store, allocator | lost and late answers, crash between any two records | terminal only after acknowledgement, no blind replay |
| **Portal result client** `portal/portal-result-client.js`, `portal-result-http-contract.js` | configured contract | send | Portal | what an error proves about delivery | certainty of each answer |
| **Restart recovery** `recovery/recovery-service.js`, `runtime/final-result-recovery-runner.js` | table `job_recovery` (written only) | `recoverAll`, redeliver | all stores | runs on whatever a crash left | boot always completes, address kept, budget kept |
| **Manual-challenge operations** `runtime/manual-challenge-operations.js` | none | resume, returned by `main()` to a program that embeds it | handler | job state vs. memory | no resume without context |
| **Sessions, dispatchers, HTTP clients** `session/*`, `network/dispatcher-pool.js`, `workflow/target-http-client.js` | session per job, dispatcher per allocation and per probed proxy (memory) | create, close, request, judge an answer | worker, engine | close while in use, close that fails, the order in which an answer is judged | a request has an open session |
| **Cookies** `session/cookie-jar.js` | jar per session | set, match | HTTP client | string formats | (not modelled) |
| **Graceful shutdown** `runtime/graceful-shutdown.js` | promise, stages, errors | stop intake, close sessions, dispatchers, dashboard, database | handler, loop, sessions, database | order, a stage that fails or waits | database closed last, every stage reached |
| **Documents** `documents/*`, `runtime/job-document-service.js` | documents in the JobContext | fetch, validate, upload | engine | duplicates, limits, one of several fails | distinct documents, none sent twice |
| **Readiness, configuration, contracts** `config/*`, `runtime/*-readiness.js`, `contracts/*` | none | gates at boot | `index.js` | a proxy's health of an earlier boot | intake starts behind every gate |
| **Dashboard, observability** `dashboard/*`, `runtime/observability.js` | listener, requests | read-only projections (GET only) | stores | a request while the process ends | answered before the database closes |
| **Database, composition root** `db/*`, `index.js` | schema, handle | migrations, wiring, boot order | all | main() throws anywhere | handle closed once nobody needs it |

How the parts meet at run time: at boot `index.js` reads the configuration, opens the
database, passes the gates, synchronises and probes the proxies, runs `recoverAll`,
then the result redelivery, starts the dashboard, and then the loop.
The loop runs a cycle; the cycle reserves an address, fetches *one* application
(the Portal forgets it), creates the job, binds the address, moves the job to
`WAITING_FOR_IP`; at the end of the cycle the handler starts one task per job.  A
task activates the address, opens a session, runs the workflow, and either
sleeps and tries again on the same address, or parks the job at a manual
challenge, or captures a result, delivers it, terminates the job, and releases
the address.  A signal starts the shutdown: the handler aborts its tasks and waits
for them, the loop stops, and sessions, dispatchers, dashboard and database close.

The hazards of each part, with the line where they bite and the properties that
watch them, are listed in `PROJECT.json`.

## 2. Modules and how they correspond to the code

```
JobStates ── ProxyAllocation ──refines── ExclusiveIp
    │              │     └── ProxyAllocationProofs (TLAPS) ─┐
    │              └── IntakeCycle ─────────────────────────┴─ IntakeCycleProofs (TLAPS)
    │
    └── ExecutionState ─┬─ ExecutionAttempt ─┐
                        ├─ ResultDelivery ───┼─ ExecutionRuntime ──refines── FinalResult
                        └─ RestartRecovery ──┘        │
                              ExecutionProofs ── ExecutionHistoryProofs ── FinalResultProofs (TLAPS)

SessionPool ── WorkerBoot ── WorkerProcess ── WorkerProcessProofs (TLAPS)
TargetAnswer ── WorkflowRun ── WorkflowRunProofs (TLAPS)
```

A module extends those to its left.  The four groups look at the
same program with different lenses: the tables, one job's fate across restarts, one
job's workflow inside a process, and the process as a whole.  What one of them
takes as a step of its environment is the subject of another: the `ExecutionStep` of
`IntakeCycle` is `ExecutionRuntime`, a step of `ExecutionAttempt` is an execution of
`WorkflowRun`, and a task of `WorkerProcess` is a `pc` of `ExecutionRuntime`.

**JobStates** is `job-state.js`: states, terminal states, `Successors`.

**ProxyAllocation** has the rows of the three tables as variables.  A row id
(`AllocationIds`, `ReservationIds`) stands for one INSERT; rows are never
deleted, so the id sets bound how many allocations and reservations one
behaviour makes.  Every public method is one IMMEDIATE transaction and one action;
a method that throws rolls back, so its precondition is the action's guard.  The
UPDATEs of a transaction keep their own WHERE clauses (`MoveAllocation`, the
release of a reservation), because properties such as `StatusAgreement` are about
exactly what those clauses let through.  `Next` offers everything the classes
offer; `RuntimeNext` what the running process really calls (it never calls
`acquireForJob`, `enableProxy`, `disableProxy`, and releases only with
`JOB_COMPLETED` and `FAILED_FINAL`).

**ExclusiveIp** is the promise without the tables: a holder per address, `Take`,
`HandOver` from a reservation to a job, `GiveBack`.  `ProxyAllocation` implements it
under the mapping `HolderOf`.

**IntakeCycle** extends `ProxyAllocation` with the control state of the loop and of
`runCycle` (`cycle`), and performs the table operations through the actions of
`ProxyAllocation`.  Each process boots first: the pool is synchronised and probed
(`ConfigureProxies`, `ProbeProxy`), `ProxiesReady` is the gate
(`assertProxyReadinessForIntake`: without a healthy proxy on offer the boot ends there),
recovery works on the jobs of earlier processes at `"ready"`, and `StartLoop` follows.
The order of `runCycle` is the order of `cycle`'s values: sizing
(`calculateEffectiveCapacity`), `Reserve`, `Fetch`, `CreateFetched` or `SkipDuplicate`,
`BindFetched`, `Claim`, `Enqueue`; `HandOff` is the call of `onCycleResult`.
`CycleFails` is the catch block: an iteration that still has its unbound reservation
releases it, or the release itself is refused, which the nested `catch` swallows
(`refused`): the loop ends with the cycle's own error and the reservation stays in the
table of a living process.  Only at the awaits of the loop (`EventLoop`) do
other tasks and signals get a turn; between them only a crash comes in.  A stop comes in the two calls of `stopIntake`: `stopping` is
`handler.stop()`, which waits for the tasks of the cycle (`executing`) and of manual
resumes (`resuming`, which no cycle waits for), and `stopRequested` the `loop.stop()` that
follows; between them the loop still runs.  An application and the job made from it have one name, since
`createOrGetJob` is keyed by the application id.  `ExecutionStep` is all that the
executions of `ExecutionRuntime` can do to the tables meanwhile.

**ExecutionState** declares the state of executions in four groups: durable columns
(`jobState`, `retryCount`, `currentStep`, `ip`, `result`), memory of the process
(`phase`, `contract`, `stopped`, `pc`, `done`, `error`, `handedOff`, `unrecovered`, `plan`),
requests at the Portal (`wire`, `applied`), and history used by properties only.

*Interleaving.*  Node runs one task at a time until it awaits.  `pc[j]` says where
the task of job `j` is.  At the values of `Awaiting` the task waits and anything
else may run; at the other values (`Running`) it is between two database
transactions of one synchronous stretch, and `At` lets no other task in.  The
stretch is still cut into steps because the process can die between any two
transactions: `ProcessRestart` is enabled everywhere.  `run` and `resume` are awaits
that end before the next event is handled (microtasks), which is what `EventLoop`
says for events such as a stop or an operator's request.

**ExecutionAttempt** is the worker, the engine's control, the retry runner, manual
resume and stop.  A failure is one of the kinds `classifyRetry` tells apart:
retryable, not retryable, a challenge, an abort (`JobCancelledError`), a missing
context.  A workflow is a sequence of step kinds; a step's request ends with
success, a failure, a challenge, or, for the kinds that look at the signal while
they work (OTP polls, documents), with an abort.

**ResultDelivery** is `FinalResultService.deliverRecord` line by line, one store
transaction per action.  Its branch for a row that is already `DELIVERED` is left out:
no caller comes with one, because `recoverAll` terminalizes those itself
(`DeliveredTerminalizes` is about them).  The payload, its hash and the idempotency key appear as
the captured outcome.  The Portal is a counter of requests under way (`wire`) and of
requests applied (`applied`): it may apply a request whose answer nobody hears.

**RestartRecovery** is `recoverJob` with one action per branch, in the order of the
branches, and the redelivery runner.  `ProcessRestart` forgets all memory and may
choose another Portal contract from `Contracts`.

**ExecutionRuntime** composes the three and holds the properties.

**FinalResult** is the promise about the end of a job without failures, retries or
restarts: the outcome is captured, applied by the Portal, acknowledged, the job ends as
the outcome says, the address goes; each once, in this order.  `ExecutionRuntime`
implements it (`ResultLifecycle`) under `StageOf` and `EndingOf`, which read durable
columns and the Portal only, so that the death of the process is a stutter.

**SessionPool** is `SessionManager` and `DispatcherPool`.  A job has one allocation while
a process lives, so the job names its session and its execution dispatcher; probe
dispatchers are named by proxy.  `closeForJob` is cut at its await: the session is
forgotten and its dispatcher taken out of the pool before `close()` ends or rejects.

**WorkerBoot** is `main()` up to the decision to stay alive.  `config` has the fields the
gates read, as Booleans; each gate is an operator named after its function, and each
`await` or place that may throw is a step of `boot`.  `Abandon` is the `finally` block that
closes the database.

**WorkerProcess** adds the loop, the tasks by what they wait for, the dashboard's
request, and `performShutdown` with its stages.  The bounded wait for tracked work is
not there, since nothing in the program calls `trackInFlight`.

**TargetAnswer** has no state.  An answer is a record of how it arrives, its status,
body and content type; the operators follow the order in which `JobHttpClient` and then
the client that asked look at them, and give its verdict.

**WorkflowRun** is `WorkflowEngine.execute` with the OTP and document services on one
JobContext (`responses` to `uploads` are its fields), executed up to `MaxAttempts` times,
since a retry and a manual resume execute it again.  `place` is the await the execution
is at.  The world is a table of codes: a row belongs to a phone number and is the
n-th code sent to it (0: from an earlier session); rows appear in any order, late or
never.  `seen` and `acknowledged` are history for the properties.  The matcher tells codes
apart by phone number and baseline only, so the model does too: two applications with
one phone number, or a superseded code of the same sign-in, are outside of what
`OwnFreshCode` says.

**MC\*** modules only fix workflows and symmetry sets.  Definitions whose name has
the form `Action_Change` are deliberately wrong variants used to show that a
property can fail; no specification uses them.

## 3. Runs

| Run | Instance | Properties | What it shows |
|---|---|---|---|
| `proxy_tables` | 2 proxies, 2 jobs, 2 allocation rows, 2 reservation rows, `Spec` | `TypeOK`, `OneIpPerJob`, `OneHolderPerProxy`, `StatusAgreement`, `AvailableIsUsable` | no order of the transactions of the three stores breaks ownership |
| `proxy_runtime` | the same with 2 endpoints and `MaxConcurrent = 1`, `RuntimeSpec` | `EndpointAgreement`, `SlotsWithinCapacity`, `HeldUntilTerminal` | reconfiguration that moves endpoints, capacity, and the address of a live job |
| `intake` | 2 proxies, 2 jobs, 3 reservation rows, 2 iterations per cycle, 1 crash | `IntakeTypeOK`, `ConsumesOnlyWithIp`, `BatchIsReady`, `HandedOffOnce`, `OneOrphanPerProcess`, `NothingStartedAfterStop`, `ExclusiveOwnership` | failures at each step, with or without the release of the reservation, duplicates, executions beside the cycle, stop, crash; the loop over the tables implements `ExclusiveIp` |
| `execution` | 1 job, workflow http-otp-upload, 2 retries, all contracts, 2 restarts | `TypeOK`, `RetryBudget`, `TerminalOnlyAfterAck`, `DeliveredCanTerminalize`, `NoWorkAfterResult`, `CompletedStepsNotReplayed`, `NoAutoResume`, `ResultLifecycle`, `TasksEnd`, `BootEnds` | one job through everything that can happen to it; it implements `FinalResult` |
| `execution_pair` | 2 jobs, workflow http-upload, 1 retry, one contract, 1 restart | `IpHeldUntilTerminal`, `RunsOnActiveIp`, `NoBlindReplay`, `NoAbandonedJob`, `NoStepAfterStop` | interleavings of two tasks with a stop and a restart |
| `process` | 2 jobs, 2 proxies, every configuration, any proxies owned or healthy at boot | `IntakeOnlyWhenReady`, `DatabaseOutlivesWork`, `RequestsOnOpenSession`, `NothingLeftOpen`, `ShutdownEnds` | the process from its boot to its end, with a signal at any moment and closings that fail |
| `workflow` | 1 job, 1 stranger, the shipped sign-in plus documents (6 steps), 2 documents of 3 contents, 3 executions, 2 codes | `RunTypeOK`, `OwnFreshCode`, `NothingRepeated`, `ResumeAccepted`, `ExecutionEnds` | every kind of answer to every request, codes late, lost or twice, an abort at any moment |
| `shutdown_as_failure` | 1 job | `ShutdownIsNotAFailure` (violated) | finding 1 |
| `interrupted_upload` | 1 job, 1 restart | `InterruptedUploadIsBlocked` (violated) | finding 2 |
| `intake_orphan` | 2 proxies, 1 of everything else, 1 crash | `OrphansAreRecovered` (violated) | finding 3 |
| `intake_after_stop` | 1 job, 1 proxy | `NoIntakeAfterShutdown` (violated) | finding 4 |
| `challenge_as_retry` | 1 job, a workflow of one request | `ChallengeIsNotRetried` (violated) | finding 5 |

*Bounds.*  `MaxRestarts` and `MaxCrashes` bound restarts: two restarts reach a restart of
a recovered state, and recovery writes only states that it also reads, so a third
one starts from a state of the same kind.  `MaxRequests` bounds the result requests of a
job after which no operator resumes it again; without it a challenge after each
restart gives an infinite supply of requests.  `MaxRetries` of 1 or 2 lets the budget be
spent, exceeded by none, and be spent partly by recovery.  Two allocation and
two or three reservation rows allow a row to be released and the address to be
taken again by the other job.  Two jobs in `process` let one be parked or closing
while the other still works; two proxies let one answer its probe and the other
throw or be owned.  In `workflow` three executions allow a failure in an execution
that itself resumed, two codes a code of the first sign-in to arrive during the
second, a third content a document that differs from what was prepared before, and a
`Patience` of 2 a poll that is followed by another and one that is not.  The proofs
(below) have no such bounds.

*Deadlock* is not checked: the programs end (all jobs terminal, row ids used up,
loop stopped, process over), and a task that hangs is caught by `TasksEnd`, a boot that
hangs by `BootEnds`, a shutdown by `ShutdownEnds`, an execution by `ExecutionEnds`.

*Fairness.*  `FairSpec` has strong fairness for each job's task and weak fairness for
admission and the two boot steps.  Sessions, requests and retry delays end by
timeouts or timers, and Node serves events in order: a task whose event is ready
runs no matter how often other tasks go first.  It has to be strong because while
another task is between two awaits this one is disabled.  Nothing is assumed of
the Portal, operators, signals or crashes.  `FairProcessSpec` has weak fairness of the
loop, of each task, of the answer to a dashboard request and of the shutdown: there a
step is one await, whose promise settles by a timeout or because the operating
system closes what it is asked to close, and no other actor disables it for good.
No signal, operator or dashboard request is assumed to come.  `FairRunSpec` has weak fairness of
each job's run for the same reason: every request has a timeout and every sleep a
timer; that a code ever reaches the table is not assumed.

## 4. Proofs

`ProxyAllocationProofs` proves, for any sets of proxies, endpoints, jobs and rows and
any `MaxConcurrent` > 0:

| Theorem | Statement |
|---|---|
| `TypeCorrect` | `Spec => []TypeOK` |
| `OneAddressPerJob` | `Spec => []OneIpPerJob` |
| `OneOwnerPerAddress` | `Spec => []OneHolderPerProxy` |
| `RowsAgree` | `Spec => []StatusAgreement` |
| `OwnedEndpointsAreFixed` | `Spec => []EndpointAgreement` |
| `OfferedProxiesAreUsable` | `Spec => []AvailableIsUsable` |
| `Refinement` | `Spec => ExclusiveOwnership` |
| `AddressIsHeld` | `RuntimeSpec => HeldUntilTerminal` |
| `CapacityIsRespected` | `RuntimeSpec => []SlotsWithinCapacity` |

The assumptions are those of `ProxyAllocation`: `NoRow` is not a row, a job or a
reservation id; jobs and reservation ids are distinct; `MaxConcurrent` is a positive
natural number.

*Argument.*  The exclusive-ownership parts are not inductive one by one.  That a new
reservation takes a proxy nobody owns follows from `Selectable` (status `AVAILABLE`)
only because every owner keeps its proxy's status in an owned state
(`StatusAgreement`); that a release frees only its own proxy needs
`OneHolderPerProxy`; and `StatusAgreement` survives a move of an allocation only when
no second owner has the proxy.  The inductive invariant `Inv` is therefore their
conjunction with `TypeOK`.  Each operation is first reduced to its effect on
the set of live rows (`AcquireEffect`, `ReserveEffect`, `BindEffect`), and the conjuncts
are shown per effect.  The refinement maps a proxy to the holder named by its
only live row (`HolderFacts`), so each effect is a `Take`, a `HandOver`, a `GiveBack` or
a stutter.  Capacity is a counting argument: `ReserveOne` adds one slot below the
limit, `BindToJob` moves one from reservations to allocations.

`IntakeCycleProofs` extends them to the loop over the tables, for any finite set of
proxies, any jobs, any number of iterations per cycle, row ids and crashes:

| Theorem | Statement |
|---|---|
| `IntakeInvariant` | `IntakeSpec => []IntakeInv` |
| `IntakeTyped` | `IntakeSpec => []IntakeTypeOK` |
| `FetchesWithIp` | `IntakeSpec => []ConsumesOnlyWithIp` |
| `BatchesAreReady` | `IntakeSpec => []BatchIsReady` |
| `JobsHandedOffOnce` | `IntakeSpec => []HandedOffOnce` |
| `OrphansBounded` | `IntakeSpec => []OneOrphanPerProcess` |
| `StoppedStartsNothing` | `IntakeSpec => NothingStartedAfterStop` |
| `IntakeIsRuntime` | `IntakeSpec => RuntimeSpec` |
| `IntakeOwnsExclusively` | `IntakeSpec => ExclusiveOwnership` |
| `IntakeHoldsAddresses` | `IntakeSpec => HeldUntilTerminal` |

The assumptions are those of `ProxyAllocation` and `IntakeAssumption`, which also says that
there are finitely many proxies: `Size` counts the ones on offer.

*Argument.*  `IntakeInv` is the tables' `Inv`, their capacity bound and `CycleInv`.  Every step
of the loop and of the executions is a step of `RuntimeNext` or leaves the tables alone, so
the tables' part comes from the lemmas above and is not proved again; `IntakeIsRuntime`
says the same of whole behaviours, and carries the refinement of `ExclusiveIp` and
`HeldUntilTerminal` over.  `CycleInv` ties the locals of `runCycle` to the tables.
`ReservationAt`: from `Reserve` to the binding the cycle's reservation is pending; a fetch
is covered because of it.  `ApplicationAt`: the job of the application in hand is in the one
state, and with the live row, that the next call of `runCycle` expects.
`NewJobsNotHandedOff`: a job the cycle has not queued yet (no row, `PENDING` or `CLAIMED`)
was never given to the handler.  `BatchIsReady` and `HandedOffOnce` need both parts: that a
job enters a batch once follows from the state in which an iteration found it.
`OneOrphanPerProcess` counts: a pending reservation that is not the `current` one appears only
with a crash, which adds one to `crashes`, or with a refused release, which sets `refused`;
and `RefusalEnds` (a refusal ends the loop of its process) is why a process that was
refused has no second reservation to lose.

`ExecutionProofs` proves, for any set of jobs, any workflow, any `MaxRetries`, any set
of contracts and any number of restarts and resumes:

| Theorem | Statement |
|---|---|
| `TypeCorrect` | `Spec => []TypeOK` |
| `BudgetKept` | `Spec => []RetryBudget` |
| `AddressHeld` | `Spec => []IpHeldUntilTerminal` |
| `AttemptsOnActiveIp` | `Spec => []RunsOnActiveIp` |
| `TerminalAfterAck` | `Spec => []TerminalOnlyAfterAck` |
| `CapturedWorkIsOver` | `Spec => []NoWorkAfterResult` |
| `DeliveredTerminalizes` | `Spec => []DeliveredCanTerminalize` |
| `ResultsFinal` | `Spec => ResultIsFinal` |
| `ChallengeWaitsForOperator` | `Spec => NoAutoResume` |

The only assumption is `ExecutionAssumption` on the constants.  `ResultIsFinal` is not a
property of a run: `ResultLifecycle` (below) says more of everything but the certainty
column.

*Argument.*  None of these can be shown from itself: that `Terminalize` is allowed
depends on the state the job was in when its outcome was captured, perhaps two
processes ago.  The inductive invariant `Inv` says for each job which state
(`StateAtPc`, `StateAtFailure`), allocation (`Address`), step (`Position`), retry count
(`Budget`) and result (`ResultAtPc`, `ResultOfJob`) it may have at each place of its task.
The least obvious parts:

* a job that waits at a challenge *and still has its JobContext* has no result yet and
  an active address; the only way to a result from there is a resume whose
  context is gone, so such a result is a `FAILURE`, which is the one outcome the
  state machine accepts there;
* a task at `begun` or `sending` owns an `IN_FLIGHT` row, so what it records afterwards
  never overwrites a delivered one;
* a task at `recovery kept` still has budget: the check and the count are two
  transactions of `recoverInterruptedExecution`;
* jobs are handed off only in phase `UP`, so recovery never meets a job the handler
  has yet to start.

An action of one job is shown to keep that job's part (`<Action>KeepsInv`); the parts
of the others follow from `OthersKeepInv`, because it leaves their variables alone
(`Frame`).  `ProcessRestart` keeps `Inv` because at `idle`, without a
JobContext, only the parts about durable columns say anything.

`ExecutionHistoryProofs` adds what relates a job to its own past:

| Theorem | Statement |
|---|---|
| `StepsAnsweredOnce` | `Spec => []CompletedStepsNotReplayed` |
| `NobodyAbandoned` | `Spec => []NoAbandonedJob` |
| `NothingReplayedBlindly` | `Spec => []NoBlindReplay`, if `"IDEMPOTENT" \notin Contracts` or `Contracts = {"IDEMPOTENT"}` |
| `AppliedAtMostOnce` | `Spec => [](\A j \in Jobs : applied[j] <= 1)`, if `"IDEMPOTENT" \notin Contracts` |
| `StoppedStartsNoStep` | `Spec => NoStepAfterStop` |

The hypothesis on `Contracts` is one on the deployment: boots may turn a contract without
verified replay on and off, but not exchange it for one with verified replay or back.
Without it `NoBlindReplay` is false (section 5, on `beginDelivery`).

*Argument.*  `HistoryInv`, on top of `Inv`, has four parts per job.  `Progress`: the answered
steps are those the JobContext holds; and a job that has an attempt ahead of it
*without* a JobContext has no answers at all.  The second half is what makes a
restart harmless: it forgets every JobContext, and what it leaves (`idle`, nobody handed
off) starts no attempt.  `ChallengeParked` and `LeftInCharge`: an execution ends quietly
only in `handleFailure`'s rethrow of a challenge, whose job was parked at the step before;
every other end needs a stop, or comes after a capture.  `SentOnce`: at most one request is
on its way or applied, and none while the row says `PENDING` or there is no row, since
`recordFailure` leaves `PENDING` only when the request proved ineffective, and recovery
takes every row in flight for uncertain, which without verified replay is never
requeued.  What a task leaves alone of other jobs is shown once (`TaskLocal`).

`FinalResultProofs` proves the refinement, under no hypothesis on the contracts:

| Theorem | Statement |
|---|---|
| `ResultsPassInOrder` | `Spec => ResultLifecycle` |

*Argument.*  The invariant is `Inv` with `Unsent` (no request without a row).  Five steps are a
stage (`CaptureRefines`, `PortalAppliesRefines` for the first request that takes effect,
`IsAcknowledgedRefines`, `TerminalizeRefines`, `ReleaseRefines`), all others keep what
`StageOf` distinguishes (`SameMarks`).  That a stage is entered from the one
before it is where `Inv` is needed: the row at `sending` is `IN_FLIGHT`, so its job is not
terminal and its address not released.

`WorkerProcessProofs` proves, for any sets of jobs and proxies (no assumption at all):

| Theorem | Statement |
|---|---|
| `Typed` | `ProcessSpec => []ProcessTypeOK` |
| `IntakeBehindGates` | `ProcessSpec => []IntakeOnlyWhenReady` |
| `DatabaseLast` | `ProcessSpec => []DatabaseOutlivesWork` |
| `RequestsUsable` | `ProcessSpec => []RequestsOnOpenSession` |
| `ShutdownCloses` | `ProcessSpec => []NothingLeftOpen` |

*Argument.*  Two facts carry it.  Until `boot` is `up` nothing but `main()` runs (`Quiet`), so
the `finally` block closes the database of a process without tasks.  And what a stage of
the shutdown has waited for stays over: the sets `TasksOver` to `DashboardOver` are the
stages behind each wait, and `Stopping`, `Listening`, `Transports` say what holds in them.
That tasks stay over needs `stopped` (a parked job cannot be resumed) and, for a cycle
that returns late, that the handler then skips its jobs.  `IntakeOnlyWhenReady` is not
inductive because the gates are passed one by one: `Gates` carries each gate to the
places behind it, and says of the probes under way that a proxy that is healthy and no
longer to be probed has answered, unless a probe threw.  `ProcessInv` is the conjunction.

`WorkflowRunProofs` proves, for any workflow definition, jobs, documents, contents,
codes and numbers of executions:

| Theorem | Statement |
|---|---|
| `Typed` | `RunSpec => []RunTypeOK` |
| `CodesAreOwn` | `RunSpec => []OwnFreshCode` |
| `WorkIsNotRepeated` | `RunSpec => []NothingRepeated` |
| `ResumesAreAccepted` | `RunSpec => []ResumeAccepted` |

The assumptions are `WorkflowAssumption` and `NullAssumption` (`Null` is no row and no
baseline).

*Argument.*  The invariant has three parts per job.  `PositionedAt`: the responses are
those of a prefix, and an execution inside a step is at the first one outside of it.
That is what `findResumeIndex` asks for, and it makes a step under way one without a
response; `FirstOutsidePrefix`, a fact about the cardinality of an interval, connects
it with the model's search.  `WatchedAt`: a watch is exactly the job's part of what the table
showed when it was taken, so a row outside of it is new; and a wait has a watch,
because `StartStep` refuses one without.  `MarkedAt`: an acknowledged upload of the
incomplete step is marked, while the uploads of earlier steps are protected by their
step's response.  `MarkedAt` needs the two cases because `setDocuments` may drop every marker.  `EndKeeps`,
`DoneKeeps` and `StayKeeps` say once what a failure, a completed step and a poll do to
the three parts; the lemma of each action picks the answer and cites one of them.

*Only model-checked:* the liveness properties `TasksEnd`, `BootEnds`, `ShutdownEnds` and
`ExecutionEnds`, which are out of the prover's reach, as are `ENABLED` and induction over
recursive data.  Every invariant and every action property of a passing run is a theorem;
`NoBlindReplay` is one under the hypothesis above, which the instance of its run satisfies.

## 5. Findings

Each is a statement of the repository that a run refutes.

1. **An abort becomes a FAILURE** (`shutdown_as_failure`).  `JobCancelledError` is not among
   the codes `classifyRetry` knows as a shutdown, so an abort noticed between two steps
   (`workflow/engine.js:491`) or in an OTP wait is captured as a FAILURE result, though
   `finalizing-execution-runner.js:222-232` ("None are guessed into FAILED_FINAL") and
   `execution-worker.js:329` say it is not.  The same list names "missing memory-only
   manual-resume context", and the code disagrees there too: a resume whose JobContext
   died with an earlier process throws a plain `Error` (`execution-worker.js:698`), which
   `classifyRetry` takes for `NON_RETRYABLE`, so the job ends in a FAILURE.  The run
   shows the shutdown; the resume is in the model (`ResumeManualChallenge` with
   `NoContext`), and `NoAutoResume` makes no claim that it avoids `FAILED_FINAL`.
2. **An upload cut off by a crash is scheduled for retry** (`interrupted_upload`): recovery
   reads `jobs.current_step`, which only a manual challenge writes, though README.md:537
   says such crash points are not blindly replayed.
3. **An orphaned reservation stays reserved** (`intake_orphan`), whether a crash during the
   cycle or a refused release in the catch block leaves it: nothing releases it at boot,
   though `portal-intake-service.js:386-391` says durable recovery will.  In the trace the
   next boot passes the proxy gate with a second, free proxy, and a cycle begins beside the
   orphan.  (With no other proxy the gate refuses the boot, and the orphan stays as well.)
4. **Intake goes on after the signal** (`intake_after_stop`): `stopIntake` waits for the
   handler before it stops the loop (`index.js:1562`), and meanwhile the loop's delay can
   run out and begin another cycle with its destructive fetch, though
   `graceful-shutdown.js:384` gives "stop new intake/admission" as the first step.  While the
   loop is in its delay the only task to wait for is a manual resume, so this takes a
   program that embeds `main()` and uses the operations it returns (`index.js:1926`).
   The handler starts no job of such a cycle (`NothingStartedAfterStop`).
5. **A challenge page can be retried** (`challenge_as_retry`): a 429 or 5xx is thrown as
   retryable before anybody looks at the body (`session/job-http-client.js:229`), though
   README.md:469 says "no manual-challenge auto retry".

Observed while modelling, and part of the model, without a run of their own:

* A challenge met after the signal was aborted leaves the job RUNNING
  (`execution-worker.js:336`), so recovery schedules a retry.
* `beginDelivery` clears the certainty of the attempt before (`final-result-store.js:218`), so
  after a change of the Portal contract an uncertain result may be sent again.
  `NoBlindReplay` is therefore checked under one fixed contract: it says nothing about
  a change of contract, and that hazard has no property.
* The proxy gate counts free proxies: a boot is refused although proxies answered, when
  jobs of earlier processes hold them (`index.js:706`; README.md:810-812).
* `stopIntake` has no deadline (`graceful-shutdown.js:379`), while README.md:577 speaks of a
  bounded one; `ShutdownEnds` rests on the timeouts of what it waits for.
* A connection that fails while a body is read gives an error that does not call
  itself retryable, unlike one that fails before the head.
* The OTP page's client takes a challenge page with a 4xx other than 403 or 429 for a
  fatal error.

## 6. Not modelled

* Cookies: parsing and matching of strings, with no state that several actors share.
* The bytes: HTML tables, PDFs, multipart bodies, URLs, templates and headers.  A page is a
  table or is not, a document is valid or is not, a step renders or does not.
* The checks of `WorkflowEngine.execute` before its first step (a malformed or disabled
  workflow, more steps than allowed): a matter of configuration, not of order.
* Optimistic versions and claims of the job store: in the modelled runtime one
  task works on a job at a time.
* The bounded wait of the shutdown (`trackInFlight`): nobody registers work with it.
* `nextRetryAt`: recovery records it and nothing reads it; after a restart
  `RETRY_PENDING` and `WAITING_FOR_IP` jobs are kept with their addresses and
  no component executes them, so there is no behaviour to model.
* `job_recovery`, `job_events`, counters, timestamps: written, never read by a decision.
* Formats and ranges of configuration fields: a field that a gate reads is a Boolean, any
  other makes `LoadConfiguration` fail or not.
* Projections of the dashboard, logging and redaction: read-only.
* Migrations: static; the unique indexes they create follow from the invariants of
  `ProxyAllocation`.

## 7. Plan

1. **Refinement**: `WorkflowRun` implements the steps of `ExecutionAttempt`, under a mapping
   that forgets the JobContext's contents.
2. **Refinement**: the tasks of `WorkerProcess` abstract the `pc` of `ExecutionRuntime`, so that
   what is proved of the shutdown holds of executions with retries.
3. **JobVersions** (`job-store.js`): `expectedVersion` and claims, should a second writer of
   jobs appear in the code.
