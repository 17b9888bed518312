---------------------------- MODULE WorkerProcess ----------------------------
(***************************************************************************)
(* The worker process from its boot to its end: the intake loop, the tasks *)
(* of the execution handler with their sessions, the dashboard, and the    *)
(* stages of runtime/graceful-shutdown.js as index.js wires them.          *)
(*                                                                         *)
(* A task appears by what it waits for; what it decides meanwhile is in    *)
(* ExecutionRuntime.  Nothing registers work with trackInFlight, so the    *)
(* bounded wait of performShutdown has nothing to wait for.                *)
(***************************************************************************)
EXTENDS WorkerBoot

VARIABLES
  task,       \* what the execution of a job waits for
  batch,      \* jobs whose tasks handleCycleResult awaits
  stopped,    \* IntakeExecutionHandler.stop was called: every signal is aborted
  loopStop,   \* IntakeLoop.stop was called
  shutdown,   \* the stage performShutdown is in
  errors,     \* stages that failed
  asking      \* a dashboard request is being answered

runVars == << task, batch, stopped, loopStop, shutdown, errors, asking >>
processVars == << poolVars, bootVars, runVars >>

TaskStates ==
  { "none", "starting", "requesting", "polling", "backoff", "delivering", "parked",
    "ended", "skipped" }

Stages ==
  { "none", "handler", "loop", "sessions", "dispatchers", "dashboard", "database", "done" }

\* activeTasks of the handler: fresh executions and manual resumes.
Active ==
  { j \in Jobs :
      task[j] \in { "starting", "requesting", "polling", "backoff", "delivering" } }

ProcessTypeOK ==
  /\ BootTypeOK
  /\ task \in [Jobs -> TaskStates]
  /\ batch \subseteq Jobs
  /\ stopped \in BOOLEAN /\ loopStop \in BOOLEAN
  /\ shutdown \in Stages
  /\ errors \subseteq { "CLOSE_SESSIONS", "CLOSE_DATABASE" }
  /\ asking \in BOOLEAN

ProcessInit ==
  /\ BootInit
  /\ task = [j \in Jobs |-> "none"]
  /\ batch = {}
  /\ stopped = FALSE /\ loopStop = FALSE
  /\ shutdown = "none" /\ errors = {}
  /\ asking = FALSE

Boot == BootNext /\ UNCHANGED << runVars >>

------------------------------------------------------------------------------
(* The intake loop.                                                        *)

\* runCycle returns the jobs it made; the handler starts all of them, or none
\* when it was stopped meanwhile.
CycleReturns(jobs) ==
  /\ loop = "cycle"
  /\ \A j \in jobs : task[j] = "none"
  /\ task' = [j \in Jobs |-> IF j \notin jobs THEN task[j]
                             ELSE IF stopped THEN "skipped" ELSE "starting"]
  /\ batch' = IF stopped THEN {} ELSE jobs
  /\ loop' = "handling"
  /\ UNCHANGED << poolVars, config, boot, database, owned, healthy, unprobed, answered,
                  probeErrors, signals, dashboard, stopped, loopStop, shutdown, errors,
                  asking >>

LoopGoesTo(place) ==
  /\ loop' = place
  /\ UNCHANGED << poolVars, config, boot, database, owned, healthy, unprobed, answered,
                  probeErrors, signals, dashboard, runVars >>

CycleThrows == loop = "cycle" /\ LoopGoesTo("ended")

HandlingDone ==
  /\ loop = "handling" /\ batch = {}
  /\ LoopGoesTo(IF loopStop THEN "ended" ELSE "delay")

\* The delay elapses, or stop() wakes it.  A handler.stop() that has nothing to
\* wait for goes on to loop.stop() before any timer can fire.
DelayOver ==
  /\ loop = "delay"
  /\ shutdown = "handler" => Active # {}
  /\ LoopGoesTo(IF loopStop THEN "ended" ELSE "cycle")

LoopStep ==
  \/ \E jobs \in SUBSET Jobs : CycleReturns(jobs)
  \/ CycleThrows \/ HandlingDone \/ DelayOver

------------------------------------------------------------------------------
(* The tasks.                                                              *)

TaskGoesTo(j, places) ==
  /\ \E place \in places :
       /\ task' = [task EXCEPT ![j] = place]
       /\ batch' = IF place \in { "parked", "ended" } THEN batch \ {j} ELSE batch
  /\ UNCHANGED << bootVars, stopped, loopStop, shutdown, errors, asking >>

\* run() sets the session up whatever the signal says; the engine looks at it
\* before its first step.
StartTask(j) ==
  /\ task[j] = "starting"
  /\ CreateForJob(j)
  /\ TaskGoesTo(j, IF stopped THEN { "delivering" } ELSE { "requesting" })

\* The proxy was disabled, or its endpoint moved.
SessionRefused(j) ==
  /\ task[j] = "starting"
  /\ TaskGoesTo(j, { "delivering", IF stopped THEN "ended" ELSE "backoff" })
  /\ UNCHANGED poolVars

\* A request over the session is answered or times out.  It is never cut off:
\* the abort is noticed afterwards.
Answer(j) ==
  /\ task[j] = "requesting"
  /\ TaskGoesTo(j, IF stopped THEN { "delivering", "ended" }
                   ELSE { "requesting", "polling", "backoff", "delivering", "parked" })
  /\ UNCHANGED poolVars

\* The interval between two OTP polls is over, or cut short by the abort, which
\* the finalizing runner takes for a failure.
PollAgain(j) ==
  /\ task[j] = "polling"
  /\ TaskGoesTo(j, IF stopped THEN { "delivering" } ELSE { "requesting" })
  /\ UNCHANGED poolVars

\* The retry delay is over, or cut short by the abort, which ends the task.
Retry(j) ==
  /\ task[j] = "backoff"
  /\ TaskGoesTo(j, IF stopped THEN { "ended" } ELSE { "starting" })
  /\ UNCHANGED poolVars

\* The result is delivered, or could not be.
Delivered(j) ==
  /\ task[j] = "delivering"
  /\ TaskGoesTo(j, { "ended" })
  /\ UNCHANGED poolVars

\* The operator resumes a parked job, in its session.
Resume(j) ==
  /\ task[j] = "parked" /\ ~stopped
  /\ TaskGoesTo(j, { "requesting" })
  /\ UNCHANGED poolVars

TaskStep(j) ==
  StartTask(j) \/ SessionRefused(j) \/ Answer(j) \/ PollAgain(j) \/ Retry(j) \/ Delivered(j)

------------------------------------------------------------------------------
(* The dashboard.                                                          *)

Ask ==
  /\ dashboard = "listening" /\ ~asking
  /\ asking' = TRUE
  /\ UNCHANGED << poolVars, bootVars, task, batch, stopped, loopStop, shutdown, errors >>

\* The answer is written, or the client hangs up.
AnswerAsked ==
  /\ asking
  /\ asking' = FALSE
  /\ UNCHANGED << poolVars, bootVars, task, batch, stopped, loopStop, shutdown, errors >>

------------------------------------------------------------------------------
(* performShutdown.                                                        *)

Enter(stage) == shutdown' = stage

\* The first SIGINT or SIGTERM; later ones find the same promise.  stopIntake
\* begins with handler.stop(), which aborts every active controller.
Signal ==
  /\ signals /\ shutdown = "none"
  /\ Enter("handler") /\ stopped' = TRUE
  /\ UNCHANGED << poolVars, bootVars, task, batch, loopStop, errors, asking >>

\* Mutant: handler.stop() aborts the tasks without awaiting them.
HandlerStopped_NotAwaited ==
  /\ shutdown = "handler"
  /\ Enter("loop") /\ loopStop' = TRUE
  /\ UNCHANGED << poolVars, bootVars, task, batch, stopped, errors, asking >>

\* handler.stop() has awaited the active tasks; loop.stop() follows.
HandlerStopped ==
  /\ shutdown = "handler" /\ Active = {}
  /\ Enter("loop") /\ loopStop' = TRUE
  /\ UNCHANGED << poolVars, bootVars, task, batch, stopped, errors, asking >>

\* loop.stop() has awaited the loop.
LoopStopped ==
  /\ shutdown = "loop" /\ loop \in { "off", "ended" }
  /\ Enter("sessions")
  /\ UNCHANGED << poolVars, bootVars, task, batch, stopped, loopStop, errors, asking >>

\* SessionManager.closeAll.
CloseNextSession ==
  /\ shutdown = "sessions" /\ Closing = {} /\ "CLOSE_SESSIONS" \notin errors
  /\ \E j \in OpenSessions : BeginCloseForJob(j)
  /\ UNCHANGED << bootVars, runVars >>

\* A close() that rejects ends closeAll: the sessions after it stay as they are.
SessionCloseEnds(j) ==
  /\ \/ EndCloseForJob(j, "closed") /\ UNCHANGED errors
     \/ EndCloseForJob(j, "broken") /\ errors' = errors \union { "CLOSE_SESSIONS" }
  /\ UNCHANGED << bootVars, task, batch, stopped, loopStop, shutdown, asking >>

\* Mutant: a failing stage rejects the shutdown promise.
SessionsClosed_Rejects ==
  /\ shutdown = "sessions" /\ Closing = {} /\ OpenSessions = {} /\ errors = {}
  /\ Enter("dispatchers")
  /\ UNCHANGED << poolVars, bootVars, task, batch, stopped, loopStop, errors, asking >>

SessionsClosed ==
  /\ shutdown = "sessions" /\ Closing = {}
  /\ OpenSessions = {} \/ "CLOSE_SESSIONS" \in errors
  /\ Enter("dispatchers")
  /\ UNCHANGED << poolVars, bootVars, task, batch, stopped, loopStop, errors, asking >>

\* dashboardServer.stop() no longer accepts connections.
BeginStopDashboard ==
  /\ dashboard' = IF dashboard = "listening" THEN "closing" ELSE dashboard
  /\ UNCHANGED << config, boot, database, owned, healthy, unprobed, answered,
                  probeErrors, signals, loop >>

\* Mutant: a stage runs only when the stages before it succeeded.
CloseDispatchers_AfterSuccess ==
  /\ shutdown = "dispatchers"
  /\ IF errors = {} THEN CloseAllDispatchers ELSE UNCHANGED poolVars
  /\ Enter("dashboard") /\ BeginStopDashboard
  /\ UNCHANGED << task, batch, stopped, loopStop, errors, asking >>

CloseDispatchers ==
  /\ shutdown = "dispatchers"
  /\ CloseAllDispatchers
  /\ Enter("dashboard") /\ BeginStopDashboard
  /\ UNCHANGED << task, batch, stopped, loopStop, errors, asking >>

\* Mutant: server.close() without its callback.
DashboardStopped_NotAwaited ==
  /\ shutdown = "dashboard"
  /\ dashboard' = "off"
  /\ Enter("database")
  /\ UNCHANGED << poolVars, config, boot, database, owned, healthy, unprobed, answered,
                  probeErrors, signals, loop, task, batch, stopped, loopStop, errors,
                  asking >>

\* server.close() waits for the requests it has.
DashboardStopped ==
  /\ shutdown = "dashboard" /\ ~asking
  /\ dashboard' = "off"
  /\ Enter("database")
  /\ UNCHANGED << poolVars, config, boot, database, owned, healthy, unprobed, answered,
                  probeErrors, signals, loop, task, batch, stopped, loopStop, errors,
                  asking >>

CloseDatabase ==
  /\ shutdown = "database"
  /\ \/ database' = "closed" /\ UNCHANGED errors
     \/ errors' = errors \union { "CLOSE_DATABASE" } /\ UNCHANGED database
  /\ Enter("done")
  /\ UNCHANGED << poolVars, config, boot, owned, healthy, unprobed, answered, probeErrors,
                  signals, dashboard, loop, task, batch, stopped, loopStop, asking >>

ShutdownStep ==
  \/ HandlerStopped \/ LoopStopped
  \/ CloseNextSession \/ (\E j \in Jobs : SessionCloseEnds(j)) \/ SessionsClosed
  \/ CloseDispatchers \/ DashboardStopped \/ CloseDatabase

------------------------------------------------------------------------------
ProcessNext ==
  \/ Boot
  \/ LoopStep
  \/ \E j \in Jobs : TaskStep(j) \/ Resume(j)
  \/ Ask \/ AnswerAsked
  \/ Signal \/ ShutdownStep

ProcessSpec == ProcessInit /\ [][ProcessNext]_processVars

\* Promises settle: requests and cycles have timeouts, dashboard requests too,
\* and the operating system closes what it is asked to close.
FairProcessSpec ==
  /\ ProcessSpec
  /\ WF_processVars(LoopStep) /\ WF_processVars(AnswerAsked)
  /\ WF_processVars(ShutdownStep)
  /\ \A j \in Jobs : WF_processVars(TaskStep(j))

------------------------------------------------------------------------------
(* Properties.                                                             *)

\* The intake loop starts only in a controlled profile with the workflow and
\* the result contract complete, and with a free proxy that answered the probe
\* of this very boot: health kept from an earlier one does not count.
IntakeOnlyWhenReady ==
  loop # "off" =>
    /\ config.profile = "controlled" /\ config.workflow
    /\ WorkflowContractReady /\ ResultContract
    /\ (answered \intersect healthy) \ owned # {}

\* Whatever closes the database, main()'s finally block or the last stage of the
\* shutdown, no execution, no intake cycle and no dashboard request is under way.
DatabaseOutlivesWork ==
  database = "closed" =>
    Active = {} /\ loop \in { "off", "ended" } /\ ~asking

\* A job's requests find its session and dispatcher open through retries, pauses,
\* resumes and the shutdown.
RequestsOnOpenSession == \A j \in Jobs : task[j] = "requesting" => Usable(j)

\* A finished shutdown leaves no transport open, whichever stage failed; a
\* session or the database only when its own stage reported that.
NothingLeftOpen ==
  shutdown = "done" =>
    /\ \A j \in Jobs : transport[j] \notin { "open", "closing" }
    /\ \A p \in Proxies : probe[p] # "open"
    /\ OpenSessions # {} => "CLOSE_SESSIONS" \in errors
    /\ database # "closed" => "CLOSE_DATABASE" \in errors

\* A shutdown ends wherever the loop, the tasks and the dashboard are when the
\* signal arrives.
ShutdownEnds == shutdown # "none" ~> shutdown = "done"

\* graceful-shutdown.js:384, "1. stop new intake/admission": after the signal the
\* loop begins no further cycle.
NoIntakeAfterShutdown ==
  [][ shutdown # "none" => ~ (loop = "delay" /\ loop' = "cycle") ]_processVars
=============================================================================
