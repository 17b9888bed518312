------------------------- MODULE WorkerProcessProofs -------------------------
(***************************************************************************)
(* The safety properties of WorkerProcess for any number of jobs and       *)
(* proxies.                                                                *)
(***************************************************************************)
EXTENDS WorkerProcess, TLAPS

\* Stages of the shutdown, by what is already over when they begin.
TasksOver == { "loop", "sessions", "dispatchers", "dashboard", "database", "done" }
LoopOver == TasksOver \ { "loop" }
SessionsOver == LoopOver \ { "sessions" }
DispatchersOver == SessionsOver \ { "dispatchers" }
DashboardOver == DispatchersOver \ { "dashboard" }

\* Until main() decides to stay alive there is no loop, task, session
\* or shutdown.
Quiet ==
  boot # "up" =>
    /\ loop = "off" /\ ~signals
    /\ shutdown = "none" /\ ~stopped
    /\ \A j \in Jobs : task[j] = "none" /\ session[j] = "none"

\* The dashboard listens only when main() stays alive for it.
Listening ==
  /\ dashboard # "off" => boot \in { "arm", "up" } /\ config.dashboard
  /\ asking => dashboard # "off"
  /\ shutdown \in DispatchersOver => dashboard # "listening"
  /\ shutdown \in DashboardOver => dashboard = "off"

\* What each stage of the shutdown has waited for stays over.
Stopping ==
  /\ shutdown # "none" => stopped
  /\ shutdown \in TasksOver => Active = {}
  /\ shutdown \in LoopOver => loop \in { "off", "ended" }

\* Who closes the database: main() before it stays alive, or the last stage.
Closed ==
  /\ database = "closed" => boot \in { "over", "failed" } \/ shutdown = "done"
  /\ shutdown = "done" => database = "closed" \/ "CLOSE_DATABASE" \in errors

\* A session has its dispatcher until the shutdown gets to the dispatchers.
Transports ==
  /\ \A j \in Jobs :
       /\ session[j] = "open" /\ shutdown \notin DispatchersOver => transport[j] = "open"
       /\ task[j] \in { "requesting", "polling" } => Usable(j)
       /\ task[j] = "parked" /\ ~stopped => Usable(j)
  /\ shutdown \in SessionsOver =>
       (\A j \in Jobs : session[j] # "open") \/ "CLOSE_SESSIONS" \in errors
  /\ shutdown \in SessionsOver => \A j \in Jobs : transport[j] # "closing"
  /\ shutdown \in DispatchersOver =>
       /\ \A j \in Jobs : transport[j] # "open"
       /\ \A p \in Proxies : probe[p] # "open"

\* What main() has established about the configuration and the proxies.
Gates ==
  /\ boot \in { "proxies", "recovery", "dashboard", "arm", "up" } /\ config.intake =>
       /\ config.profile = "controlled" /\ config.workflow
       /\ WorkflowContractReady /\ ResultContract
  /\ boot = "proxies" /\ config.intake /\ config.probes /\ ~probeErrors =>
       healthy \ unprobed \subseteq answered
  /\ boot \in { "recovery", "dashboard", "arm", "up" } /\ config.intake =>
       (answered \intersect healthy) \ owned # {}
  /\ loop # "off" => config.intake

ProcessInv ==
  ProcessTypeOK /\ Quiet /\ Listening /\ Stopping /\ Closed /\ Transports /\ Gates

------------------------------------------------------------------------------
(* Every step keeps the invariant: one lemma per action.                   *)

LEMMA LoadConfigurationKeepsInv ==
  ASSUME ProcessInv, LoadConfiguration, UNCHANGED runVars
  PROVE  ProcessInv'
<1> USE DEF ProcessInv
<1>1. ProcessTypeOK'
  BY DEF LoadConfiguration, BootGoesTo, poolVars, runVars, ProcessTypeOK, BootTypeOK,
         PoolTypeOK, BootSteps, Stages, TaskStates, SessionStates, TransportStates
<1>2. Quiet'
  BY DEF LoadConfiguration, BootGoesTo, poolVars, runVars, Quiet, Stopping, TasksOver,
         ProcessTypeOK, BootTypeOK
<1>3. Listening'
  BY DEF LoadConfiguration, BootGoesTo, poolVars, runVars, Listening, Quiet, Stopping,
         DispatchersOver, DashboardOver, SessionsOver, LoopOver, TasksOver
<1>4. Stopping'
  BY DEF LoadConfiguration, BootGoesTo, poolVars, runVars, Stopping, Active, Quiet,
         LoopOver, TasksOver, ProcessTypeOK
<1>5. Closed'
  BY DEF LoadConfiguration, BootGoesTo, poolVars, runVars, Closed, Quiet, Listening
<1>6. Transports'
  BY DEF LoadConfiguration, BootGoesTo, poolVars, runVars, Transports, Usable, Quiet,
         Stopping, Active, DispatchersOver, SessionsOver, LoopOver, TasksOver,
         ProcessTypeOK, BootTypeOK, PoolTypeOK
<1>7. Gates'
  BY DEF LoadConfiguration, BootGoesTo, poolVars, runVars, Gates, Quiet,
         ProcessTypeOK, BootTypeOK, WorkflowContractReady, ResultContract
<1> QED BY <1>1, <1>2, <1>3, <1>4, <1>5, <1>6, <1>7

LEMMA LoadWorkflowKeepsInv ==
  ASSUME ProcessInv, LoadWorkflow, UNCHANGED runVars
  PROVE  ProcessInv'
<1> USE DEF ProcessInv
<1>1. ProcessTypeOK'
  BY DEF LoadWorkflow, BootGoesTo, poolVars, runVars, ProcessTypeOK, BootTypeOK,
         PoolTypeOK, BootSteps, Stages, TaskStates, SessionStates, TransportStates
<1>2. Quiet'
  BY DEF LoadWorkflow, BootGoesTo, poolVars, runVars, Quiet, Stopping, TasksOver,
         ProcessTypeOK, BootTypeOK
<1>3. Listening'
  BY DEF LoadWorkflow, BootGoesTo, poolVars, runVars, Listening, Quiet, Stopping,
         DispatchersOver, DashboardOver, SessionsOver, LoopOver, TasksOver
<1>4. Stopping'
  BY DEF LoadWorkflow, BootGoesTo, poolVars, runVars, Stopping, Active, Quiet,
         LoopOver, TasksOver, ProcessTypeOK
<1>5. Closed'
  BY DEF LoadWorkflow, BootGoesTo, poolVars, runVars, Closed, Quiet, Listening
<1>6. Transports'
  BY DEF LoadWorkflow, BootGoesTo, poolVars, runVars, Transports, Usable, Quiet,
         Stopping, Active, DispatchersOver, SessionsOver, LoopOver, TasksOver,
         ProcessTypeOK, BootTypeOK, PoolTypeOK
<1>7. Gates'
  BY DEF LoadWorkflow, BootGoesTo, poolVars, runVars, Gates, Quiet, ProcessTypeOK,
         BootTypeOK, WorkflowContractReady, ResultContract
<1> QED BY <1>1, <1>2, <1>3, <1>4, <1>5, <1>6, <1>7

LEMMA OpenDatabaseKeepsInv ==
  ASSUME ProcessInv, OpenDatabase, UNCHANGED runVars
  PROVE  ProcessInv'
<1> USE DEF ProcessInv
<1>1. ProcessTypeOK'
  BY DEF OpenDatabase, poolVars, runVars, ProcessTypeOK, BootTypeOK, PoolTypeOK,
         BootSteps, Stages, TaskStates, SessionStates, TransportStates
<1>2. Quiet'
  BY DEF OpenDatabase, poolVars, runVars, Quiet, Stopping, TasksOver, ProcessTypeOK,
         BootTypeOK
<1>3. Listening'
  BY DEF OpenDatabase, poolVars, runVars, Listening, Quiet, Stopping, DispatchersOver,
         DashboardOver, SessionsOver, LoopOver, TasksOver
<1>4. Stopping'
  BY DEF OpenDatabase, poolVars, runVars, Stopping, Active, Quiet, LoopOver,
         TasksOver, ProcessTypeOK
<1>5. Closed'
  BY DEF OpenDatabase, poolVars, runVars, Closed, Quiet, Listening
<1>6. Transports'
  BY DEF OpenDatabase, poolVars, runVars, Transports, Usable, Quiet, Stopping, Active,
         DispatchersOver, SessionsOver, LoopOver, TasksOver, ProcessTypeOK,
         BootTypeOK, PoolTypeOK
<1>7. Gates'
  BY DEF OpenDatabase, poolVars, runVars, Gates, Quiet, ProcessTypeOK, BootTypeOK,
         WorkflowContractReady, ResultContract
<1> QED BY <1>1, <1>2, <1>3, <1>4, <1>5, <1>6, <1>7

LEMMA EvaluateGatesKeepsInv ==
  ASSUME ProcessInv, EvaluateGates, UNCHANGED runVars
  PROVE  ProcessInv'
<1> USE DEF ProcessInv
<1>1. ProcessTypeOK'
  BY DEF EvaluateGates, Abandon, poolVars, runVars, ProcessTypeOK, BootTypeOK,
         PoolTypeOK, BootSteps, Stages, TaskStates, SessionStates, TransportStates
<1>2. Quiet'
  BY DEF EvaluateGates, Abandon, poolVars, runVars, Quiet, Stopping, TasksOver,
         ProcessTypeOK, BootTypeOK
<1>3. Listening'
  BY DEF EvaluateGates, Abandon, poolVars, runVars, Listening, Quiet, Stopping,
         DispatchersOver, DashboardOver, SessionsOver, LoopOver, TasksOver
<1>4. Stopping'
  BY DEF EvaluateGates, Abandon, poolVars, runVars, Stopping, Active, Quiet, LoopOver,
         TasksOver, ProcessTypeOK
<1>5. Closed'
  BY DEF EvaluateGates, Abandon, poolVars, runVars, Closed, Quiet, Listening
<1>6. Transports'
  BY DEF EvaluateGates, Abandon, poolVars, runVars, Transports, Usable, Quiet,
         Stopping, Active, DispatchersOver, SessionsOver, LoopOver, TasksOver,
         ProcessTypeOK, BootTypeOK, PoolTypeOK
<1>7. Gates'
  BY DEF EvaluateGates, Abandon, poolVars, runVars, Gates, Quiet, ProcessTypeOK,
         BootTypeOK, ActivationReady, RuntimeReady, WorkflowContractReady,
         ResultContract, Configurations
<1> QED BY <1>1, <1>2, <1>3, <1>4, <1>5, <1>6, <1>7

LEMMA ProbeProxyKeepsInv ==
  ASSUME ProcessInv, NEW p \in Proxies, ProbeProxy(p), UNCHANGED runVars
  PROVE  ProcessInv'
<1> USE DEF ProcessInv
<1>1. ProcessTypeOK'
  <2>1. PoolTypeOK'
    BY DEF ProbeProxy, GetForProxy, runVars, ProcessTypeOK, BootTypeOK, PoolTypeOK,
           SessionStates, TransportStates
  <2>2. /\ config' \in Configurations
        /\ boot' \in BootSteps
        /\ database' \in { "none", "open", "closed" }
    BY DEF ProbeProxy, GetForProxy, runVars, ProcessTypeOK, BootTypeOK, BootSteps
  <2>3. /\ owned' \subseteq Proxies
        /\ healthy' \subseteq Proxies
        /\ unprobed' \subseteq Proxies
        /\ answered' \subseteq Proxies
    BY DEF ProbeProxy, GetForProxy, runVars, ProcessTypeOK, BootTypeOK
  <2>4. /\ probeErrors' \in BOOLEAN
        /\ signals' \in BOOLEAN
    BY Zenon DEF ProbeProxy, GetForProxy, runVars, ProcessTypeOK, BootTypeOK
  <2>5. /\ dashboard' \in { "off", "listening", "closing" }
        /\ loop' \in { "off", "cycle", "handling", "delay", "ended" }
    BY DEF ProbeProxy, GetForProxy, runVars, ProcessTypeOK, BootTypeOK
  <2>6. /\ task' \in [Jobs -> TaskStates]
        /\ batch' \subseteq Jobs
        /\ shutdown' \in Stages
    BY DEF ProbeProxy, GetForProxy, runVars, ProcessTypeOK, BootTypeOK, Stages
  <2>7. errors' \subseteq { "CLOSE_SESSIONS", "CLOSE_DATABASE" }
    BY DEF ProbeProxy, GetForProxy, runVars, ProcessTypeOK, BootTypeOK
  <2>8. /\ stopped' \in BOOLEAN
        /\ loopStop' \in BOOLEAN
        /\ asking' \in BOOLEAN
    BY Zenon DEF ProbeProxy, GetForProxy, runVars, ProcessTypeOK, BootTypeOK
  <2> QED BY <2>1, <2>2, <2>3, <2>4, <2>5, <2>6, <2>7, <2>8 DEF ProcessTypeOK, BootTypeOK
<1>2. Quiet'
  BY DEF ProbeProxy, GetForProxy, runVars, Quiet, Stopping, TasksOver, ProcessTypeOK,
         BootTypeOK
<1>3. Listening'
  BY DEF ProbeProxy, GetForProxy, runVars, Listening, Quiet, Stopping,
         DispatchersOver, DashboardOver, SessionsOver, LoopOver, TasksOver
<1>4. Stopping'
  BY DEF ProbeProxy, GetForProxy, runVars, Stopping, Active, Quiet, LoopOver,
         TasksOver, ProcessTypeOK
<1>5. Closed'
  BY DEF ProbeProxy, GetForProxy, runVars, Closed, Quiet, Listening
<1>6. Transports'
  BY DEF ProbeProxy, GetForProxy, runVars, Transports, Usable, Quiet, Stopping,
         Active, DispatchersOver, SessionsOver, LoopOver, TasksOver, ProcessTypeOK,
         BootTypeOK, PoolTypeOK
<1>7. Gates'
  BY DEF ProbeProxy, GetForProxy, runVars, Gates, Quiet, ProcessTypeOK, BootTypeOK,
         WorkflowContractReady, ResultContract
<1> QED BY <1>1, <1>2, <1>3, <1>4, <1>5, <1>6, <1>7

LEMMA JudgeProxiesKeepsInv ==
  ASSUME ProcessInv, JudgeProxies, UNCHANGED runVars
  PROVE  ProcessInv'
<1> USE DEF ProcessInv
<1>1. ProcessTypeOK'
  BY DEF JudgeProxies, Abandon, CloseAllDispatchers, Swept, poolVars, runVars,
         ProcessTypeOK, BootTypeOK, PoolTypeOK, BootSteps, Stages, TaskStates,
         SessionStates, TransportStates
<1>2. Quiet'
  BY DEF JudgeProxies, Abandon, CloseAllDispatchers, Swept, poolVars, runVars, Quiet,
         Stopping, TasksOver, ProcessTypeOK, BootTypeOK
<1>3. Listening'
  BY DEF JudgeProxies, Abandon, CloseAllDispatchers, Swept, poolVars, runVars,
         Listening, Quiet, Stopping, DispatchersOver, DashboardOver, SessionsOver,
         LoopOver, TasksOver
<1>4. Stopping'
  BY DEF JudgeProxies, Abandon, CloseAllDispatchers, Swept, poolVars, runVars,
         Stopping, Active, Quiet, LoopOver, TasksOver, ProcessTypeOK
<1>5. Closed'
  BY DEF JudgeProxies, Abandon, CloseAllDispatchers, Swept, poolVars, runVars, Closed,
         Quiet, Listening
<1>6. Transports'
  BY DEF JudgeProxies, Abandon, CloseAllDispatchers, Swept, poolVars, runVars,
         Transports, Usable, Quiet, Stopping, Active, DispatchersOver, SessionsOver,
         LoopOver, TasksOver, ProcessTypeOK, BootTypeOK, PoolTypeOK
<1>7. Gates'
  BY DEF JudgeProxies, Abandon, CloseAllDispatchers, Swept, poolVars, runVars, Gates,
         Quiet, ProcessTypeOK, BootTypeOK, ProxiesReady, HealthyAvailable,
         WorkflowContractReady, ResultContract
<1> QED BY <1>1, <1>2, <1>3, <1>4, <1>5, <1>6, <1>7

LEMMA RecoverKeepsInv ==
  ASSUME ProcessInv, Recover, UNCHANGED runVars
  PROVE  ProcessInv'
<1> USE DEF ProcessInv
<1>1. ProcessTypeOK'
  BY DEF Recover, Abandon, poolVars, runVars, ProcessTypeOK, BootTypeOK, PoolTypeOK,
         BootSteps, Stages, TaskStates, SessionStates, TransportStates
<1>2. Quiet'
  BY DEF Recover, Abandon, poolVars, runVars, Quiet, Stopping, TasksOver,
         ProcessTypeOK, BootTypeOK
<1>3. Listening'
  BY DEF Recover, Abandon, poolVars, runVars, Listening, Quiet, Stopping,
         DispatchersOver, DashboardOver, SessionsOver, LoopOver, TasksOver
<1>4. Stopping'
  BY DEF Recover, Abandon, poolVars, runVars, Stopping, Active, Quiet, LoopOver,
         TasksOver, ProcessTypeOK
<1>5. Closed'
  BY DEF Recover, Abandon, poolVars, runVars, Closed, Quiet, Listening
<1>6. Transports'
  BY DEF Recover, Abandon, poolVars, runVars, Transports, Usable, Quiet, Stopping,
         Active, DispatchersOver, SessionsOver, LoopOver, TasksOver, ProcessTypeOK,
         BootTypeOK, PoolTypeOK
<1>7. Gates'
  BY DEF Recover, Abandon, poolVars, runVars, Gates, Quiet, ProcessTypeOK, BootTypeOK,
         WorkflowContractReady, ResultContract
<1> QED BY <1>1, <1>2, <1>3, <1>4, <1>5, <1>6, <1>7

LEMMA StartDashboardKeepsInv ==
  ASSUME ProcessInv, StartDashboard, UNCHANGED runVars
  PROVE  ProcessInv'
<1> USE DEF ProcessInv
<1>1. ProcessTypeOK'
  BY DEF StartDashboard, Abandon, poolVars, runVars, ProcessTypeOK, BootTypeOK,
         PoolTypeOK, BootSteps, Stages, TaskStates, SessionStates, TransportStates
<1>2. Quiet'
  BY DEF StartDashboard, Abandon, poolVars, runVars, Quiet, Stopping, TasksOver,
         ProcessTypeOK, BootTypeOK
<1>3. Listening'
  BY DEF StartDashboard, Abandon, poolVars, runVars, Listening, Quiet, Stopping,
         DispatchersOver, DashboardOver, SessionsOver, LoopOver, TasksOver
<1>4. Stopping'
  BY DEF StartDashboard, Abandon, poolVars, runVars, Stopping, Active, Quiet,
         LoopOver, TasksOver, ProcessTypeOK
<1>5. Closed'
  BY DEF StartDashboard, Abandon, poolVars, runVars, Closed, Quiet, Listening
<1>6. Transports'
  BY DEF StartDashboard, Abandon, poolVars, runVars, Transports, Usable, Quiet,
         Stopping, Active, DispatchersOver, SessionsOver, LoopOver, TasksOver,
         ProcessTypeOK, BootTypeOK, PoolTypeOK
<1>7. Gates'
  BY DEF StartDashboard, Abandon, poolVars, runVars, Gates, Quiet, ProcessTypeOK,
         BootTypeOK, WorkflowContractReady, ResultContract
<1> QED BY <1>1, <1>2, <1>3, <1>4, <1>5, <1>6, <1>7

LEMMA ArmKeepsInv ==
  ASSUME ProcessInv, Arm, UNCHANGED runVars
  PROVE  ProcessInv'
<1> USE DEF ProcessInv
<1>1. ProcessTypeOK'
  <2>1. PoolTypeOK'
    BY DEF Arm, LongLived, poolVars, runVars, ProcessTypeOK, BootTypeOK, PoolTypeOK,
           SessionStates, TransportStates
  <2>2. /\ config' \in Configurations
        /\ boot' \in BootSteps
        /\ database' \in { "none", "open", "closed" }
    BY DEF Arm, LongLived, poolVars, runVars, ProcessTypeOK, BootTypeOK, BootSteps
  <2>3. /\ owned' \subseteq Proxies
        /\ healthy' \subseteq Proxies
        /\ unprobed' \subseteq Proxies
        /\ answered' \subseteq Proxies
    BY DEF Arm, LongLived, poolVars, runVars, ProcessTypeOK, BootTypeOK
  <2>4. /\ probeErrors' \in BOOLEAN
        /\ signals' \in BOOLEAN
    BY Zenon DEF Arm, LongLived, poolVars, runVars, ProcessTypeOK, BootTypeOK
  <2>5. /\ dashboard' \in { "off", "listening", "closing" }
        /\ loop' \in { "off", "cycle", "handling", "delay", "ended" }
    BY DEF Arm, LongLived, poolVars, runVars, ProcessTypeOK, BootTypeOK
  <2>6. /\ task' \in [Jobs -> TaskStates]
        /\ batch' \subseteq Jobs
        /\ shutdown' \in Stages
    BY DEF Arm, LongLived, poolVars, runVars, ProcessTypeOK, BootTypeOK, Stages
  <2>7. errors' \subseteq { "CLOSE_SESSIONS", "CLOSE_DATABASE" }
    BY DEF Arm, LongLived, poolVars, runVars, ProcessTypeOK, BootTypeOK
  <2>8. /\ stopped' \in BOOLEAN
        /\ loopStop' \in BOOLEAN
        /\ asking' \in BOOLEAN
    BY Zenon DEF Arm, LongLived, poolVars, runVars, ProcessTypeOK, BootTypeOK
  <2> QED BY <2>1, <2>2, <2>3, <2>4, <2>5, <2>6, <2>7, <2>8 DEF ProcessTypeOK, BootTypeOK
<1>2. Quiet'
  BY DEF Arm, LongLived, poolVars, runVars, Quiet, Stopping, TasksOver, ProcessTypeOK,
         BootTypeOK
<1>3. Listening'
  BY DEF Arm, LongLived, poolVars, runVars, Listening, Quiet, Stopping,
         DispatchersOver, DashboardOver, SessionsOver, LoopOver, TasksOver
<1>4. Stopping'
  BY DEF Arm, LongLived, poolVars, runVars, Stopping, Active, Quiet, LoopOver,
         TasksOver, ProcessTypeOK
<1>5. Closed'
  BY DEF Arm, LongLived, poolVars, runVars, Closed, Quiet, Listening
<1>6. Transports'
  BY DEF Arm, LongLived, poolVars, runVars, Transports, Usable, Quiet, Stopping,
         Active, DispatchersOver, SessionsOver, LoopOver, TasksOver, ProcessTypeOK,
         BootTypeOK, PoolTypeOK
<1>7. Gates'
  BY DEF Arm, LongLived, poolVars, runVars, Gates, Quiet, ProcessTypeOK, BootTypeOK,
         WorkflowContractReady, ResultContract
<1> QED BY <1>1, <1>2, <1>3, <1>4, <1>5, <1>6, <1>7

LEMMA CycleReturnsKeepsInv ==
  ASSUME ProcessInv, NEW jobs \in SUBSET Jobs, CycleReturns(jobs)
  PROVE  ProcessInv'
<1> USE DEF ProcessInv
<1>1. ProcessTypeOK'
  BY DEF CycleReturns, poolVars, ProcessTypeOK, BootTypeOK, PoolTypeOK, BootSteps,
         Stages, TaskStates, SessionStates, TransportStates
<1>2. Quiet'
  BY DEF CycleReturns, poolVars, Quiet, Stopping, TasksOver, ProcessTypeOK, BootTypeOK
<1>3. Listening'
  BY DEF CycleReturns, poolVars, Listening, Quiet, Stopping, DispatchersOver,
         DashboardOver, SessionsOver, LoopOver, TasksOver
<1>4. Stopping'
  BY DEF CycleReturns, poolVars, Stopping, Active, Quiet, LoopOver, TasksOver,
         ProcessTypeOK
<1>5. Closed'
  BY DEF CycleReturns, poolVars, Closed, Quiet, Listening
<1>6. Transports'
  BY DEF CycleReturns, poolVars, Transports, Usable, Quiet, Stopping, Active,
         DispatchersOver, SessionsOver, LoopOver, TasksOver, ProcessTypeOK,
         BootTypeOK, PoolTypeOK
<1>7. Gates'
  BY DEF CycleReturns, poolVars, Gates, Quiet, ProcessTypeOK, BootTypeOK,
         WorkflowContractReady, ResultContract
<1> QED BY <1>1, <1>2, <1>3, <1>4, <1>5, <1>6, <1>7

LEMMA CycleThrowsKeepsInv ==
  ASSUME ProcessInv, CycleThrows
  PROVE  ProcessInv'
<1> USE DEF ProcessInv
<1>1. ProcessTypeOK'
  BY DEF CycleThrows, LoopGoesTo, poolVars, runVars, ProcessTypeOK, BootTypeOK,
         PoolTypeOK, BootSteps, Stages, TaskStates, SessionStates, TransportStates
<1>2. Quiet'
  BY DEF CycleThrows, LoopGoesTo, poolVars, runVars, Quiet, Stopping, TasksOver,
         ProcessTypeOK, BootTypeOK
<1>3. Listening'
  BY DEF CycleThrows, LoopGoesTo, poolVars, runVars, Listening, Quiet, Stopping,
         DispatchersOver, DashboardOver, SessionsOver, LoopOver, TasksOver
<1>4. Stopping'
  BY DEF CycleThrows, LoopGoesTo, poolVars, runVars, Stopping, Active, Quiet,
         LoopOver, TasksOver, ProcessTypeOK
<1>5. Closed'
  BY DEF CycleThrows, LoopGoesTo, poolVars, runVars, Closed, Quiet, Listening
<1>6. Transports'
  BY DEF CycleThrows, LoopGoesTo, poolVars, runVars, Transports, Usable, Quiet,
         Stopping, Active, DispatchersOver, SessionsOver, LoopOver, TasksOver,
         ProcessTypeOK, BootTypeOK, PoolTypeOK
<1>7. Gates'
  BY DEF CycleThrows, LoopGoesTo, poolVars, runVars, Gates, Quiet, ProcessTypeOK,
         BootTypeOK, WorkflowContractReady, ResultContract
<1> QED BY <1>1, <1>2, <1>3, <1>4, <1>5, <1>6, <1>7

LEMMA HandlingDoneKeepsInv ==
  ASSUME ProcessInv, HandlingDone
  PROVE  ProcessInv'
<1> USE DEF ProcessInv
<1>1. ProcessTypeOK'
  BY DEF HandlingDone, LoopGoesTo, poolVars, runVars, ProcessTypeOK, BootTypeOK,
         PoolTypeOK, BootSteps, Stages, TaskStates, SessionStates, TransportStates
<1>2. Quiet'
  BY DEF HandlingDone, LoopGoesTo, poolVars, runVars, Quiet, Stopping, TasksOver,
         ProcessTypeOK, BootTypeOK
<1>3. Listening'
  BY DEF HandlingDone, LoopGoesTo, poolVars, runVars, Listening, Quiet, Stopping,
         DispatchersOver, DashboardOver, SessionsOver, LoopOver, TasksOver
<1>4. Stopping'
  BY DEF HandlingDone, LoopGoesTo, poolVars, runVars, Stopping, Active, Quiet,
         LoopOver, TasksOver, ProcessTypeOK
<1>5. Closed'
  BY DEF HandlingDone, LoopGoesTo, poolVars, runVars, Closed, Quiet, Listening
<1>6. Transports'
  BY DEF HandlingDone, LoopGoesTo, poolVars, runVars, Transports, Usable, Quiet,
         Stopping, Active, DispatchersOver, SessionsOver, LoopOver, TasksOver,
         ProcessTypeOK, BootTypeOK, PoolTypeOK
<1>7. Gates'
  BY DEF HandlingDone, LoopGoesTo, poolVars, runVars, Gates, Quiet, ProcessTypeOK,
         BootTypeOK, WorkflowContractReady, ResultContract
<1> QED BY <1>1, <1>2, <1>3, <1>4, <1>5, <1>6, <1>7

LEMMA DelayOverKeepsInv ==
  ASSUME ProcessInv, DelayOver
  PROVE  ProcessInv'
<1> USE DEF ProcessInv
<1>1. ProcessTypeOK'
  BY DEF DelayOver, LoopGoesTo, poolVars, runVars, ProcessTypeOK, BootTypeOK,
         PoolTypeOK, BootSteps, Stages, TaskStates, SessionStates, TransportStates
<1>2. Quiet'
  BY DEF DelayOver, LoopGoesTo, poolVars, runVars, Quiet, Stopping, TasksOver,
         ProcessTypeOK, BootTypeOK
<1>3. Listening'
  BY DEF DelayOver, LoopGoesTo, poolVars, runVars, Listening, Quiet, Stopping,
         DispatchersOver, DashboardOver, SessionsOver, LoopOver, TasksOver
<1>4. Stopping'
  BY DEF DelayOver, LoopGoesTo, poolVars, runVars, Stopping, Active, Quiet, LoopOver,
         TasksOver, ProcessTypeOK
<1>5. Closed'
  BY DEF DelayOver, LoopGoesTo, poolVars, runVars, Closed, Quiet, Listening
<1>6. Transports'
  BY DEF DelayOver, LoopGoesTo, poolVars, runVars, Transports, Usable, Quiet,
         Stopping, Active, DispatchersOver, SessionsOver, LoopOver, TasksOver,
         ProcessTypeOK, BootTypeOK, PoolTypeOK
<1>7. Gates'
  BY DEF DelayOver, LoopGoesTo, poolVars, runVars, Gates, Quiet, ProcessTypeOK,
         BootTypeOK, WorkflowContractReady, ResultContract
<1> QED BY <1>1, <1>2, <1>3, <1>4, <1>5, <1>6, <1>7

LEMMA StartTaskKeepsInv ==
  ASSUME ProcessInv, NEW j \in Jobs, StartTask(j)
  PROVE  ProcessInv'
<1> USE DEF ProcessInv
<1>1. ProcessTypeOK'
  BY DEF StartTask, TaskGoesTo, CreateForJob, GetForAllocation, bootVars,
         ProcessTypeOK, BootTypeOK, PoolTypeOK, BootSteps, Stages, TaskStates,
         SessionStates, TransportStates
<1>2. Quiet'
  BY DEF StartTask, TaskGoesTo, CreateForJob, GetForAllocation, bootVars, Quiet,
         Stopping, TasksOver, ProcessTypeOK, BootTypeOK
<1>3. Listening'
  BY DEF StartTask, TaskGoesTo, CreateForJob, GetForAllocation, bootVars, Listening,
         Quiet, Stopping, DispatchersOver, DashboardOver, SessionsOver, LoopOver,
         TasksOver
<1>4. Stopping'
  BY DEF StartTask, TaskGoesTo, CreateForJob, GetForAllocation, bootVars, Stopping,
         Active, Quiet, LoopOver, TasksOver, ProcessTypeOK
<1>5. Closed'
  BY DEF StartTask, TaskGoesTo, CreateForJob, GetForAllocation, bootVars, Closed,
         Quiet, Listening
<1>6. Transports'
  BY DEF StartTask, TaskGoesTo, CreateForJob, GetForAllocation, bootVars, Transports,
         Usable, Quiet, Stopping, Active, DispatchersOver, SessionsOver, LoopOver,
         TasksOver, ProcessTypeOK, BootTypeOK, PoolTypeOK
<1>7. Gates'
  BY DEF StartTask, TaskGoesTo, CreateForJob, GetForAllocation, bootVars, Gates,
         Quiet, ProcessTypeOK, BootTypeOK, WorkflowContractReady, ResultContract
<1> QED BY <1>1, <1>2, <1>3, <1>4, <1>5, <1>6, <1>7

LEMMA SessionRefusedKeepsInv ==
  ASSUME ProcessInv, NEW j \in Jobs, SessionRefused(j)
  PROVE  ProcessInv'
<1> USE DEF ProcessInv
<1>1. ProcessTypeOK'
  BY DEF SessionRefused, TaskGoesTo, bootVars, poolVars, ProcessTypeOK, BootTypeOK,
         PoolTypeOK, BootSteps, Stages, TaskStates, SessionStates, TransportStates
<1>2. Quiet'
  BY DEF SessionRefused, TaskGoesTo, bootVars, poolVars, Quiet, Stopping, TasksOver,
         ProcessTypeOK, BootTypeOK
<1>3. Listening'
  BY DEF SessionRefused, TaskGoesTo, bootVars, poolVars, Listening, Quiet, Stopping,
         DispatchersOver, DashboardOver, SessionsOver, LoopOver, TasksOver
<1>4. Stopping'
  BY DEF SessionRefused, TaskGoesTo, bootVars, poolVars, Stopping, Active, Quiet,
         LoopOver, TasksOver, ProcessTypeOK
<1>5. Closed'
  BY DEF SessionRefused, TaskGoesTo, bootVars, poolVars, Closed, Quiet, Listening
<1>6. Transports'
  BY DEF SessionRefused, TaskGoesTo, bootVars, poolVars, Transports, Usable, Quiet,
         Stopping, Active, DispatchersOver, SessionsOver, LoopOver, TasksOver,
         ProcessTypeOK, BootTypeOK, PoolTypeOK
<1>7. Gates'
  BY DEF SessionRefused, TaskGoesTo, bootVars, poolVars, Gates, Quiet, ProcessTypeOK,
         BootTypeOK, WorkflowContractReady, ResultContract
<1> QED BY <1>1, <1>2, <1>3, <1>4, <1>5, <1>6, <1>7

LEMMA AnswerKeepsInv ==
  ASSUME ProcessInv, NEW j \in Jobs, Answer(j)
  PROVE  ProcessInv'
<1> USE DEF ProcessInv
<1>1. ProcessTypeOK'
  BY DEF Answer, TaskGoesTo, bootVars, poolVars, ProcessTypeOK, BootTypeOK,
         PoolTypeOK, BootSteps, Stages, TaskStates, SessionStates, TransportStates
<1>2. Quiet'
  BY DEF Answer, TaskGoesTo, bootVars, poolVars, Quiet, Stopping, TasksOver,
         ProcessTypeOK, BootTypeOK
<1>3. Listening'
  BY DEF Answer, TaskGoesTo, bootVars, poolVars, Listening, Quiet, Stopping,
         DispatchersOver, DashboardOver, SessionsOver, LoopOver, TasksOver
<1>4. Stopping'
  BY DEF Answer, TaskGoesTo, bootVars, poolVars, Stopping, Active, Quiet, LoopOver,
         TasksOver, ProcessTypeOK
<1>5. Closed'
  BY DEF Answer, TaskGoesTo, bootVars, poolVars, Closed, Quiet, Listening
<1>6. Transports'
  BY DEF Answer, TaskGoesTo, bootVars, poolVars, Transports, Usable, Quiet, Stopping,
         Active, DispatchersOver, SessionsOver, LoopOver, TasksOver, ProcessTypeOK,
         BootTypeOK, PoolTypeOK
<1>7. Gates'
  BY DEF Answer, TaskGoesTo, bootVars, poolVars, Gates, Quiet, ProcessTypeOK,
         BootTypeOK, WorkflowContractReady, ResultContract
<1> QED BY <1>1, <1>2, <1>3, <1>4, <1>5, <1>6, <1>7

LEMMA PollAgainKeepsInv ==
  ASSUME ProcessInv, NEW j \in Jobs, PollAgain(j)
  PROVE  ProcessInv'
<1> USE DEF ProcessInv
<1>1. ProcessTypeOK'
  BY DEF PollAgain, TaskGoesTo, bootVars, poolVars, ProcessTypeOK, BootTypeOK,
         PoolTypeOK, BootSteps, Stages, TaskStates, SessionStates, TransportStates
<1>2. Quiet'
  BY DEF PollAgain, TaskGoesTo, bootVars, poolVars, Quiet, Stopping, TasksOver,
         ProcessTypeOK, BootTypeOK
<1>3. Listening'
  BY DEF PollAgain, TaskGoesTo, bootVars, poolVars, Listening, Quiet, Stopping,
         DispatchersOver, DashboardOver, SessionsOver, LoopOver, TasksOver
<1>4. Stopping'
  BY DEF PollAgain, TaskGoesTo, bootVars, poolVars, Stopping, Active, Quiet, LoopOver,
         TasksOver, ProcessTypeOK
<1>5. Closed'
  BY DEF PollAgain, TaskGoesTo, bootVars, poolVars, Closed, Quiet, Listening
<1>6. Transports'
  BY DEF PollAgain, TaskGoesTo, bootVars, poolVars, Transports, Usable, Quiet,
         Stopping, Active, DispatchersOver, SessionsOver, LoopOver, TasksOver,
         ProcessTypeOK, BootTypeOK, PoolTypeOK
<1>7. Gates'
  BY DEF PollAgain, TaskGoesTo, bootVars, poolVars, Gates, Quiet, ProcessTypeOK,
         BootTypeOK, WorkflowContractReady, ResultContract
<1> QED BY <1>1, <1>2, <1>3, <1>4, <1>5, <1>6, <1>7

LEMMA RetryKeepsInv ==
  ASSUME ProcessInv, NEW j \in Jobs, Retry(j)
  PROVE  ProcessInv'
<1> USE DEF ProcessInv
<1>1. ProcessTypeOK'
  BY DEF Retry, TaskGoesTo, bootVars, poolVars, ProcessTypeOK, BootTypeOK, PoolTypeOK,
         BootSteps, Stages, TaskStates, SessionStates, TransportStates
<1>2. Quiet'
  BY DEF Retry, TaskGoesTo, bootVars, poolVars, Quiet, Stopping, TasksOver,
         ProcessTypeOK, BootTypeOK
<1>3. Listening'
  BY DEF Retry, TaskGoesTo, bootVars, poolVars, Listening, Quiet, Stopping,
         DispatchersOver, DashboardOver, SessionsOver, LoopOver, TasksOver
<1>4. Stopping'
  BY DEF Retry, TaskGoesTo, bootVars, poolVars, Stopping, Active, Quiet, LoopOver,
         TasksOver, ProcessTypeOK
<1>5. Closed'
  BY DEF Retry, TaskGoesTo, bootVars, poolVars, Closed, Quiet, Listening
<1>6. Transports'
  BY DEF Retry, TaskGoesTo, bootVars, poolVars, Transports, Usable, Quiet, Stopping,
         Active, DispatchersOver, SessionsOver, LoopOver, TasksOver, ProcessTypeOK,
         BootTypeOK, PoolTypeOK
<1>7. Gates'
  BY DEF Retry, TaskGoesTo, bootVars, poolVars, Gates, Quiet, ProcessTypeOK,
         BootTypeOK, WorkflowContractReady, ResultContract
<1> QED BY <1>1, <1>2, <1>3, <1>4, <1>5, <1>6, <1>7

LEMMA DeliveredKeepsInv ==
  ASSUME ProcessInv, NEW j \in Jobs, Delivered(j)
  PROVE  ProcessInv'
<1> USE DEF ProcessInv
<1>1. ProcessTypeOK'
  BY DEF Delivered, TaskGoesTo, bootVars, poolVars, ProcessTypeOK, BootTypeOK,
         PoolTypeOK, BootSteps, Stages, TaskStates, SessionStates, TransportStates
<1>2. Quiet'
  BY DEF Delivered, TaskGoesTo, bootVars, poolVars, Quiet, Stopping, TasksOver,
         ProcessTypeOK, BootTypeOK
<1>3. Listening'
  BY DEF Delivered, TaskGoesTo, bootVars, poolVars, Listening, Quiet, Stopping,
         DispatchersOver, DashboardOver, SessionsOver, LoopOver, TasksOver
<1>4. Stopping'
  BY DEF Delivered, TaskGoesTo, bootVars, poolVars, Stopping, Active, Quiet, LoopOver,
         TasksOver, ProcessTypeOK
<1>5. Closed'
  BY DEF Delivered, TaskGoesTo, bootVars, poolVars, Closed, Quiet, Listening
<1>6. Transports'
  BY DEF Delivered, TaskGoesTo, bootVars, poolVars, Transports, Usable, Quiet,
         Stopping, Active, DispatchersOver, SessionsOver, LoopOver, TasksOver,
         ProcessTypeOK, BootTypeOK, PoolTypeOK
<1>7. Gates'
  BY DEF Delivered, TaskGoesTo, bootVars, poolVars, Gates, Quiet, ProcessTypeOK,
         BootTypeOK, WorkflowContractReady, ResultContract
<1> QED BY <1>1, <1>2, <1>3, <1>4, <1>5, <1>6, <1>7

LEMMA ResumeKeepsInv ==
  ASSUME ProcessInv, NEW j \in Jobs, Resume(j)
  PROVE  ProcessInv'
<1> USE DEF ProcessInv
<1>1. ProcessTypeOK'
  BY DEF Resume, TaskGoesTo, bootVars, poolVars, ProcessTypeOK, BootTypeOK,
         PoolTypeOK, BootSteps, Stages, TaskStates, SessionStates, TransportStates
<1>2. Quiet'
  BY DEF Resume, TaskGoesTo, bootVars, poolVars, Quiet, Stopping, TasksOver,
         ProcessTypeOK, BootTypeOK
<1>3. Listening'
  BY DEF Resume, TaskGoesTo, bootVars, poolVars, Listening, Quiet, Stopping,
         DispatchersOver, DashboardOver, SessionsOver, LoopOver, TasksOver
<1>4. Stopping'
  BY DEF Resume, TaskGoesTo, bootVars, poolVars, Stopping, Active, Quiet, LoopOver,
         TasksOver, ProcessTypeOK
<1>5. Closed'
  BY DEF Resume, TaskGoesTo, bootVars, poolVars, Closed, Quiet, Listening
<1>6. Transports'
  BY DEF Resume, TaskGoesTo, bootVars, poolVars, Transports, Usable, Quiet, Stopping,
         Active, DispatchersOver, SessionsOver, LoopOver, TasksOver, ProcessTypeOK,
         BootTypeOK, PoolTypeOK
<1>7. Gates'
  BY DEF Resume, TaskGoesTo, bootVars, poolVars, Gates, Quiet, ProcessTypeOK,
         BootTypeOK, WorkflowContractReady, ResultContract
<1> QED BY <1>1, <1>2, <1>3, <1>4, <1>5, <1>6, <1>7

LEMMA AskKeepsInv ==
  ASSUME ProcessInv, Ask
  PROVE  ProcessInv'
<1> USE DEF ProcessInv
<1>1. ProcessTypeOK'
  BY DEF Ask, bootVars, poolVars, ProcessTypeOK, BootTypeOK, PoolTypeOK, BootSteps,
         Stages, TaskStates, SessionStates, TransportStates
<1>2. Quiet'
  BY DEF Ask, bootVars, poolVars, Quiet, Stopping, TasksOver, ProcessTypeOK,
         BootTypeOK
<1>3. Listening'
  BY DEF Ask, bootVars, poolVars, Listening, Quiet, Stopping, DispatchersOver,
         DashboardOver, SessionsOver, LoopOver, TasksOver
<1>4. Stopping'
  BY DEF Ask, bootVars, poolVars, Stopping, Active, Quiet, LoopOver, TasksOver,
         ProcessTypeOK
<1>5. Closed'
  BY DEF Ask, bootVars, poolVars, Closed, Quiet, Listening
<1>6. Transports'
  BY DEF Ask, bootVars, poolVars, Transports, Usable, Quiet, Stopping, Active,
         DispatchersOver, SessionsOver, LoopOver, TasksOver, ProcessTypeOK,
         BootTypeOK, PoolTypeOK
<1>7. Gates'
  BY DEF Ask, bootVars, poolVars, Gates, Quiet, ProcessTypeOK, BootTypeOK,
         WorkflowContractReady, ResultContract
<1> QED BY <1>1, <1>2, <1>3, <1>4, <1>5, <1>6, <1>7

LEMMA AnswerAskedKeepsInv ==
  ASSUME ProcessInv, AnswerAsked
  PROVE  ProcessInv'
<1> USE DEF ProcessInv
<1>1. ProcessTypeOK'
  <2>1. PoolTypeOK'
    BY DEF AnswerAsked, bootVars, poolVars, ProcessTypeOK, BootTypeOK, PoolTypeOK,
           SessionStates, TransportStates
  <2>2. /\ config' \in Configurations
        /\ boot' \in BootSteps
        /\ database' \in { "none", "open", "closed" }
    BY DEF AnswerAsked, bootVars, poolVars, ProcessTypeOK, BootTypeOK, BootSteps
  <2>3. /\ owned' \subseteq Proxies
        /\ healthy' \subseteq Proxies
        /\ unprobed' \subseteq Proxies
        /\ answered' \subseteq Proxies
    BY DEF AnswerAsked, bootVars, poolVars, ProcessTypeOK, BootTypeOK
  <2>4. /\ probeErrors' \in BOOLEAN
        /\ signals' \in BOOLEAN
    BY Zenon DEF AnswerAsked, bootVars, poolVars, ProcessTypeOK, BootTypeOK
  <2>5. /\ dashboard' \in { "off", "listening", "closing" }
        /\ loop' \in { "off", "cycle", "handling", "delay", "ended" }
    BY DEF AnswerAsked, bootVars, poolVars, ProcessTypeOK, BootTypeOK
  <2>6. /\ task' \in [Jobs -> TaskStates]
        /\ batch' \subseteq Jobs
        /\ shutdown' \in Stages
    BY DEF AnswerAsked, bootVars, poolVars, ProcessTypeOK, BootTypeOK, Stages
  <2>7. errors' \subseteq { "CLOSE_SESSIONS", "CLOSE_DATABASE" }
    BY DEF AnswerAsked, bootVars, poolVars, ProcessTypeOK, BootTypeOK
  <2>8. /\ stopped' \in BOOLEAN
        /\ loopStop' \in BOOLEAN
        /\ asking' \in BOOLEAN
    BY Zenon DEF AnswerAsked, bootVars, poolVars, ProcessTypeOK, BootTypeOK
  <2> QED BY <2>1, <2>2, <2>3, <2>4, <2>5, <2>6, <2>7, <2>8 DEF ProcessTypeOK, BootTypeOK
<1>2. Quiet'
  BY DEF AnswerAsked, bootVars, poolVars, Quiet, Stopping, TasksOver, ProcessTypeOK,
         BootTypeOK
<1>3. Listening'
  BY DEF AnswerAsked, bootVars, poolVars, Listening, Quiet, Stopping, DispatchersOver,
         DashboardOver, SessionsOver, LoopOver, TasksOver
<1>4. Stopping'
  BY DEF AnswerAsked, bootVars, poolVars, Stopping, Active, Quiet, LoopOver,
         TasksOver, ProcessTypeOK
<1>5. Closed'
  BY DEF AnswerAsked, bootVars, poolVars, Closed, Quiet, Listening
<1>6. Transports'
  BY DEF AnswerAsked, bootVars, poolVars, Transports, Usable, Quiet, Stopping, Active,
         DispatchersOver, SessionsOver, LoopOver, TasksOver, ProcessTypeOK,
         BootTypeOK, PoolTypeOK
<1>7. Gates'
  BY DEF AnswerAsked, bootVars, poolVars, Gates, Quiet, ProcessTypeOK, BootTypeOK,
         WorkflowContractReady, ResultContract
<1> QED BY <1>1, <1>2, <1>3, <1>4, <1>5, <1>6, <1>7

LEMMA SignalKeepsInv ==
  ASSUME ProcessInv, Signal
  PROVE  ProcessInv'
<1> USE DEF ProcessInv
<1>1. ProcessTypeOK'
  BY DEF Signal, Enter, bootVars, poolVars, ProcessTypeOK, BootTypeOK, PoolTypeOK,
         BootSteps, Stages, TaskStates, SessionStates, TransportStates
<1>2. Quiet'
  BY DEF Signal, Enter, bootVars, poolVars, Quiet, Stopping, TasksOver, ProcessTypeOK,
         BootTypeOK
<1>3. Listening'
  BY DEF Signal, Enter, bootVars, poolVars, Listening, Quiet, Stopping,
         DispatchersOver, DashboardOver, SessionsOver, LoopOver, TasksOver
<1>4. Stopping'
  BY DEF Signal, Enter, bootVars, poolVars, Stopping, Active, Quiet, LoopOver,
         TasksOver, ProcessTypeOK
<1>5. Closed'
  BY DEF Signal, Enter, bootVars, poolVars, Closed, Quiet, Listening
<1>6. Transports'
  BY DEF Signal, Enter, bootVars, poolVars, Transports, Usable, Quiet, Stopping,
         Active, DispatchersOver, SessionsOver, LoopOver, TasksOver, ProcessTypeOK,
         BootTypeOK, PoolTypeOK
<1>7. Gates'
  BY DEF Signal, Enter, bootVars, poolVars, Gates, Quiet, ProcessTypeOK, BootTypeOK,
         WorkflowContractReady, ResultContract
<1> QED BY <1>1, <1>2, <1>3, <1>4, <1>5, <1>6, <1>7

LEMMA HandlerStoppedKeepsInv ==
  ASSUME ProcessInv, HandlerStopped
  PROVE  ProcessInv'
<1> USE DEF ProcessInv
<1>1. ProcessTypeOK'
  BY DEF HandlerStopped, Enter, bootVars, poolVars, ProcessTypeOK, BootTypeOK,
         PoolTypeOK, BootSteps, Stages, TaskStates, SessionStates, TransportStates
<1>2. Quiet'
  BY DEF HandlerStopped, Enter, bootVars, poolVars, Quiet, Stopping, TasksOver,
         ProcessTypeOK, BootTypeOK
<1>3. Listening'
  BY DEF HandlerStopped, Enter, bootVars, poolVars, Listening, Quiet, Stopping,
         DispatchersOver, DashboardOver, SessionsOver, LoopOver, TasksOver
<1>4. Stopping'
  BY DEF HandlerStopped, Enter, bootVars, poolVars, Stopping, Active, Quiet, LoopOver,
         TasksOver, ProcessTypeOK
<1>5. Closed'
  BY DEF HandlerStopped, Enter, bootVars, poolVars, Closed, Quiet, Listening
<1>6. Transports'
  BY DEF HandlerStopped, Enter, bootVars, poolVars, Transports, Usable, Quiet,
         Stopping, Active, DispatchersOver, SessionsOver, LoopOver, TasksOver,
         ProcessTypeOK, BootTypeOK, PoolTypeOK
<1>7. Gates'
  BY DEF HandlerStopped, Enter, bootVars, poolVars, Gates, Quiet, ProcessTypeOK,
         BootTypeOK, WorkflowContractReady, ResultContract
<1> QED BY <1>1, <1>2, <1>3, <1>4, <1>5, <1>6, <1>7

LEMMA LoopStoppedKeepsInv ==
  ASSUME ProcessInv, LoopStopped
  PROVE  ProcessInv'
<1> USE DEF ProcessInv
<1>1. ProcessTypeOK'
  BY DEF LoopStopped, Enter, bootVars, poolVars, ProcessTypeOK, BootTypeOK,
         PoolTypeOK, BootSteps, Stages, TaskStates, SessionStates, TransportStates
<1>2. Quiet'
  BY DEF LoopStopped, Enter, bootVars, poolVars, Quiet, Stopping, TasksOver,
         ProcessTypeOK, BootTypeOK
<1>3. Listening'
  BY DEF LoopStopped, Enter, bootVars, poolVars, Listening, Quiet, Stopping,
         DispatchersOver, DashboardOver, SessionsOver, LoopOver, TasksOver
<1>4. Stopping'
  BY DEF LoopStopped, Enter, bootVars, poolVars, Stopping, Active, Quiet, LoopOver,
         TasksOver, ProcessTypeOK
<1>5. Closed'
  BY DEF LoopStopped, Enter, bootVars, poolVars, Closed, Quiet, Listening
<1>6. Transports'
  BY DEF LoopStopped, Enter, bootVars, poolVars, Transports, Usable, Quiet, Stopping,
         Active, DispatchersOver, SessionsOver, LoopOver, TasksOver, ProcessTypeOK,
         BootTypeOK, PoolTypeOK
<1>7. Gates'
  BY DEF LoopStopped, Enter, bootVars, poolVars, Gates, Quiet, ProcessTypeOK,
         BootTypeOK, WorkflowContractReady, ResultContract
<1> QED BY <1>1, <1>2, <1>3, <1>4, <1>5, <1>6, <1>7

LEMMA CloseNextSessionKeepsInv ==
  ASSUME ProcessInv, CloseNextSession
  PROVE  ProcessInv'
<1> USE DEF ProcessInv
<1>1. ProcessTypeOK'
  BY DEF CloseNextSession, BeginCloseForJob, OpenSessions, bootVars, runVars,
         ProcessTypeOK, BootTypeOK, PoolTypeOK, BootSteps, Stages, TaskStates,
         SessionStates, TransportStates
<1>2. Quiet'
  BY DEF CloseNextSession, BeginCloseForJob, OpenSessions, bootVars, runVars, Quiet,
         Stopping, TasksOver, ProcessTypeOK, BootTypeOK
<1>3. Listening'
  BY DEF CloseNextSession, BeginCloseForJob, OpenSessions, bootVars, runVars,
         Listening, Quiet, Stopping, DispatchersOver, DashboardOver, SessionsOver,
         LoopOver, TasksOver
<1>4. Stopping'
  BY DEF CloseNextSession, BeginCloseForJob, OpenSessions, bootVars, runVars,
         Stopping, Active, Quiet, LoopOver, TasksOver, ProcessTypeOK
<1>5. Closed'
  BY DEF CloseNextSession, BeginCloseForJob, OpenSessions, bootVars, runVars, Closed,
         Quiet, Listening
<1>6. Transports'
  BY DEF CloseNextSession, BeginCloseForJob, OpenSessions, bootVars, runVars,
         Transports, Usable, Quiet, Stopping, Active, DispatchersOver, SessionsOver,
         LoopOver, TasksOver, ProcessTypeOK, BootTypeOK, PoolTypeOK
<1>7. Gates'
  BY DEF CloseNextSession, BeginCloseForJob, OpenSessions, bootVars, runVars, Gates,
         Quiet, ProcessTypeOK, BootTypeOK, WorkflowContractReady, ResultContract
<1> QED BY <1>1, <1>2, <1>3, <1>4, <1>5, <1>6, <1>7

LEMMA SessionCloseEndsKeepsInv ==
  ASSUME ProcessInv, NEW j \in Jobs, SessionCloseEnds(j)
  PROVE  ProcessInv'
<1> USE DEF ProcessInv
<1>1. ProcessTypeOK'
  <2>1. PoolTypeOK'
    BY DEF SessionCloseEnds, EndCloseForJob, bootVars, ProcessTypeOK, BootTypeOK,
           PoolTypeOK, SessionStates, TransportStates
  <2>2. /\ config' \in Configurations
        /\ boot' \in BootSteps
        /\ database' \in { "none", "open", "closed" }
    BY DEF SessionCloseEnds, EndCloseForJob, bootVars, ProcessTypeOK, BootTypeOK,
           BootSteps
  <2>3. /\ owned' \subseteq Proxies
        /\ healthy' \subseteq Proxies
        /\ unprobed' \subseteq Proxies
        /\ answered' \subseteq Proxies
    BY DEF SessionCloseEnds, EndCloseForJob, bootVars, ProcessTypeOK, BootTypeOK
  <2>4. /\ probeErrors' \in BOOLEAN
        /\ signals' \in BOOLEAN
    BY Zenon DEF SessionCloseEnds, EndCloseForJob, bootVars, ProcessTypeOK, BootTypeOK
  <2>5. /\ dashboard' \in { "off", "listening", "closing" }
        /\ loop' \in { "off", "cycle", "handling", "delay", "ended" }
    BY DEF SessionCloseEnds, EndCloseForJob, bootVars, ProcessTypeOK, BootTypeOK
  <2>6. /\ task' \in [Jobs -> TaskStates]
        /\ batch' \subseteq Jobs
        /\ shutdown' \in Stages
    BY DEF SessionCloseEnds, EndCloseForJob, bootVars, ProcessTypeOK, BootTypeOK,
           Stages
  <2>7. errors' \subseteq { "CLOSE_SESSIONS", "CLOSE_DATABASE" }
    BY DEF SessionCloseEnds, EndCloseForJob, bootVars, ProcessTypeOK, BootTypeOK
  <2>8. /\ stopped' \in BOOLEAN
        /\ loopStop' \in BOOLEAN
        /\ asking' \in BOOLEAN
    BY Zenon DEF SessionCloseEnds, EndCloseForJob, bootVars, ProcessTypeOK, BootTypeOK
  <2> QED BY <2>1, <2>2, <2>3, <2>4, <2>5, <2>6, <2>7, <2>8 DEF ProcessTypeOK, BootTypeOK
<1>2. Quiet'
  BY DEF SessionCloseEnds, EndCloseForJob, bootVars, Quiet, Stopping, TasksOver,
         ProcessTypeOK, BootTypeOK
<1>3. Listening'
  BY DEF SessionCloseEnds, EndCloseForJob, bootVars, Listening, Quiet, Stopping,
         DispatchersOver, DashboardOver, SessionsOver, LoopOver, TasksOver
<1>4. Stopping'
  BY DEF SessionCloseEnds, EndCloseForJob, bootVars, Stopping, Active, Quiet,
         LoopOver, TasksOver, ProcessTypeOK
<1>5. Closed'
  BY DEF SessionCloseEnds, EndCloseForJob, bootVars, Closed, Quiet, Listening
<1>6. Transports'
  BY DEF SessionCloseEnds, EndCloseForJob, bootVars, Transports, Usable, Quiet,
         Stopping, Active, DispatchersOver, SessionsOver, LoopOver, TasksOver,
         ProcessTypeOK, BootTypeOK, PoolTypeOK
<1>7. Gates'
  BY DEF SessionCloseEnds, EndCloseForJob, bootVars, Gates, Quiet, ProcessTypeOK,
         BootTypeOK, WorkflowContractReady, ResultContract
<1> QED BY <1>1, <1>2, <1>3, <1>4, <1>5, <1>6, <1>7

LEMMA SessionsClosedKeepsInv ==
  ASSUME ProcessInv, SessionsClosed
  PROVE  ProcessInv'
<1> USE DEF ProcessInv
<1>1. ProcessTypeOK'
  BY DEF SessionsClosed, Enter, OpenSessions, Closing, bootVars, poolVars,
         ProcessTypeOK, BootTypeOK, PoolTypeOK, BootSteps, Stages, TaskStates,
         SessionStates, TransportStates
<1>2. Quiet'
  BY DEF SessionsClosed, Enter, OpenSessions, Closing, bootVars, poolVars, Quiet,
         Stopping, TasksOver, ProcessTypeOK, BootTypeOK
<1>3. Listening'
  BY DEF SessionsClosed, Enter, OpenSessions, Closing, bootVars, poolVars, Listening,
         Quiet, Stopping, DispatchersOver, DashboardOver, SessionsOver, LoopOver,
         TasksOver
<1>4. Stopping'
  BY DEF SessionsClosed, Enter, OpenSessions, Closing, bootVars, poolVars, Stopping,
         Active, Quiet, LoopOver, TasksOver, ProcessTypeOK
<1>5. Closed'
  BY DEF SessionsClosed, Enter, OpenSessions, Closing, bootVars, poolVars, Closed,
         Quiet, Listening
<1>6. Transports'
  BY DEF SessionsClosed, Enter, OpenSessions, Closing, bootVars, poolVars, Transports,
         Usable, Quiet, Stopping, Active, DispatchersOver, SessionsOver, LoopOver,
         TasksOver, ProcessTypeOK, BootTypeOK, PoolTypeOK
<1>7. Gates'
  BY DEF SessionsClosed, Enter, OpenSessions, Closing, bootVars, poolVars, Gates,
         Quiet, ProcessTypeOK, BootTypeOK, WorkflowContractReady, ResultContract
<1> QED BY <1>1, <1>2, <1>3, <1>4, <1>5, <1>6, <1>7

LEMMA CloseDispatchersKeepsInv ==
  ASSUME ProcessInv, CloseDispatchers
  PROVE  ProcessInv'
<1> USE DEF ProcessInv
<1>1. ProcessTypeOK'
  BY DEF CloseDispatchers, CloseAllDispatchers, Swept, Enter, BeginStopDashboard,
         ProcessTypeOK, BootTypeOK, PoolTypeOK, BootSteps, Stages, TaskStates,
         SessionStates, TransportStates
<1>2. Quiet'
  BY DEF CloseDispatchers, CloseAllDispatchers, Swept, Enter, BeginStopDashboard,
         Quiet, Stopping, TasksOver, ProcessTypeOK, BootTypeOK
<1>3. Listening'
  BY DEF CloseDispatchers, CloseAllDispatchers, Swept, Enter, BeginStopDashboard,
         Listening, Quiet, Stopping, DispatchersOver, DashboardOver, SessionsOver,
         LoopOver, TasksOver
<1>4. Stopping'
  BY DEF CloseDispatchers, CloseAllDispatchers, Swept, Enter, BeginStopDashboard,
         Stopping, Active, Quiet, LoopOver, TasksOver, ProcessTypeOK
<1>5. Closed'
  BY DEF CloseDispatchers, CloseAllDispatchers, Swept, Enter, BeginStopDashboard,
         Closed, Quiet, Listening
<1>6. Transports'
  BY DEF CloseDispatchers, CloseAllDispatchers, Swept, Enter, BeginStopDashboard,
         Transports, Usable, Quiet, Stopping, Active, DispatchersOver, SessionsOver,
         LoopOver, TasksOver, ProcessTypeOK, BootTypeOK, PoolTypeOK
<1>7. Gates'
  BY DEF CloseDispatchers, CloseAllDispatchers, Swept, Enter, BeginStopDashboard,
         Gates, Quiet, ProcessTypeOK, BootTypeOK, WorkflowContractReady,
         ResultContract
<1> QED BY <1>1, <1>2, <1>3, <1>4, <1>5, <1>6, <1>7

LEMMA DashboardStoppedKeepsInv ==
  ASSUME ProcessInv, DashboardStopped
  PROVE  ProcessInv'
<1> USE DEF ProcessInv
<1>1. ProcessTypeOK'
  BY DEF DashboardStopped, Enter, poolVars, ProcessTypeOK, BootTypeOK, PoolTypeOK,
         BootSteps, Stages, TaskStates, SessionStates, TransportStates
<1>2. Quiet'
  BY DEF DashboardStopped, Enter, poolVars, Quiet, Stopping, TasksOver, ProcessTypeOK,
         BootTypeOK
<1>3. Listening'
  BY DEF DashboardStopped, Enter, poolVars, Listening, Quiet, Stopping,
         DispatchersOver, DashboardOver, SessionsOver, LoopOver, TasksOver
<1>4. Stopping'
  BY DEF DashboardStopped, Enter, poolVars, Stopping, Active, Quiet, LoopOver,
         TasksOver, ProcessTypeOK
<1>5. Closed'
  BY DEF DashboardStopped, Enter, poolVars, Closed, Quiet, Listening
<1>6. Transports'
  BY DEF DashboardStopped, Enter, poolVars, Transports, Usable, Quiet, Stopping,
         Active, DispatchersOver, SessionsOver, LoopOver, TasksOver, ProcessTypeOK,
         BootTypeOK, PoolTypeOK
<1>7. Gates'
  BY DEF DashboardStopped, Enter, poolVars, Gates, Quiet, ProcessTypeOK, BootTypeOK,
         WorkflowContractReady, ResultContract
<1> QED BY <1>1, <1>2, <1>3, <1>4, <1>5, <1>6, <1>7

LEMMA CloseDatabaseKeepsInv ==
  ASSUME ProcessInv, CloseDatabase
  PROVE  ProcessInv'
<1> USE DEF ProcessInv
<1>1. ProcessTypeOK'
  <2>1. PoolTypeOK'
    BY DEF CloseDatabase, Enter, poolVars, ProcessTypeOK, BootTypeOK, PoolTypeOK,
           SessionStates, TransportStates
  <2>2. /\ config' \in Configurations
        /\ boot' \in BootSteps
        /\ database' \in { "none", "open", "closed" }
    BY DEF CloseDatabase, Enter, poolVars, ProcessTypeOK, BootTypeOK, BootSteps
  <2>3. /\ owned' \subseteq Proxies
        /\ healthy' \subseteq Proxies
        /\ unprobed' \subseteq Proxies
        /\ answered' \subseteq Proxies
    BY DEF CloseDatabase, Enter, poolVars, ProcessTypeOK, BootTypeOK
  <2>4. /\ probeErrors' \in BOOLEAN
        /\ signals' \in BOOLEAN
    BY Zenon DEF CloseDatabase, Enter, poolVars, ProcessTypeOK, BootTypeOK
  <2>5. /\ dashboard' \in { "off", "listening", "closing" }
        /\ loop' \in { "off", "cycle", "handling", "delay", "ended" }
    BY DEF CloseDatabase, Enter, poolVars, ProcessTypeOK, BootTypeOK
  <2>6. /\ task' \in [Jobs -> TaskStates]
        /\ batch' \subseteq Jobs
        /\ shutdown' \in Stages
    BY DEF CloseDatabase, Enter, poolVars, ProcessTypeOK, BootTypeOK, Stages
  <2>7. errors' \subseteq { "CLOSE_SESSIONS", "CLOSE_DATABASE" }
    BY DEF CloseDatabase, Enter, poolVars, ProcessTypeOK, BootTypeOK
  <2>8. /\ stopped' \in BOOLEAN
        /\ loopStop' \in BOOLEAN
        /\ asking' \in BOOLEAN
    BY Zenon DEF CloseDatabase, Enter, poolVars, ProcessTypeOK, BootTypeOK
  <2> QED BY <2>1, <2>2, <2>3, <2>4, <2>5, <2>6, <2>7, <2>8 DEF ProcessTypeOK, BootTypeOK
<1>2. Quiet'
  BY DEF CloseDatabase, Enter, poolVars, Quiet, Stopping, TasksOver, ProcessTypeOK,
         BootTypeOK
<1>3. Listening'
  BY DEF CloseDatabase, Enter, poolVars, Listening, Quiet, Stopping, DispatchersOver,
         DashboardOver, SessionsOver, LoopOver, TasksOver
<1>4. Stopping'
  BY DEF CloseDatabase, Enter, poolVars, Stopping, Active, Quiet, LoopOver, TasksOver,
         ProcessTypeOK
<1>5. Closed'
  BY DEF CloseDatabase, Enter, poolVars, Closed, Quiet, Listening
<1>6. Transports'
  BY DEF CloseDatabase, Enter, poolVars, Transports, Usable, Quiet, Stopping, Active,
         DispatchersOver, SessionsOver, LoopOver, TasksOver, ProcessTypeOK,
         BootTypeOK, PoolTypeOK
<1>7. Gates'
  BY DEF CloseDatabase, Enter, poolVars, Gates, Quiet, ProcessTypeOK, BootTypeOK,
         WorkflowContractReady, ResultContract
<1> QED BY <1>1, <1>2, <1>3, <1>4, <1>5, <1>6, <1>7

------------------------------------------------------------------------------
(* The invariant and the theorems.                                         *)

LEMMA InitInv ==
  ASSUME ProcessInit
  PROVE  ProcessInv
<1> USE DEF ProcessInit, BootInit, PoolInit
<1>1. ProcessTypeOK
  BY DEF ProcessTypeOK, BootTypeOK, PoolTypeOK, BootSteps, Stages, TaskStates,
         SessionStates, TransportStates
<1>2. Quiet /\ Listening /\ Stopping /\ Closed
  BY DEF Quiet, Listening, Stopping, Closed, TasksOver, LoopOver, SessionsOver,
         DispatchersOver, DashboardOver
<1>3. Transports /\ Gates
  BY DEF Transports, Gates, TasksOver, LoopOver, SessionsOver, DispatchersOver
<1> QED BY <1>1, <1>2, <1>3 DEF ProcessInv

LEMMA BootKeepsInv ==
  ASSUME ProcessInv, Boot
  PROVE  ProcessInv'
<1>1. UNCHANGED runVars BY DEF Boot
<1>2. CASE \E p \in Proxies : ProbeProxy(p) BY <1>1, <1>2, ProbeProxyKeepsInv
<1>3. CASE LoadConfiguration \/ LoadWorkflow \/ OpenDatabase
  BY <1>1, <1>3, LoadConfigurationKeepsInv, LoadWorkflowKeepsInv, OpenDatabaseKeepsInv
<1>4. CASE EvaluateGates \/ JudgeProxies \/ Recover
  BY <1>1, <1>4, EvaluateGatesKeepsInv, JudgeProxiesKeepsInv, RecoverKeepsInv
<1>5. CASE StartDashboard \/ Arm
  BY <1>1, <1>5, StartDashboardKeepsInv, ArmKeepsInv
<1> QED BY <1>2, <1>3, <1>4, <1>5 DEF Boot, BootNext

LEMMA LoopStepKeepsInv ==
  ASSUME ProcessInv, LoopStep
  PROVE  ProcessInv'
BY CycleReturnsKeepsInv, CycleThrowsKeepsInv, HandlingDoneKeepsInv, DelayOverKeepsInv
   DEF LoopStep

LEMMA TaskStepKeepsInv ==
  ASSUME ProcessInv, NEW j \in Jobs, TaskStep(j)
  PROVE  ProcessInv'
BY StartTaskKeepsInv, SessionRefusedKeepsInv, AnswerKeepsInv, PollAgainKeepsInv,
   RetryKeepsInv, DeliveredKeepsInv DEF TaskStep

LEMMA ShutdownStepKeepsInv ==
  ASSUME ProcessInv, ShutdownStep
  PROVE  ProcessInv'
<1>1. CASE \E j \in Jobs : SessionCloseEnds(j) BY <1>1, SessionCloseEndsKeepsInv
<1>2. CASE HandlerStopped \/ LoopStopped \/ CloseNextSession \/ SessionsClosed
  BY <1>2, HandlerStoppedKeepsInv, LoopStoppedKeepsInv, CloseNextSessionKeepsInv,
     SessionsClosedKeepsInv
<1>3. CASE CloseDispatchers \/ DashboardStopped \/ CloseDatabase
  BY <1>3, CloseDispatchersKeepsInv, DashboardStoppedKeepsInv, CloseDatabaseKeepsInv
<1> QED BY <1>1, <1>2, <1>3 DEF ShutdownStep

\* A stuttering step leaves every state predicate as it is.
LEMMA StutterKeepsInv ==
  ASSUME ProcessInv, UNCHANGED processVars
  PROVE  ProcessInv'
<1> USE DEF processVars, poolVars, bootVars, runVars, ProcessInv
<1>1. ProcessTypeOK' BY DEF ProcessTypeOK, BootTypeOK, PoolTypeOK
<1>2. Quiet' /\ Closed' BY DEF Quiet, Closed
<1>3. Listening' /\ Stopping' BY DEF Listening, Stopping, Active
<1>4. Transports' BY DEF Transports, Usable
<1>5. Gates' BY DEF Gates, WorkflowContractReady, ResultContract
<1> QED BY <1>1, <1>2, <1>3, <1>4, <1>5

LEMMA NextInv ==
  ASSUME ProcessInv, [ProcessNext]_processVars
  PROVE  ProcessInv'
<1>1. CASE Boot BY <1>1, BootKeepsInv
<1>2. CASE LoopStep BY <1>2, LoopStepKeepsInv
<1>3. CASE \E j \in Jobs : TaskStep(j) \/ Resume(j)
  BY <1>3, TaskStepKeepsInv, ResumeKeepsInv
<1>4. CASE Ask \/ AnswerAsked \/ Signal
  BY <1>4, AskKeepsInv, AnswerAskedKeepsInv, SignalKeepsInv
<1>5. CASE ShutdownStep BY <1>5, ShutdownStepKeepsInv
<1>6. CASE UNCHANGED processVars BY <1>6, StutterKeepsInv
<1> QED BY <1>1, <1>2, <1>3, <1>4, <1>5, <1>6 DEF ProcessNext

THEOREM ProcessInvariant == ProcessSpec => []ProcessInv
BY InitInv, NextInv, PTL DEF ProcessSpec

\* Every variable of the process has its type, in the boot, in the work and in
\* the shutdown (index.js, session-manager.js, dispatcher-pool.js,
\* graceful-shutdown.js).
THEOREM Typed == ProcessSpec => []ProcessTypeOK
<1>1. ProcessInv => ProcessTypeOK BY DEF ProcessInv
<1> QED BY <1>1, ProcessInvariant, PTL

\* The intake loop runs only behind the complete gates and a free proxy that
\* answered in this boot (index.js, proxy-readiness.js).
THEOREM IntakeBehindGates == ProcessSpec => []IntakeOnlyWhenReady
<1>1. ProcessInv => IntakeOnlyWhenReady
  <2> SUFFICES ASSUME ProcessInv, loop # "off" PROVE IntakeOnlyWhenReady
    BY DEF IntakeOnlyWhenReady
  <2>1. boot = "up" /\ config.intake BY DEF ProcessInv, Quiet, Gates
  <2> QED BY <2>1 DEF ProcessInv, Gates, IntakeOnlyWhenReady
<1> QED BY <1>1, ProcessInvariant, PTL

\* Nobody uses the database after it was closed, by main()'s finally block or by
\* the last stage of the shutdown (index.js, graceful-shutdown.js).
THEOREM DatabaseLast == ProcessSpec => []DatabaseOutlivesWork
<1>1. ProcessInv => DatabaseOutlivesWork
  <2> SUFFICES ASSUME ProcessInv, database = "closed" PROVE DatabaseOutlivesWork
    BY DEF DatabaseOutlivesWork
  <2>1. CASE boot \in { "over", "failed" }
    <3>1. Active = {} /\ loop = "off"
      BY <2>1 DEF ProcessInv, Quiet, Active
    <3>2. ~asking BY <2>1 DEF ProcessInv, Listening
    <3> QED BY <3>1, <3>2 DEF DatabaseOutlivesWork
  <2>2. CASE shutdown = "done"
    <3>1. Active = {} /\ loop \in { "off", "ended" }
      BY <2>2 DEF ProcessInv, Stopping, TasksOver, LoopOver
    <3>2. ~asking
      BY <2>2 DEF ProcessInv, Listening, TasksOver, LoopOver, SessionsOver,
                  DispatchersOver, DashboardOver
    <3> QED BY <3>1, <3>2 DEF DatabaseOutlivesWork
  <2> QED BY <2>1, <2>2 DEF ProcessInv, Closed
<1> QED BY <1>1, ProcessInvariant, PTL

\* A request never meets a closed session or a dispatcher that the pool has
\* given up (job-http-client.js, session-manager.js).
THEOREM RequestsUsable == ProcessSpec => []RequestsOnOpenSession
<1>1. ProcessInv => RequestsOnOpenSession
  BY DEF ProcessInv, Transports, RequestsOnOpenSession
<1> QED BY <1>1, ProcessInvariant, PTL

\* A finished shutdown has closed every transport; what else stayed open has its
\* error (graceful-shutdown.js).
THEOREM ShutdownCloses == ProcessSpec => []NothingLeftOpen
<1>1. ProcessInv => NothingLeftOpen
  <2> SUFFICES ASSUME ProcessInv, shutdown = "done" PROVE NothingLeftOpen
    BY DEF NothingLeftOpen
  <2>1. shutdown \in SessionsOver /\ shutdown \in DispatchersOver
    BY DEF TasksOver, LoopOver, SessionsOver, DispatchersOver
  <2>2. /\ \A j \in Jobs : transport[j] # "open" /\ transport[j] # "closing"
        /\ \A p \in Proxies : probe[p] # "open"
        /\ OpenSessions # {} => "CLOSE_SESSIONS" \in errors
    BY <2>1 DEF ProcessInv, Transports, OpenSessions
  <2>3. database # "closed" => "CLOSE_DATABASE" \in errors
    BY DEF ProcessInv, Closed
  <2> QED BY <2>2, <2>3 DEF NothingLeftOpen
<1> QED BY <1>1, ProcessInvariant, PTL
=============================================================================
