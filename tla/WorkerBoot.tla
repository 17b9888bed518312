----------------------------- MODULE WorkerBoot -----------------------------
(***************************************************************************)
(* The boot of the worker: main() of index.js with its readiness gates     *)
(* (activation profile, secrets, static runtime, proxies).                 *)
(*                                                                         *)
(* Every gate judges the same configuration; with intake disabled it only  *)
(* inspects.  What throws between the opening of the database and the      *)
(* decision to stay alive ends in a finally block that closes it.          *)
(***************************************************************************)
EXTENDS SessionPool, FiniteSets

VARIABLES
  config,      \* what the configuration files and the environment say
  boot,        \* how far main() is
  database,    \* the SQLite handle
  owned,       \* proxies that incomplete jobs of earlier processes hold
  healthy,     \* proxies with last_health_ok = 1
  unprobed,    \* enabled proxies probeProxyReadiness has still to test
  answered,    \* proxies that answered a probe of this boot
  probeErrors, \* some probe threw before it could record anything
  signals,     \* SIGINT and SIGTERM lead to shutdown()
  dashboard,   \* the dashboard's listener
  loop         \* the intake loop

bootVars == << config, boot, database, owned, healthy, unprobed, answered,
               probeErrors, signals, dashboard, loop >>

Configurations ==
  [ profile : { "safe", "controlled" }, intake : BOOLEAN, workflow : BOOLEAN,
    definition : BOOLEAN, routes : BOOLEAN, result : BOOLEAN, token : BOOLEAN,
    serverName : BOOLEAN, probes : BOOLEAN, dashboard : BOOLEAN ]

BootSteps ==
  { "start", "workflow", "opening", "gates", "proxies", "recovery", "dashboard", "arm", "up", "over", "failed" }

BootTypeOK ==
  /\ PoolTypeOK
  /\ config \in Configurations
  /\ boot \in BootSteps
  /\ database \in { "none", "open", "closed" }
  /\ owned \subseteq Proxies /\ healthy \subseteq Proxies
  /\ unprobed \subseteq Proxies /\ answered \subseteq Proxies
  /\ probeErrors \in BOOLEAN /\ signals \in BOOLEAN
  /\ dashboard \in { "off", "listening", "closing" }
  /\ loop \in { "off", "cycle", "handling", "delay", "ended" }

BootInit ==
  /\ PoolInit
  /\ config \in Configurations
  /\ boot = "start" /\ database = "none"
  /\ owned \in SUBSET Proxies /\ healthy \in SUBSET Proxies
  /\ unprobed = {} /\ answered = {} /\ probeErrors = FALSE
  /\ signals = FALSE /\ dashboard = "off" /\ loop = "off"

------------------------------------------------------------------------------
(* The gates.                                                              *)

\* superRefine of appConfigSchema.
ConfigurationValid ==
  config.intake => config.workflow /\ config.serverName /\ config.result

\* inspectActivationProfile and assertActivationProfileForIntake.
ActivationReady ==
  config.intake =>
    config.profile = "controlled" /\ config.workflow /\ config.result

\* inspectSecretReadiness and assertSecretReadinessForIntake.
SecretsReady == config.intake => config.result /\ config.token

\* The Portal result contract exists only with all of its prerequisites.
ResultContract == config.result /\ config.serverName /\ config.token

\* The preflight against the verified contract: `definition` is workflow.enabled,
\* `routes` says that every target step has a verified endpoint.
WorkflowContractReady == config.definition /\ config.routes

\* assertDestructiveRuntimeReadiness; the target contract itself is a constant
\* of the source.
RuntimeReady ==
  config.intake => config.workflow /\ WorkflowContractReady /\ ResultContract

HealthyAvailable == healthy \ owned

\* inspectProxyReadiness with its blockers, and the boundary for probes that
\* threw: a proxy they did not judge may look healthy from an earlier boot.
ProxiesReady == config.probes /\ Proxies # {} /\ HealthyAvailable # {} /\ ~probeErrors

------------------------------------------------------------------------------
(* main().                                                                 *)

\* main() throws: finally closes the database, and index.js sets the exit code.
Abandon ==
  /\ boot' = "failed"
  /\ database' = IF database = "open" THEN "closed" ELSE database

BootGoesTo(places) ==
  /\ boot' \in places
  /\ UNCHANGED << poolVars, config, database, owned, healthy, unprobed, answered,
                  probeErrors, signals, dashboard, loop >>

\* loadConfig: a file may be unreadable or a field malformed even when the fields
\* agree with each other.
LoadConfiguration ==
  /\ boot = "start"
  /\ BootGoesTo({ "failed" } \union IF ConfigurationValid THEN { "workflow" } ELSE {})

\* loadWorkflowDefinition: schema, policy, maxSteps.
LoadWorkflow == boot = "workflow" /\ BootGoesTo({ "opening", "failed" })

OpenDatabase ==
  /\ boot = "opening"
  /\ \/ boot' = "gates" /\ database' = "open"
     \/ boot' = "failed" /\ UNCHANGED database
  /\ UNCHANGED << poolVars, config, owned, healthy, unprobed, answered, probeErrors,
                  signals, dashboard, loop >>

\* Migrations and the three static gates; any of them may end the boot.
EvaluateGates ==
  /\ boot = "gates"
  /\ \/ /\ ActivationReady /\ SecretsReady /\ RuntimeReady
        /\ boot' = "proxies"
        /\ unprobed' = IF config.intake /\ config.probes THEN Proxies ELSE {}
        /\ UNCHANGED database
     \/ Abandon /\ UNCHANGED unprobed
  /\ UNCHANGED << poolVars, config, owned, healthy, answered, probeErrors, signals,
                  dashboard, loop >>

\* testProxy for one enabled proxy: it answers, fails, or throws before anything
\* is recorded, with or without having made its dispatcher.
ProbeProxy(p) ==
  /\ boot = "proxies" /\ p \in unprobed
  /\ unprobed' = unprobed \ {p}
  /\ \/ /\ GetForProxy(p)
        /\ healthy' = healthy \union {p} /\ answered' = answered \union {p}
        /\ UNCHANGED probeErrors
     \/ /\ GetForProxy(p)
        /\ healthy' = healthy \ {p}
        /\ UNCHANGED << answered, probeErrors >>
     \/ /\ probeErrors' = TRUE
        /\ UNCHANGED << probe, healthy, answered >>
  /\ UNCHANGED << session, transport, config, boot, database, owned, signals,
                  dashboard, loop >>

\* Mutant: a proxy whose probe threw keeps its old health.
JudgeProxies_TrustsStaleHealth ==
  /\ boot = "proxies" /\ unprobed = {}
  /\ IF config.intake => config.probes /\ HealthyAvailable # {}
       THEN boot' = "recovery" /\ UNCHANGED << poolVars, database >>
       ELSE Abandon /\ CloseAllDispatchers
  /\ UNCHANGED << config, owned, healthy, unprobed, answered, probeErrors, signals,
                  dashboard, loop >>

\* assertProxyReadinessForIntake; a rejection closes the probe dispatchers first.
JudgeProxies ==
  /\ boot = "proxies" /\ unprobed = {}
  /\ IF config.intake => ProxiesReady
       THEN boot' = "recovery" /\ UNCHANGED << poolVars, database >>
       ELSE Abandon /\ CloseAllDispatchers
  /\ UNCHANGED << config, owned, healthy, unprobed, answered, probeErrors, signals,
                  dashboard, loop >>

\* recoverAll, the redelivery and the Portal probe (RestartRecovery), and the
\* wiring of the runtime.
Recover ==
  /\ boot = "recovery"
  /\ \/ boot' = "dashboard" /\ UNCHANGED database
     \/ Abandon
  /\ UNCHANGED << poolVars, config, owned, healthy, unprobed, answered, probeErrors,
                  signals, dashboard, loop >>

\* The dashboard, if configured, starts listening; its port may be taken.
StartDashboard ==
  /\ boot = "dashboard"
  /\ \/ /\ boot' = "arm" /\ UNCHANGED database
        /\ dashboard' = IF config.dashboard THEN "listening" ELSE "off"
     \/ config.dashboard /\ Abandon /\ UNCHANGED dashboard
  /\ UNCHANGED << poolVars, config, owned, healthy, unprobed, answered, probeErrors,
                  signals, loop >>

LongLived == config.dashboard \/ config.intake

\* With something to stay alive for, the signal handlers are installed and the
\* loop starts; otherwise main() returns and its finally block closes the database.
Arm ==
  /\ boot = "arm"
  /\ IF LongLived
       THEN /\ boot' = "up" /\ signals' = TRUE
            /\ loop' = IF config.intake THEN "cycle" ELSE "off"
            /\ UNCHANGED database
       ELSE boot' = "over" /\ database' = "closed" /\ UNCHANGED << signals, loop >>
  /\ UNCHANGED << poolVars, config, owned, healthy, unprobed, answered, probeErrors,
                  dashboard >>

BootNext ==
  \/ LoadConfiguration \/ LoadWorkflow \/ OpenDatabase \/ EvaluateGates \/ (\E p \in Proxies : ProbeProxy(p))
  \/ JudgeProxies \/ Recover \/ StartDashboard \/ Arm
=============================================================================
