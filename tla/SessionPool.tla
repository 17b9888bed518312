---------------------------- MODULE SessionPool ----------------------------
(***************************************************************************)
(* Sessions and their transports: session/session-manager.js and           *)
(* network/dispatcher-pool.js.                                             *)
(*                                                                         *)
(* A job of a process has one allocation while the process lives, so the   *)
(* job names both the session and the execution dispatcher the pool keeps  *)
(* under the allocation's id.  Probe dispatchers are kept per proxy.       *)
(***************************************************************************)
CONSTANTS Jobs, Proxies

VARIABLES
  session,    \* the session object of a job; once closed it is out of the map
  transport,  \* its execution dispatcher
  probe       \* the probe dispatcher of a proxy

poolVars == << session, transport, probe >>

SessionStates == { "none", "open", "closed" }

\* "closing": close() is awaited.  "broken": close() failed.  In both cases the
\* pool has already forgotten the dispatcher.
TransportStates == { "none", "open", "closing", "closed", "broken" }

PoolTypeOK ==
  /\ session \in [Jobs -> SessionStates]
  /\ transport \in [Jobs -> TransportStates]
  /\ probe \in [Proxies -> TransportStates]

PoolInit ==
  /\ session = [j \in Jobs |-> "none"]
  /\ transport = [j \in Jobs |-> "none"]
  /\ probe = [p \in Proxies |-> "none"]

OpenSessions == { j \in Jobs : session[j] = "open" }

Closing == { j \in Jobs : transport[j] = "closing" }

\* assertOpen of the job's HTTP client: the session is open and has its
\* dispatcher.
Usable(j) == session[j] = "open" /\ transport[j] = "open"

\* getForAllocation: the allocation's dispatcher, made when it is needed first.
\* The connection settings do not change while the process lives.
GetForAllocation(j) == transport' = [transport EXCEPT ![j] = "open"]

\* createForJob: the open session of the same allocation is returned, otherwise a
\* session with the allocation's dispatcher is made.
CreateForJob(j) ==
  /\ IF session[j] = "open" THEN UNCHANGED transport ELSE GetForAllocation(j)
  /\ session' = [session EXCEPT ![j] = "open"]
  /\ UNCHANGED probe

\* closeForJob up to its await: cookies cleared, session marked and forgotten,
\* and closeForAllocation has taken the dispatcher out of the pool.
BeginCloseForJob(j) ==
  /\ session[j] = "open"
  /\ session' = [session EXCEPT ![j] = "closed"]
  /\ transport' = [transport EXCEPT ![j] = IF @ = "open" THEN "closing" ELSE @]
  /\ UNCHANGED probe

\* The awaited close() ends, or rejects.
EndCloseForJob(j, outcome) ==
  /\ transport[j] = "closing"
  /\ transport' = [transport EXCEPT ![j] = outcome]
  /\ UNCHANGED << session, probe >>

\* getForProxy: the probe dispatcher of a proxy, made when it is needed first.
GetForProxy(p) == probe' = [probe EXCEPT ![p] = "open"]

Swept(state, outcome) == IF state = "open" THEN outcome ELSE state

\* DispatcherPool.closeAll: every dispatcher that is still in the pool, whatever
\* the others' close() does (allSettled).
CloseAllDispatchers ==
  /\ \E broken \in SUBSET Jobs :
       transport' = [j \in Jobs |->
                      Swept(transport[j], IF j \in broken THEN "broken" ELSE "closed")]
  /\ probe' = [p \in Proxies |-> Swept(probe[p], "closed")]
  /\ UNCHANGED session
=============================================================================
