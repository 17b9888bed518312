----------------------------- MODULE IntakeCycle -----------------------------
(***************************************************************************)
(* IntakeLoop and PortalIntakeService over the tables of ProxyAllocation:  *)
(* a cycle reserves an address, fetches one application, which removes it  *)
(* from the Portal, makes it a job, binds the address to the job, and in   *)
(* the end hands all its jobs to the execution handler.  An application    *)
(* and the job made of it have one name.                                   *)
(*                                                                         *)
(* The steps between two awaits run without interruption by another task   *)
(* (EventLoop); they are separate actions because the process may die      *)
(* between any two of their transactions.                                  *)
(***************************************************************************)
EXTENDS ProxyAllocation

CONSTANTS
  JobsPerCycle,  \* capacity.jobsPerCycle
  NoJob,
  MaxCrashes     \* bound: restarts of the process in one behaviour

ASSUME IntakeAssumption ==
  /\ JobsPerCycle \in Nat \ {0}
  /\ MaxCrashes \in Nat
  /\ NoJob \notin Jobs
  /\ IsFiniteSet(Proxies)

VARIABLES
  cycle,     \* where the loop is
  stopping,  \* handler.stop() was called
  stopRequested, \* loop.stop() was called, which handler.stop() precedes
  budget,    \* iterations the cycle has left
  current,   \* the reservation of this iteration, or NoRow
  fetched,   \* the application of this iteration, or NoJob
  batch,     \* jobs of this cycle
  executing, \* jobs of this cycle whose tasks run
  resuming,  \* the task of a job an operator resumed runs; no cycle waits for it
  portal,    \* applications pending at the Portal
  handOffs,  \* how often each job was handed to the handler
  refused,   \* the catch block of a cycle could not release its reservation
  crashes

stopVars == << stopping, stopRequested, resuming >>
cycleVars == << cycle, stopVars, budget, current, fetched, batch, executing >>
historyVars == << handOffs, refused, crashes >>
intakeVars == << cycleVars, portal, historyVars >>
allVars == << vars, intakeVars >>

CycleStates ==
  { "boot", "ready", "start", "sizing", "reserving", "fetching", "fetched", "created", "bound",
    "claimed", "handing", "handling", "delay", "stopped", "failed" }

IntakeTypeOK ==
  /\ TypeOK
  /\ cycle \in CycleStates
  /\ stopping \in BOOLEAN /\ stopRequested \in BOOLEAN
  /\ stopRequested => stopping
  /\ resuming \in BOOLEAN
  /\ budget \in 0 .. JobsPerCycle
  /\ current \in ReservationIds \union { NoRow }
  /\ fetched \in Jobs \union { NoJob }
  /\ batch \in SUBSET Jobs /\ executing \in SUBSET Jobs
  /\ portal \in SUBSET Jobs
  /\ handOffs \in [Jobs -> Nat]
  /\ refused \in BOOLEAN
  /\ crashes \in 0 .. MaxCrashes

\* The loop awaits something, or is over: other tasks and signals get a turn.
EventLoop ==
  cycle \in { "start", "fetching", "handing", "handling", "delay", "stopped", "failed" }

\* The iteration that reserved r is over.
NoIteration == current' = NoRow /\ fetched' = NoJob

IntakeInit ==
  /\ Init
  /\ cycle = "boot" /\ budget = 0
  /\ stopping = FALSE /\ stopRequested = FALSE /\ resuming = FALSE
  /\ current = NoRow /\ fetched = NoJob
  /\ batch = {} /\ executing = {}
  /\ portal = Jobs
  /\ handOffs = [j \in Jobs |-> 0]
  /\ refused = FALSE /\ crashes = 0

------------------------------------------------------------------------------
(* The boot: the pool is brought up to date and probed, the gate is passed, *)
(* what earlier processes left is recovered, then intake starts.            *)

ConfigureProxies ==
  /\ cycle = "boot"
  /\ SyncFromConfig(Proxies, Proxies, endpoint)
  /\ UNCHANGED intakeVars

ProbeProxy(p) ==
  /\ cycle = "boot"
  /\ RecordHealthSuccess(p) \/ RecordHealthFailure(p)
  /\ UNCHANGED intakeVars

\* assertProxyReadinessForIntake: without a healthy proxy on offer main() throws.
ProxiesReady ==
  /\ cycle = "boot"
  /\ \A p \in Proxies : status[p] # "ABSENT"
  /\ \E p \in Proxies : Selectable(p)
  /\ cycle' = "ready"
  /\ UNCHANGED << vars, stopVars, budget, current, fetched, batch, executing, portal, historyVars >>

StartLoop ==
  /\ cycle = "ready"
  /\ cycle' = "start"
  /\ UNCHANGED << vars, stopVars, budget, current, fetched, batch, executing, portal, historyVars >>

------------------------------------------------------------------------------
(* runCycle.                                                               *)

\* The Portal's health decides whether anything may be consumed; its check may
\* also throw.
CheckPortal ==
  /\ cycle = "start"
  /\ cycle' \in { "sizing", "handing", "failed" }
  /\ UNCHANGED << vars, stopVars, budget, current, fetched, batch, executing, portal, historyVars >>

Least(S) == CHOOSE n \in S : \A m \in S : n <= m

\* calculateEffectiveCapacity.
EffectiveCapacity ==
  LET headroom == MaxConcurrent - Cardinality(LiveAllocations)
  IN Least({ IF headroom > 0 THEN headroom ELSE 0, JobsPerCycle,
             Cardinality({ p \in Proxies : Selectable(p) }) })

Size ==
  /\ cycle = "sizing"
  /\ budget' = EffectiveCapacity
  /\ cycle' = IF budget' = 0 THEN "handing" ELSE "reserving"
  /\ UNCHANGED << vars, stopVars, current, fetched, batch, executing, portal, historyVars >>

\* Mutant: the application is fetched before an address is reserved.
Reserve_AfterFetch ==
  /\ cycle = "reserving" /\ budget > 0
  /\ budget' = budget - 1
  /\ cycle' = "fetching"
  /\ UNCHANGED << vars, stopVars, current, fetched, batch, executing, portal, historyVars >>

\* Mutant: index <= effectiveCapacity.
Reserve_OneMore ==
  /\ cycle = "reserving"
  /\ \E p \in Proxies, r \in ReservationIds : ReserveOne(p, r) /\ current' = r
  /\ budget' = budget - 1
  /\ cycle' = "fetching"
  /\ UNCHANGED << stopVars, fetched, batch, executing, portal, historyVars >>

Reserve ==
  /\ cycle = "reserving" /\ budget > 0
  /\ \E p \in Proxies, r \in ReservationIds : ReserveOne(p, r) /\ current' = r
  /\ budget' = budget - 1
  /\ cycle' = "fetching"
  /\ UNCHANGED << stopVars, fetched, batch, executing, portal, historyVars >>

\* The iterations are used up, or reserveOne finds no slot or no address (or,
\* a bound of the model, all row ids have been used).
EndIterations ==
  /\ cycle = "reserving"
  /\ \/ budget = 0
     \/ OccupiedSlots >= MaxConcurrent
     \/ ~ \E p \in Proxies : Selectable(p)
     \/ \A r \in ReservationIds : reservation[r] # NoRow
  /\ cycle' = "handing"
  /\ UNCHANGED << vars, stopVars, budget, current, fetched, batch, executing, portal, historyVars >>

\* fetchPendingOne is destructive: the Portal forgets what it returns.
Fetch(j) ==
  /\ cycle = "fetching"
  /\ j \in portal
  /\ portal' = portal \ {j}
  /\ fetched' = j
  /\ cycle' = "fetched"
  /\ UNCHANGED << vars, stopVars, budget, current, batch, executing, historyVars >>

\* No application, or an empty one: the iterations end.
NothingPending ==
  /\ cycle = "fetching"
  /\ ReleaseReservation(current)
  /\ NoIteration
  /\ cycle' = "handing"
  /\ UNCHANGED << stopVars, budget, batch, executing, portal, historyVars >>

\* createOrGetJob makes a new job ...
CreateFetched ==
  /\ cycle = "fetched"
  /\ CreateJob(fetched)
  /\ cycle' = "created"
  /\ UNCHANGED << stopVars, budget, current, fetched, batch, executing, portal, historyVars >>

\* Mutant: a known application is executed again.
SkipDuplicate_Reruns ==
  /\ cycle = "fetched"
  /\ jobState[fetched] # "ABSENT"
  /\ ReleaseReservation(current)
  /\ NoIteration
  /\ batch' = batch \union { fetched }
  /\ cycle' = "reserving"
  /\ UNCHANGED << stopVars, budget, executing, portal, historyVars >>

\* ... or finds the one it made before: the address is given back.
SkipDuplicate ==
  /\ cycle = "fetched"
  /\ jobState[fetched] # "ABSENT"
  /\ ReleaseReservation(current)
  /\ NoIteration
  /\ cycle' = "reserving"
  /\ UNCHANGED << stopVars, budget, batch, executing, portal, historyVars >>

BindFetched ==
  /\ cycle = "created"
  /\ \E a \in AllocationIds : BindToJob(current, fetched, a)
  /\ cycle' = "bound"
  /\ UNCHANGED << stopVars, budget, current, fetched, batch, executing, portal, historyVars >>

Claim ==
  /\ cycle = "bound"
  /\ TransitionJob(fetched, "CLAIMED")
  /\ cycle' = "claimed"
  /\ UNCHANGED << stopVars, budget, current, fetched, batch, executing, portal, historyVars >>

Enqueue ==
  /\ cycle = "claimed"
  /\ TransitionJob(fetched, "WAITING_FOR_IP")
  /\ batch' = batch \union { fetched }
  /\ NoIteration
  /\ cycle' = "reserving"
  /\ UNCHANGED << stopVars, budget, executing, portal, historyVars >>

\* What the catch block has to deal with: something in the iteration threw, the
\* fetch (which the Portal may have served all the same), the mapping or a
\* transaction.  The jobs of the earlier iterations are dropped with the result,
\* and the loop does not start again.
Throws ==
  /\ cycle \in { "fetching", "fetched", "created", "bound", "claimed" }
  /\ \/ portal' = portal
     \/ cycle = "fetching" /\ \E j \in portal : portal' = portal \ {j}
  /\ NoIteration
  /\ cycle' = "failed"
  /\ batch' = {}
  /\ UNCHANGED << stopVars, budget, executing, handOffs, crashes >>

\* Mutant: the catch block leaves the reservation to somebody else.
CycleFails_KeepsReservation ==
  /\ Throws
  /\ UNCHANGED << vars, refused >>

\* The reservation is bound, or the catch block releases it, or that fails too:
\* the second error is swallowed and the reservation stays.
CycleFails ==
  /\ Throws
  /\ \/ cycle \in { "bound", "claimed" } /\ UNCHANGED << vars, refused >>
     \/ /\ cycle \notin { "bound", "claimed" }
        /\ ReleaseReservation(current)
        /\ UNCHANGED refused
     \/ /\ cycle \notin { "bound", "claimed" }
        /\ refused' = TRUE
        /\ UNCHANGED vars

------------------------------------------------------------------------------
(* The loop around it.                                                     *)

\* Mutant: the handler admits work it was told to stop.
HandOff_IgnoresStop ==
  /\ cycle = "handing"
  /\ executing' = batch
  /\ handOffs' = [j \in Jobs |-> handOffs[j] + (IF j \in batch THEN 1 ELSE 0)]
  /\ batch' = {}
  /\ cycle' = "handling"
  /\ UNCHANGED << vars, stopVars, budget, current, fetched, portal, refused, crashes >>

\* onCycleResult: handleCycleResult starts every job of the batch, or none.
HandOff ==
  /\ cycle = "handing"
  /\ executing' = IF stopping THEN {} ELSE batch
  /\ handOffs' = [j \in Jobs |-> handOffs[j] + (IF j \in executing' THEN 1 ELSE 0)]
  /\ batch' = {}
  /\ cycle' = "handling"
  /\ UNCHANGED << vars, stopVars, budget, current, fetched, portal, refused, crashes >>

\* A task ends; the loop waits for all of them.
TaskEnds(j) ==
  /\ EventLoop /\ j \in executing
  /\ executing' = executing \ {j}
  /\ UNCHANGED << vars, cycle, stopVars, budget, current, fetched, batch, portal, historyVars >>

\* The handler returned.
Rest ==
  /\ cycle = "handling" /\ executing = {}
  /\ cycle' = IF stopRequested THEN "stopped" ELSE "delay"
  /\ UNCHANGED << vars, stopVars, budget, current, fetched, batch, executing, portal, historyVars >>

\* The delay is over, or loop.stop() wakes it.  A handler.stop() with nothing to
\* wait for goes on to loop.stop() before a timer can fire.
NextCycle ==
  /\ cycle = "delay"
  /\ stopping /\ ~stopRequested => resuming
  /\ cycle' = IF stopRequested THEN "stopped" ELSE "start"
  /\ UNCHANGED << vars, stopVars, budget, current, fetched, batch, executing, portal, historyVars >>

\* The operator resumes a parked job of this process (bound: one at a time).
ResumeParked ==
  /\ EventLoop /\ ~stopping /\ ~resuming
  /\ \E j \in Jobs \ executing :
       handOffs[j] > 0 /\ jobState[j] = "WAITING_FOR_MANUAL_CHALLENGE"
  /\ resuming' = TRUE
  /\ UNCHANGED << vars, cycle, stopping, stopRequested, budget, current, fetched, batch,
                  executing, portal, historyVars >>

ResumeEnds ==
  /\ EventLoop /\ resuming
  /\ resuming' = FALSE
  /\ UNCHANGED << vars, cycle, stopping, stopRequested, budget, current, fetched, batch,
                  executing, portal, historyVars >>

\* stopIntake: handler.stop() refuses new work.  A cycle that has begun goes on.
StopIntake ==
  /\ EventLoop /\ ~stopping
  /\ stopping' = TRUE
  /\ UNCHANGED << vars, cycle, stopRequested, resuming, budget, current, fetched, batch,
                  executing, portal, historyVars >>

\* handler.stop() has awaited every task; loop.stop() is called.
StopLoop ==
  /\ EventLoop /\ stopping /\ ~stopRequested /\ executing = {} /\ ~resuming
  /\ stopRequested' = TRUE
  /\ UNCHANGED << vars, cycle, stopping, resuming, budget, current, fetched, batch,
                  executing, portal, historyVars >>

------------------------------------------------------------------------------
(* The rest of the world.                                                  *)

\* What an execution of j does to the tables.  Recovery and redelivery begin
\* behind the gate; resumes work on jobs of earlier cycles while a cycle awaits.
ExecutionStep(j) ==
  /\ EventLoop \/ cycle = "ready"
  /\ handOffs[j] > 0
  /\ \/ ActivateForJob(j)
     \/ MarkRetryReserved(j)
     \/ \E to \in { "RUNNING", "WAITING_FOR_MANUAL_CHALLENGE", "RETRY_PENDING",
                    "COMPLETED", "FAILED_FINAL" } : TransitionJob(j, to)
     \/ \E reason \in { "JOB_COMPLETED", "FAILED_FINAL" } : ReleaseForJob(j, reason)
  /\ UNCHANGED intakeVars

\* The Portal offers an application again.
Reoffer(j) ==
  /\ j \notin portal
  /\ portal' = portal \union {j}
  /\ UNCHANGED << vars, cycleVars, historyVars >>

\* The process ends, in whatever way, and boots again.
Crash ==
  /\ crashes < MaxCrashes
  /\ crashes' = crashes + 1
  /\ refused' = FALSE
  /\ cycle' = "boot" /\ budget' = 0
  /\ stopping' = FALSE /\ stopRequested' = FALSE /\ resuming' = FALSE
  /\ NoIteration
  /\ batch' = {} /\ executing' = {}
  /\ UNCHANGED << vars, portal, handOffs >>

LoopStep ==
  \/ ProxiesReady \/ StartLoop \/ CheckPortal \/ Size
  \/ Reserve \/ EndIterations \/ (\E j \in Jobs : Fetch(j)) \/ NothingPending
  \/ CreateFetched \/ SkipDuplicate \/ BindFetched \/ Claim \/ Enqueue
  \/ CycleFails
  \/ HandOff \/ (\E j \in Jobs : TaskEnds(j)) \/ Rest \/ NextCycle

IntakeNext ==
  \/ ConfigureProxies \/ (\E p \in Proxies : ProbeProxy(p))
  \/ LoopStep
  \/ ResumeParked \/ ResumeEnds \/ StopIntake \/ StopLoop \/ Crash
  \/ \E j \in Jobs : ExecutionStep(j) \/ Reoffer(j)

IntakeSpec == IntakeInit /\ [][IntakeNext]_allVars

------------------------------------------------------------------------------
(* Properties.                                                             *)

\* The destructive fetch is made only while this iteration holds an address
\* for the application, with a slot to run it in.
ConsumesOnlyWithIp ==
  cycle \in { "fetching", "fetched" } =>
    /\ current # NoRow /\ Reserved(current)
    /\ status[reservation[current].proxy] = "RESERVED"
    /\ OccupiedSlots <= MaxConcurrent

\* Every job of a batch waits for its execution and owns an address, also after
\* later iterations, duplicates among them, have failed or released theirs.
BatchIsReady ==
  \A j \in batch :
    /\ jobState[j] = "WAITING_FOR_IP" /\ LiveFor(j) # {}
    /\ handOffs[j] = 0

\* However often the Portal offers an application and the process restarts, its
\* job is executed from the start once at most.
HandedOffOnce == \A j \in Jobs : handOffs[j] <= 1

\* Pending reservations that no iteration answers for.
Orphans == PendingReservations \ { current }

\* A reservation loses its iteration only with the process, or when the release
\* in the catch block is refused, and each process leaves one at most: every other
\* way out of an iteration binds its reservation or gives it back.
OneOrphanPerProcess == Cardinality(Orphans) <= crashes + (IF refused THEN 1 ELSE 0)

\* After stopIntake no execution is started, not even of the cycle under way.
NothingStartedAfterStop ==
  [][stopping => \A j \in Jobs : stopping' => handOffs'[j] = handOffs[j]]_allVars

\* portal-intake-service.js:386-391: recovery handles an orphaned reservation.
OrphansAreRecovered ==
  cycle = "start" => \A r \in ReservationIds : ~Reserved(r)
=============================================================================
