-------------------------- MODULE IntakeCycleProofs --------------------------
(***************************************************************************)
(* Proofs about IntakeCycle: for every set of jobs, rows and endpoints,    *)
(* every finite set of proxies and every number of restarts.               *)
(*                                                                         *)
(* A step of the cycle does to the tables what the running process may do  *)
(* (RuntimeNext), so the tables keep their invariant; what is added here   *)
(* says where the cycle is with the reservation and the application in     *)
(* its hands.                                                              *)
(***************************************************************************)
EXTENDS IntakeCycle, ProxyAllocationProofs

\* An iteration is under way.
Iterating == { "fetching", "fetched", "created", "bound", "claimed" }

\* The reservation of the iteration: pending until it is bound.
ReservationAt ==
  /\ cycle \notin Iterating => current = NoRow
  /\ cycle \in Iterating => current \in ReservationIds
  /\ cycle \in { "fetching", "fetched", "created" } => Reserved(current)
  /\ cycle \in { "bound", "claimed" } => ~Reserved(current)

\* The job of the iteration: what has been done to it so far.
ApplicationAt ==
  /\ cycle \in { "fetched", "created", "bound", "claimed" } => fetched \in Jobs
  /\ cycle \in { "created", "bound" } => jobState[fetched] = "PENDING"
  /\ cycle = "claimed" => jobState[fetched] = "CLAIMED"
  /\ cycle \in { "bound", "claimed" } => LiveFor(fetched) # {}

\* States a job never returns to once it waits for its execution.
BeforeQueue == { "ABSENT", "PENDING", "CLAIMED" }

NewJobsNotHandedOff == \A j \in Jobs : jobState[j] \in BeforeQueue => handOffs[j] = 0

\* A refused release has ended the loop of this process.
RefusalEnds == refused => cycle = "failed"

CycleInv ==
  /\ IntakeTypeOK
  /\ ReservationAt /\ ApplicationAt
  /\ NewJobsNotHandedOff /\ BatchIsReady /\ HandedOffOnce
  /\ RefusalEnds /\ OneOrphanPerProcess

IntakeInv == Inv /\ CapacityInv /\ CycleInv

------------------------------------------------------------------------------
(* The cycle does to the tables what the running process may do.            *)

LEMMA StepIsRuntime ==
  ASSUME IntakeInv, [IntakeNext]_allVars
  PROVE  [RuntimeNext]_vars
<1> USE DEF RuntimeNext
<1>0. current \in ReservationIds \/ current = NoRow
  BY DEF IntakeInv, CycleInv, IntakeTypeOK
<1>1. CASE ConfigureProxies
  <2>1. SyncFromConfig(Proxies, Proxies, endpoint)
    BY <1>1 DEF ConfigureProxies
  <2>2. endpoint \in [Proxies -> Endpoints]
    BY DEF IntakeInv, Inv, TypeOK
  <2> QED BY <2>1, <2>2
<1>2. ASSUME NEW p \in Proxies, ProbeProxy(p) PROVE RuntimeNext
  BY <1>2 DEF ProbeProxy
<1>3. CASE Reserve
  BY <1>3 DEF Reserve
<1>4. CASE NothingPending \/ SkipDuplicate
  <2>1. current \in ReservationIds /\ ReleaseReservation(current)
    BY <1>4 DEF NothingPending, SkipDuplicate, IntakeInv, CycleInv, ReservationAt, Iterating
  <2> QED BY <2>1
<1>5. CASE CycleFails
  <2>1. UNCHANGED vars \/ (current \in ReservationIds /\ ReleaseReservation(current))
    BY <1>5 DEF CycleFails, Throws, IntakeInv, CycleInv, ReservationAt, Iterating
  <2> QED BY <2>1
<1>6. CASE CreateFetched
  BY <1>6 DEF CreateFetched, IntakeInv, CycleInv, ApplicationAt
<1>7. CASE BindFetched
  BY <1>7 DEF BindFetched, IntakeInv, CycleInv, ReservationAt, ApplicationAt, Iterating
<1>8. CASE Claim \/ Enqueue
  <2>1. fetched \in Jobs /\ \E to \in JobStates : TransitionJob(fetched, to)
    BY <1>8 DEF Claim, Enqueue, IntakeInv, CycleInv, ApplicationAt, JobStates, LiveJobStates
  <2> QED BY <2>1
<1>9. ASSUME NEW j \in Jobs, ExecutionStep(j) PROVE RuntimeNext
  BY <1>9 DEF ExecutionStep, JobStates, LiveJobStates, TerminalJobStates
<1>10. CASE \/ ProxiesReady \/ StartLoop \/ CheckPortal \/ Size \/ EndIterations \/ HandOff
            \/ Rest \/ NextCycle \/ ResumeParked \/ ResumeEnds \/ StopIntake \/ StopLoop \/ Crash
            \/ \E j \in Jobs : Fetch(j) \/ TaskEnds(j) \/ Reoffer(j)
            \/ UNCHANGED allVars
  <2>1. UNCHANGED vars
    BY <1>10
    DEF ProxiesReady, StartLoop, CheckPortal, Size, EndIterations, HandOff, Rest, NextCycle,
        ResumeParked, ResumeEnds, StopIntake, StopLoop, Crash, Fetch, TaskEnds, Reoffer, allVars
  <2> QED BY <2>1
<1> QED BY <1>1, <1>2, <1>3, <1>4, <1>5, <1>6, <1>7, <1>8, <1>9, <1>10 DEF IntakeNext, LoopStep

LEMMA TablesKept ==
  ASSUME IntakeInv, [IntakeNext]_allVars
  PROVE  Inv' /\ CapacityInv'
<1>1. [RuntimeNext]_vars
  BY StepIsRuntime
<1>2. [Next]_vars
  BY <1>1, RuntimeIsNext
<1> QED BY <1>1, <1>2, NextInv, CapacityStep DEF IntakeInv

------------------------------------------------------------------------------
(* What the steps of the tables change, in the terms of CycleInv.           *)

LEMMA TablesUnchanged ==
  ASSUME UNCHANGED vars
  PROVE  /\ jobState' = jobState
         /\ \A j \in Jobs : LiveFor(j)' = LiveFor(j)
         /\ \A r \in ReservationIds : Reserved(r)' <=> Reserved(r)
  BY DEF vars, LiveFor, Live, Reserved

LEMMA ReleaseEnds ==
  ASSUME TypeOK, NEW r \in ReservationIds, ReleaseReservation(r)
  PROVE  /\ jobState' = jobState
         /\ \A j \in Jobs : LiveFor(j)' = LiveFor(j)
         /\ \A s \in ReservationIds : Reserved(s)' <=> Reserved(s) /\ s # r
  BY NoRowAssumption
  DEF ReleaseReservation, TypeOK, ReservationRow, LiveFor, Live, Reserved

LEMMA PoolUpdateKeepsRows ==
  ASSUME UNCHANGED << allocation, reservation, jobState >>
  PROVE  /\ jobState' = jobState
         /\ \A j \in Jobs : LiveFor(j)' = LiveFor(j)
         /\ \A r \in ReservationIds : Reserved(r)' <=> Reserved(r)
  BY DEF LiveFor, Live, Reserved

------------------------------------------------------------------------------
(* Orphans: what may add one, and what may not. *)

LEMMA OrphansFinite ==
  ASSUME IntakeInv
  PROVE  IsFiniteSet(Orphans) /\ Cardinality(Orphans) \in Nat
<1>1. IsFiniteSet(PendingReservations)
  BY DEF IntakeInv, CapacityInv
<1>2. IsFiniteSet(Orphans)
  BY <1>1, FS_Subset DEF Orphans
<1> QED BY <1>2, FS_CardinalityType

\* A step that neither ends the process nor is refused a release leaves no
\* reservation without its iteration.
LEMMA NoNewOrphan ==
  ASSUME IntakeInv, UNCHANGED << refused, crashes >>,
         cycle = "failed" => cycle' = "failed",
         \A r \in ReservationIds : Reserved(r)' /\ r # current' => Reserved(r) /\ r # current
  PROVE  RefusalEnds' /\ OneOrphanPerProcess'
<1> USE DEF IntakeInv, CycleInv
<1>1. RefusalEnds'
  BY DEF RefusalEnds
<1>2. Orphans' \subseteq Orphans
  BY DEF Orphans, PendingReservations
<1>3. Cardinality(Orphans') \in Nat /\ Cardinality(Orphans') <= Cardinality(Orphans)
  BY <1>2, OrphansFinite, FS_Subset, FS_CardinalityType
<1>4. crashes \in Nat
  BY DEF IntakeTypeOK
<1> QED BY <1>1, <1>3, <1>4, OrphansFinite DEF OneOrphanPerProcess

\* The one reservation a process has in hand when it ends or is refused.
LEMMA OneMoreOrphan ==
  ASSUME IntakeInv, Orphans' \subseteq Orphans \union { current }
  PROVE  Cardinality(Orphans') \in Nat /\ Cardinality(Orphans') <= Cardinality(Orphans) + 1
<1>1. /\ IsFiniteSet(Orphans \union { current })
      /\ Cardinality(Orphans \union { current }) <= Cardinality(Orphans) + 1
  BY OrphansFinite, FS_AddElement
<1> QED BY <1>1, OrphansFinite, FS_Subset, FS_CardinalityType

------------------------------------------------------------------------------
(* Steps that leave the tables alone.                                       *)

LEMMA LeastOfThree ==
  ASSUME NEW a \in Nat, NEW b \in Nat, NEW c \in Nat
  PROVE  Least({ a, b, c }) \in 0 .. b
<1>1. \E n \in { a, b, c } : \A m \in { a, b, c } : n <= m
  <2>1. CASE a <= b /\ a <= c
    BY <2>1
  <2>2. CASE b <= a /\ b <= c
    BY <2>2
  <2>3. CASE c <= a /\ c <= b
    BY <2>3
  <2> QED BY <2>1, <2>2, <2>3
<1>2. Least({ a, b, c }) \in { a, b, c } /\ \A m \in { a, b, c } : Least({ a, b, c }) <= m
  BY <1>1 DEF Least
<1> QED BY <1>2

\* A cycle never plans more iterations than jobsPerCycle.
LEMMA CapacityOfCycle ==
  ASSUME IntakeInv
  PROVE  EffectiveCapacity \in 0 .. JobsPerCycle
<1>1. IsFiniteSet({ p \in Proxies : Selectable(p) })
  BY FS_Subset, IntakeAssumption
<1>2. Cardinality({ p \in Proxies : Selectable(p) }) \in Nat
  BY <1>1, FS_CardinalityType
<1>3. Cardinality(LiveAllocations) \in Nat
  BY FS_CardinalityType DEF IntakeInv, CapacityInv
<1> DEFINE headroom == MaxConcurrent - Cardinality(LiveAllocations)
<1>4. (IF headroom > 0 THEN headroom ELSE 0) \in Nat /\ JobsPerCycle \in Nat
  BY <1>3, MaxConcurrentAssumption, IntakeAssumption
<1> QED BY <1>2, <1>4, LeastOfThree DEF EffectiveCapacity

\* Events that move the loop, a flag or the Portal, with the same batch and
\* iteration.
LEMMA LoopMovesInv ==
  ASSUME IntakeInv, TypeOK',
         \/ ProxiesReady \/ StartLoop \/ CheckPortal \/ Size \/ EndIterations \/ Rest \/ NextCycle
         \/ ResumeParked \/ ResumeEnds \/ StopIntake \/ StopLoop
         \/ \E j \in Jobs : TaskEnds(j) \/ Reoffer(j)
         \/ UNCHANGED allVars
  PROVE  CycleInv'
<1> USE DEF IntakeInv, CycleInv
<1>1. /\ UNCHANGED << vars, current, fetched, batch, handOffs, refused, crashes >>
      /\ cycle' = cycle
         \/ (cycle \notin Iterating \union { "failed" } /\ cycle' \notin Iterating)
  BY DEF ProxiesReady, StartLoop, CheckPortal, Size, EndIterations, Rest, NextCycle,
         ResumeParked, ResumeEnds, StopIntake, StopLoop, TaskEnds, Reoffer, allVars, intakeVars,
         cycleVars, historyVars, Iterating
<1>2. /\ jobState' = jobState
      /\ \A j \in Jobs : LiveFor(j)' = LiveFor(j)
      /\ \A r \in ReservationIds : Reserved(r)' <=> Reserved(r)
  BY <1>1, TablesUnchanged
<1>3. IntakeTypeOK'
  <2>1. cycle' \in CycleStates /\ budget' \in 0 .. JobsPerCycle
        /\ executing' \in SUBSET Jobs /\ portal' \in SUBSET Jobs
    BY CapacityOfCycle
    DEF IntakeTypeOK, CycleStates, ProxiesReady, StartLoop, CheckPortal, Size, EndIterations,
        Rest, NextCycle, ResumeParked, ResumeEnds, StopIntake, StopLoop, TaskEnds, Reoffer,
        allVars, intakeVars, cycleVars, historyVars
  <2>2. /\ stopping' \in BOOLEAN /\ stopRequested' \in BOOLEAN /\ resuming' \in BOOLEAN
        /\ stopRequested' => stopping'
    <3>1. CASE UNCHANGED stopVars
      BY <3>1 DEF IntakeTypeOK, stopVars
    <3>2. CASE StopIntake \/ StopLoop
      BY <3>2 DEF IntakeTypeOK, StopIntake, StopLoop
    <3>3. CASE ResumeParked \/ ResumeEnds
      <4>1. resuming' \in BOOLEAN
        BY <3>3 DEF ResumeParked, ResumeEnds
      <4>2. stopping' = stopping /\ stopRequested' = stopRequested
        BY <3>3 DEF ResumeParked, ResumeEnds
      <4> QED BY <4>1, <4>2 DEF IntakeTypeOK
    <3>4. UNCHANGED stopVars \/ StopIntake \/ StopLoop \/ ResumeParked \/ ResumeEnds
      BY DEF ProxiesReady, StartLoop, CheckPortal, Size, EndIterations, Rest, NextCycle,
             TaskEnds, Reoffer, allVars, intakeVars, cycleVars
    <3> QED BY <3>1, <3>2, <3>3, <3>4
  <2> QED BY <1>1, <2>1, <2>2 DEF IntakeTypeOK
<1>4. ReservationAt' /\ ApplicationAt'
  BY <1>1, <1>2 DEF ReservationAt, ApplicationAt, Iterating, IntakeTypeOK
<1>5. NewJobsNotHandedOff' /\ BatchIsReady' /\ HandedOffOnce'
  BY <1>1, <1>2
  DEF NewJobsNotHandedOff, BatchIsReady, HandedOffOnce, IntakeTypeOK
<1>6. RefusalEnds' /\ OneOrphanPerProcess'
  BY <1>1, <1>2, NoNewOrphan DEF Iterating
<1> QED BY <1>3, <1>4, <1>5, <1>6

\* The boot changes the pool only.
LEMMA BootMovesInv ==
  ASSUME IntakeInv, TypeOK', ConfigureProxies \/ \E p \in Proxies : ProbeProxy(p)
  PROVE  CycleInv'
<1> USE DEF IntakeInv, CycleInv
<1>1. UNCHANGED << allocation, reservation, jobState >> /\ UNCHANGED intakeVars
  BY DEF ConfigureProxies, ProbeProxy, SyncFromConfig, RecordHealthSuccess,
         RecordHealthFailure, RecordHealth
<1>2. UNCHANGED << cycle, stopping, stopRequested, resuming, budget, current, fetched, batch,
                   executing, portal, handOffs, refused, crashes >>
  BY <1>1 DEF intakeVars, cycleVars, stopVars, historyVars
<1>3. /\ jobState' = jobState
      /\ \A j \in Jobs : LiveFor(j)' = LiveFor(j)
      /\ \A r \in ReservationIds : Reserved(r)' <=> Reserved(r)
  BY <1>1, PoolUpdateKeepsRows
<1>4. IntakeTypeOK'
  BY <1>2 DEF IntakeTypeOK
<1>5. ReservationAt' /\ ApplicationAt'
  BY <1>2, <1>3 DEF ReservationAt, ApplicationAt, IntakeTypeOK, Iterating
<1>6. NewJobsNotHandedOff' /\ BatchIsReady' /\ HandedOffOnce'
  BY <1>2, <1>3
  DEF NewJobsNotHandedOff, BatchIsReady, HandedOffOnce, IntakeTypeOK
<1>7. RefusalEnds' /\ OneOrphanPerProcess'
  BY <1>2, <1>3, NoNewOrphan
<1> QED BY <1>4, <1>5, <1>6, <1>7

LEMMA FetchInv ==
  ASSUME IntakeInv, TypeOK', NEW j \in Jobs, Fetch(j)
  PROVE  CycleInv'
<1> USE DEF IntakeInv, CycleInv
<1>1. /\ UNCHANGED << vars, stopping, stopRequested, resuming, budget, current, batch,
                      executing, handOffs, refused, crashes >>
      /\ cycle = "fetching" /\ cycle' = "fetched" /\ fetched' = j
      /\ portal' = portal \ {j}
  BY DEF Fetch, stopVars, historyVars
<1>2. /\ jobState' = jobState
      /\ \A k \in Jobs : LiveFor(k)' = LiveFor(k)
      /\ \A r \in ReservationIds : Reserved(r)' <=> Reserved(r)
  BY <1>1, TablesUnchanged
<1>3. IntakeTypeOK'
  BY <1>1 DEF IntakeTypeOK, CycleStates
<1>4. ReservationAt' /\ ApplicationAt'
  BY <1>1, <1>2 DEF ReservationAt, ApplicationAt, Iterating
<1>5. NewJobsNotHandedOff' /\ BatchIsReady' /\ HandedOffOnce'
  BY <1>1, <1>2
  DEF NewJobsNotHandedOff, BatchIsReady, HandedOffOnce, IntakeTypeOK
<1>6. RefusalEnds' /\ OneOrphanPerProcess'
  BY <1>1, <1>2, NoNewOrphan
<1> QED BY <1>3, <1>4, <1>5, <1>6

\* A job of the batch has not been handed off before; no job is new after it.
LEMMA HandOffInv ==
  ASSUME IntakeInv, TypeOK', HandOff
  PROVE  CycleInv'
<1> USE DEF IntakeInv, CycleInv
<1>1. /\ UNCHANGED << vars, stopping, stopRequested, resuming, budget, current, fetched,
                      portal, refused, crashes >>
      /\ cycle = "handing" /\ cycle' = "handling" /\ batch' = {}
      /\ executing' \subseteq batch
      /\ handOffs' = [j \in Jobs |-> handOffs[j] + (IF j \in executing' THEN 1 ELSE 0)]
  BY DEF HandOff, stopVars, historyVars
<1>2. /\ jobState' = jobState
      /\ \A k \in Jobs : LiveFor(k)' = LiveFor(k)
      /\ \A r \in ReservationIds : Reserved(r)' <=> Reserved(r)
  BY <1>1, TablesUnchanged
<1>3. \A j \in Jobs :
        /\ handOffs'[j] \in Nat
        /\ handOffs'[j] = handOffs[j]
           \/ (j \in batch /\ handOffs[j] = 0 /\ handOffs'[j] = 1
               /\ jobState[j] = "WAITING_FOR_IP")
  BY <1>1 DEF IntakeTypeOK, BatchIsReady
<1>4. IntakeTypeOK'
  BY <1>1, <1>3 DEF IntakeTypeOK, CycleStates
<1>5. ReservationAt' /\ ApplicationAt'
  BY <1>1, <1>2 DEF ReservationAt, ApplicationAt, Iterating
<1>6. NewJobsNotHandedOff' /\ HandedOffOnce'
  BY <1>2, <1>3 DEF NewJobsNotHandedOff, HandedOffOnce, BeforeQueue
<1>7. BatchIsReady'
  BY <1>1 DEF BatchIsReady
<1>8. RefusalEnds' /\ OneOrphanPerProcess'
  BY <1>1, <1>2, NoNewOrphan
<1> QED BY <1>4, <1>5, <1>6, <1>7, <1>8

\* A process that ends forgets its cycle; the tables and the counts stay.
LEMMA CrashInv ==
  ASSUME IntakeInv, TypeOK', Crash
  PROVE  CycleInv'
<1> USE DEF IntakeInv, CycleInv
<1>1. /\ UNCHANGED << vars, portal, handOffs >>
      /\ crashes' = crashes + 1 /\ crashes < MaxCrashes
      /\ cycle' = "boot" /\ budget' = 0 /\ current' = NoRow /\ fetched' = NoJob
      /\ batch' = {} /\ executing' = {} /\ refused' = FALSE
  BY DEF Crash, NoIteration
<1>2. jobState' = jobState
  BY <1>1, TablesUnchanged
<1>3. IntakeTypeOK'
  <2>1. stopping' = FALSE /\ stopRequested' = FALSE /\ resuming' = FALSE
    BY DEF Crash
  <2>2. crashes' \in 0 .. MaxCrashes /\ budget' \in 0 .. JobsPerCycle
    BY <1>1, IntakeAssumption DEF IntakeTypeOK
  <2> QED BY <1>1, <2>1, <2>2 DEF IntakeTypeOK, CycleStates
<1>4. ReservationAt' /\ ApplicationAt'
  BY <1>1 DEF ReservationAt, ApplicationAt, Iterating, IntakeTypeOK
<1>5. NewJobsNotHandedOff' /\ BatchIsReady' /\ HandedOffOnce'
  BY <1>1, <1>2 DEF NewJobsNotHandedOff, BatchIsReady, HandedOffOnce
<1>6. RefusalEnds' /\ OneOrphanPerProcess'
  <2>1. \A r \in ReservationIds : Reserved(r)' <=> Reserved(r)
    BY <1>1, TablesUnchanged
  <2>2. crashes \in Nat
    BY DEF IntakeTypeOK
  <2>3. CASE refused
    <3>1. current = NoRow
      BY <2>3 DEF RefusalEnds, ReservationAt, Iterating
    <3>2. Orphans' = Orphans
      BY <1>1, <2>1, <3>1 DEF Orphans, PendingReservations
    <3> QED BY <1>1, <2>2, <2>3, <3>2, OrphansFinite DEF RefusalEnds, OneOrphanPerProcess
  <2>4. CASE ~refused
    <3>1. Orphans' \subseteq Orphans \union { current }
      BY <2>1 DEF Orphans, PendingReservations
    <3> QED BY <1>1, <2>2, <2>4, <3>1, OneMoreOrphan, OrphansFinite
            DEF RefusalEnds, OneOrphanPerProcess
  <2> QED BY <2>3, <2>4
<1> QED BY <1>3, <1>4, <1>5, <1>6

------------------------------------------------------------------------------
(* The steps of an iteration.                                               *)

LEMMA ReserveInv ==
  ASSUME IntakeInv, TypeOK', Reserve
  PROVE  CycleInv'
<1> USE DEF IntakeInv, CycleInv
<1>1. PICK p \in Proxies, r \in ReservationIds : ReserveOne(p, r) /\ current' = r
  BY DEF Reserve
<1>2. /\ UNCHANGED << stopping, stopRequested, resuming, fetched, batch, executing, portal,
                      handOffs, refused, crashes >>
      /\ cycle = "reserving" /\ cycle' = "fetching" /\ budget > 0 /\ budget' = budget - 1
      /\ current = NoRow
  BY DEF Reserve, stopVars, historyVars, ReservationAt, Iterating
<1>3. ReserveEffect(p, r) /\ jobState' = jobState
  BY <1>1, ReserveOneHasEffect DEF ReserveOne
<1>4. \A j \in Jobs : LiveFor(j)' = LiveFor(j)
  BY <1>3 DEF ReserveEffect, LiveFor
<1>5. Reserved(r)' /\ \A s \in ReservationIds \ {r} : Reserved(s)' <=> Reserved(s)
  BY <1>3 DEF ReserveEffect
<1>6. IntakeTypeOK'
  <2>1. budget' \in 0 .. JobsPerCycle
    BY <1>2, IntakeAssumption DEF IntakeTypeOK
  <2> QED BY <1>1, <1>2, <2>1 DEF IntakeTypeOK, CycleStates
<1>7. ReservationAt' /\ ApplicationAt'
  BY <1>1, <1>2, <1>5 DEF ReservationAt, ApplicationAt, Iterating
<1>8. NewJobsNotHandedOff' /\ BatchIsReady' /\ HandedOffOnce'
  BY <1>2, <1>3, <1>4 DEF NewJobsNotHandedOff, BatchIsReady, HandedOffOnce, IntakeTypeOK
<1>9. RefusalEnds' /\ OneOrphanPerProcess'
  BY <1>1, <1>2, <1>5, HoldersAssumption, NoNewOrphan
<1> QED BY <1>6, <1>7, <1>8, <1>9

\* The iteration ends and gives its reservation back.
LEMMA IterationReleasedInv ==
  ASSUME IntakeInv, TypeOK', NothingPending \/ SkipDuplicate
  PROVE  CycleInv'
<1> USE DEF IntakeInv, CycleInv
<1>1. /\ UNCHANGED << stopping, stopRequested, resuming, budget, batch, executing, portal,
                      handOffs, refused, crashes >>
      /\ current \in ReservationIds /\ ReleaseReservation(current)
      /\ current' = NoRow /\ fetched' = NoJob
      /\ cycle \in Iterating /\ cycle' \in { "handing", "reserving" }
  BY DEF NothingPending, SkipDuplicate, NoIteration, stopVars, historyVars, ReservationAt, Iterating
<1>2. /\ jobState' = jobState
      /\ \A j \in Jobs : LiveFor(j)' = LiveFor(j)
      /\ \A s \in ReservationIds : Reserved(s)' <=> Reserved(s) /\ s # current
  BY <1>1, ReleaseEnds DEF IntakeTypeOK
<1>3. IntakeTypeOK'
  BY <1>1 DEF IntakeTypeOK, CycleStates
<1>4. ReservationAt' /\ ApplicationAt'
  BY <1>1 DEF ReservationAt, ApplicationAt, Iterating
<1>5. NewJobsNotHandedOff' /\ BatchIsReady' /\ HandedOffOnce'
  BY <1>1, <1>2
  DEF NewJobsNotHandedOff, BatchIsReady, HandedOffOnce, IntakeTypeOK
<1>6. RefusalEnds' /\ OneOrphanPerProcess'
  BY <1>1, <1>2, NoNewOrphan DEF Iterating
<1> QED BY <1>3, <1>4, <1>5, <1>6

\* An iteration that fails releases what is not bound, or is refused and leaves
\* an orphan.
LEMMA CycleFailsInv ==
  ASSUME IntakeInv, TypeOK', CycleFails
  PROVE  CycleInv'
<1> USE DEF IntakeInv, CycleInv
<1>1. /\ UNCHANGED << stopping, stopRequested, resuming, budget, executing, handOffs, crashes >>
      /\ cycle \in Iterating /\ current \in ReservationIds
      /\ current' = NoRow /\ fetched' = NoJob
      /\ cycle' = "failed" /\ batch' = {} /\ portal' \subseteq portal
  BY DEF CycleFails, Throws, NoIteration, stopVars, ReservationAt, Iterating
<1>2. ~refused
  BY <1>1 DEF RefusalEnds, Iterating
<1>3. \/ /\ refused' = refused
         /\ \A s \in ReservationIds : Reserved(s)' <=> Reserved(s) /\ s # current
      \/ refused' = TRUE /\ UNCHANGED vars
  <2>1. CASE cycle \in { "bound", "claimed" }
    <3>1. UNCHANGED << vars, refused >> /\ ~Reserved(current)
      BY <2>1 DEF CycleFails, ReservationAt
    <3> QED BY <3>1, TablesUnchanged
  <2>2. CASE ReleaseReservation(current) /\ UNCHANGED refused
    BY <1>1, <2>2, ReleaseEnds DEF IntakeTypeOK
  <2> QED BY <2>1, <2>2 DEF CycleFails
<1>4. jobState' = jobState
  BY <1>1, TablesUnchanged, ReleaseEnds DEF CycleFails, IntakeTypeOK
<1>5. IntakeTypeOK'
  BY <1>1, <1>3 DEF IntakeTypeOK, CycleStates
<1>6. ReservationAt' /\ ApplicationAt'
  BY <1>1 DEF ReservationAt, ApplicationAt, Iterating
<1>7. NewJobsNotHandedOff' /\ BatchIsReady' /\ HandedOffOnce'
  BY <1>1, <1>4 DEF NewJobsNotHandedOff, BatchIsReady, HandedOffOnce
<1>8. RefusalEnds' /\ OneOrphanPerProcess'
  <2>1. CASE /\ refused' = refused
             /\ \A s \in ReservationIds : Reserved(s)' <=> Reserved(s) /\ s # current
    BY <1>1, <2>1, NoNewOrphan
  <2>2. CASE refused' = TRUE /\ UNCHANGED vars
    <3>1. Orphans' \subseteq Orphans \union { current }
      BY <2>2, TablesUnchanged DEF Orphans, PendingReservations
    <3>2. crashes \in Nat
      BY DEF IntakeTypeOK
    <3> QED BY <1>1, <1>2, <2>2, <3>1, <3>2, OneMoreOrphan, OrphansFinite
            DEF RefusalEnds, OneOrphanPerProcess
  <2> QED BY <1>3, <2>1, <2>2
<1> QED BY <1>5, <1>6, <1>7, <1>8

LEMMA CreateFetchedInv ==
  ASSUME IntakeInv, TypeOK', CreateFetched
  PROVE  CycleInv'
<1> USE DEF IntakeInv, CycleInv
<1>1. /\ UNCHANGED << stopping, stopRequested, resuming, budget, current, fetched, batch,
                      executing, portal, handOffs, refused, crashes >>
      /\ cycle = "fetched" /\ cycle' = "created"
      /\ fetched \in Jobs /\ CreateJob(fetched)
  BY DEF CreateFetched, stopVars, historyVars, ApplicationAt
<1>2. /\ jobState[fetched] = "ABSENT"
      /\ jobState' = [jobState EXCEPT ![fetched] = "PENDING"]
      /\ UNCHANGED << allocation, reservation >>
  BY <1>1 DEF CreateJob
<1>3. /\ jobState'[fetched] = "PENDING"
      /\ \A j \in Jobs \ {fetched} : jobState'[j] = jobState[j]
  BY <1>1, <1>2 DEF IntakeTypeOK, TypeOK
<1>4. /\ \A j \in Jobs : LiveFor(j)' = LiveFor(j)
      /\ \A r \in ReservationIds : Reserved(r)' <=> Reserved(r)
  BY <1>2 DEF LiveFor, Live, Reserved
<1>5. IntakeTypeOK'
  BY <1>1 DEF IntakeTypeOK, CycleStates
<1>6. ReservationAt' /\ ApplicationAt'
  BY <1>1, <1>3, <1>4 DEF ReservationAt, ApplicationAt, Iterating
<1>7. fetched \notin batch
  BY <1>2 DEF BatchIsReady
<1>8. NewJobsNotHandedOff' /\ BatchIsReady' /\ HandedOffOnce'
  BY <1>1, <1>2, <1>3, <1>4, <1>7
  DEF NewJobsNotHandedOff, BatchIsReady, HandedOffOnce, BeforeQueue,
      IntakeTypeOK
<1>9. RefusalEnds' /\ OneOrphanPerProcess'
  BY <1>1, <1>4, NoNewOrphan
<1> QED BY <1>5, <1>6, <1>8, <1>9

LEMMA BindFetchedInv ==
  ASSUME IntakeInv, TypeOK', BindFetched
  PROVE  CycleInv'
<1> USE DEF IntakeInv, CycleInv
<1>1. /\ UNCHANGED << stopping, stopRequested, resuming, budget, current, fetched, batch,
                      executing, portal, handOffs, refused, crashes >>
      /\ cycle = "created" /\ cycle' = "bound"
      /\ fetched \in Jobs /\ current \in ReservationIds
  BY DEF BindFetched, stopVars, historyVars, ApplicationAt, ReservationAt, Iterating
<1>2. PICK a \in AllocationIds : BindToJob(current, fetched, a)
  BY DEF BindFetched
<1>3. BindEffect(current, fetched, a)
  BY <1>1, <1>2, BindToJobHasEffect
<1>4. /\ jobState' = jobState
      /\ \A r \in ReservationIds : Reserved(r)' <=> Reserved(r) /\ r # current
  BY <1>3 DEF BindEffect
<1>5. LiveFor(fetched)' # {} /\ \A j \in Jobs : LiveFor(j) # {} => LiveFor(j)' # {}
  <2>1. a \in LiveFor(fetched)'
    BY <1>1, <1>3 DEF BindEffect, LiveFor
  <2>2. \A j \in Jobs : LiveFor(j) \subseteq LiveFor(j)'
    BY <1>3 DEF BindEffect, LiveFor
  <2> QED BY <2>1, <2>2
<1>6. IntakeTypeOK'
  BY <1>1 DEF IntakeTypeOK, CycleStates
<1>7. ReservationAt' /\ ApplicationAt'
  BY <1>1, <1>4, <1>5 DEF ReservationAt, ApplicationAt, Iterating
<1>8. NewJobsNotHandedOff' /\ BatchIsReady' /\ HandedOffOnce'
  BY <1>1, <1>4, <1>5
  DEF NewJobsNotHandedOff, BatchIsReady, HandedOffOnce, IntakeTypeOK
<1>9. RefusalEnds' /\ OneOrphanPerProcess'
  BY <1>1, <1>4, NoNewOrphan
<1> QED BY <1>6, <1>7, <1>8, <1>9

\* The job goes on towards the queue; it is new, so no job of the batch is meant.
LEMMA TransitionFetched ==
  ASSUME IntakeInv, NEW to \in JobStates, fetched \in Jobs, TransitionJob(fetched, to),
         jobState[fetched] \in BeforeQueue
  PROVE  /\ fetched \notin batch /\ handOffs[fetched] = 0
         /\ jobState'[fetched] = to
         /\ \A j \in Jobs \ {fetched} : jobState'[j] = jobState[j]
         /\ \A j \in Jobs : LiveFor(j)' = LiveFor(j)
         /\ \A r \in ReservationIds : Reserved(r)' <=> Reserved(r)
<1> USE DEF IntakeInv, CycleInv
<1>1. fetched \notin batch /\ handOffs[fetched] = 0
  BY DEF BatchIsReady, NewJobsNotHandedOff, BeforeQueue
<1>2. /\ jobState' = [jobState EXCEPT ![fetched] = to]
      /\ UNCHANGED << allocation, reservation >>
  BY DEF TransitionJob
<1>3. jobState'[fetched] = to /\ \A j \in Jobs \ {fetched} : jobState'[j] = jobState[j]
  BY <1>2 DEF IntakeTypeOK, TypeOK
<1> QED BY <1>1, <1>2, <1>3 DEF LiveFor, Live, Reserved

LEMMA ClaimInv ==
  ASSUME IntakeInv, TypeOK', Claim
  PROVE  CycleInv'
<1> USE DEF IntakeInv, CycleInv
<1>1. /\ UNCHANGED << stopping, stopRequested, resuming, budget, current, fetched, batch,
                      executing, portal, handOffs, refused, crashes >>
      /\ cycle = "bound" /\ cycle' = "claimed"
      /\ fetched \in Jobs /\ jobState[fetched] = "PENDING" /\ LiveFor(fetched) # {}
      /\ TransitionJob(fetched, "CLAIMED")
  BY DEF Claim, stopVars, historyVars, ApplicationAt
<1>2. /\ fetched \notin batch /\ handOffs[fetched] = 0
      /\ jobState'[fetched] = "CLAIMED"
      /\ \A j \in Jobs \ {fetched} : jobState'[j] = jobState[j]
      /\ \A j \in Jobs : LiveFor(j)' = LiveFor(j)
      /\ \A r \in ReservationIds : Reserved(r)' <=> Reserved(r)
  BY <1>1, TransitionFetched DEF BeforeQueue, JobStates, LiveJobStates
<1>3. IntakeTypeOK'
  BY <1>1 DEF IntakeTypeOK, CycleStates
<1>4. ReservationAt' /\ ApplicationAt'
  BY <1>1, <1>2 DEF ReservationAt, ApplicationAt, Iterating
<1>5. NewJobsNotHandedOff' /\ BatchIsReady' /\ HandedOffOnce'
  BY <1>1, <1>2
  DEF NewJobsNotHandedOff, BatchIsReady, HandedOffOnce, BeforeQueue,
      IntakeTypeOK
<1>6. RefusalEnds' /\ OneOrphanPerProcess'
  BY <1>1, <1>2, NoNewOrphan
<1> QED BY <1>3, <1>4, <1>5, <1>6

LEMMA EnqueueInv ==
  ASSUME IntakeInv, TypeOK', Enqueue
  PROVE  CycleInv'
<1> USE DEF IntakeInv, CycleInv
<1>1. /\ UNCHANGED << stopping, stopRequested, resuming, budget, executing, portal, handOffs,
                      refused, crashes >>
      /\ cycle = "claimed" /\ cycle' = "reserving"
      /\ current' = NoRow /\ fetched' = NoJob /\ batch' = batch \union { fetched }
      /\ fetched \in Jobs /\ jobState[fetched] = "CLAIMED" /\ LiveFor(fetched) # {}
      /\ current \in ReservationIds /\ ~Reserved(current)
      /\ TransitionJob(fetched, "WAITING_FOR_IP")
  BY DEF Enqueue, NoIteration, stopVars, historyVars, ApplicationAt, ReservationAt, Iterating
<1>2. /\ fetched \notin batch /\ handOffs[fetched] = 0
      /\ jobState'[fetched] = "WAITING_FOR_IP"
      /\ \A j \in Jobs \ {fetched} : jobState'[j] = jobState[j]
      /\ \A j \in Jobs : LiveFor(j)' = LiveFor(j)
      /\ \A r \in ReservationIds : Reserved(r)' <=> Reserved(r)
  BY <1>1, TransitionFetched DEF BeforeQueue, JobStates, LiveJobStates
<1>3. IntakeTypeOK'
  BY <1>1 DEF IntakeTypeOK, CycleStates
<1>4. ReservationAt' /\ ApplicationAt'
  BY <1>1 DEF ReservationAt, ApplicationAt, Iterating
<1>5. NewJobsNotHandedOff' /\ BatchIsReady' /\ HandedOffOnce'
  BY <1>1, <1>2
  DEF NewJobsNotHandedOff, BatchIsReady, HandedOffOnce, BeforeQueue,
      IntakeTypeOK
<1>6. RefusalEnds' /\ OneOrphanPerProcess'
  BY <1>1, <1>2, NoNewOrphan
<1> QED BY <1>3, <1>4, <1>5, <1>6

------------------------------------------------------------------------------
(* Executions of earlier hand-offs go on beside the cycle.                  *)

\* What an execution may change: its own job, which is neither new nor queued.
OnlyOwnJob(j) ==
  /\ jobState[j] \notin BeforeQueue /\ jobState'[j] \notin BeforeQueue
  /\ \A k \in Jobs \ {j} : jobState'[k] = jobState[k] /\ LiveFor(k)' = LiveFor(k)
  /\ \A r \in ReservationIds : Reserved(r)' <=> Reserved(r)

LEMMA MoveAllocationKeepsRows ==
  ASSUME Inv, NEW a \in AllocationIds, Live(a),
         NEW from, NEW to \in LiveAllocationStates, MoveAllocation(a, from, to)
  PROVE  \A k \in Jobs : LiveFor(k)' = LiveFor(k)
<1>1. \A b \in AllocationIds :
        /\ Live(b)' <=> Live(b)
        /\ Live(b) => allocation'[b].job = allocation[b].job
  BY LiveOwnsProxy, NoRowAssumption
  DEF MoveAllocation, Inv, TypeOK, Live, AllocationRow, AllocationStates, LiveAllocationStates
<1> QED BY <1>1 DEF LiveFor

LEMMA ReleaseForJobKeepsOthers ==
  ASSUME Inv, NEW j \in Jobs, NEW reason, ReleaseForJob(j, reason)
  PROVE  \A k \in Jobs \ {j} : LiveFor(k)' = LiveFor(k)
<1>1. PICK a \in LiveFor(j) : allocation' = [allocation EXCEPT ![a].status = "RELEASED"]
  BY DEF ReleaseForJob
<1>2. a \in AllocationIds /\ Live(a) /\ allocation[a].job = j
      /\ allocation[a] \in AllocationRow
  BY LiveOwnsProxy DEF LiveFor
<1>3. \A b \in AllocationIds \ {a} : allocation'[b] = allocation[b]
  BY <1>1, <1>2 DEF Inv, TypeOK
<1>4. allocation'[a].job = j
  BY <1>1, <1>2 DEF Inv, TypeOK, AllocationRow
<1> QED BY <1>2, <1>3, <1>4 DEF LiveFor, Live

LEMMA ExecutionTouchesOwnJob ==
  ASSUME IntakeInv, NEW j \in Jobs, ExecutionStep(j)
  PROVE  OnlyOwnJob(j)
<1> USE DEF IntakeInv, CycleInv
<1>1. jobState[j] \notin BeforeQueue
  BY DEF ExecutionStep, NewJobsNotHandedOff, IntakeTypeOK
<1>2. CASE ActivateForJob(j) \/ MarkRetryReserved(j)
  <2>1. UNCHANGED << reservation, jobState >>
    BY <1>2 DEF ActivateForJob, MarkRetryReserved, MoveAllocation
  <2>2. \A k \in Jobs : LiveFor(k)' = LiveFor(k)
    BY <1>2, MoveAllocationKeepsRows
    DEF ActivateForJob, MarkRetryReserved, LiveFor, LiveAllocationStates
  <2> QED BY <1>1, <2>1, <2>2 DEF OnlyOwnJob, Reserved
<1>3. ASSUME NEW to \in { "RUNNING", "WAITING_FOR_MANUAL_CHALLENGE", "RETRY_PENDING",
                          "COMPLETED", "FAILED_FINAL" },
             TransitionJob(j, to)
      PROVE  OnlyOwnJob(j)
  <2>1. /\ jobState' = [jobState EXCEPT ![j] = to]
        /\ UNCHANGED << allocation, reservation >>
    BY <1>3 DEF TransitionJob
  <2>2. jobState'[j] = to /\ \A k \in Jobs \ {j} : jobState'[k] = jobState[k]
    BY <2>1 DEF IntakeTypeOK, TypeOK
  <2> QED BY <1>1, <2>1, <2>2 DEF OnlyOwnJob, BeforeQueue, LiveFor, Live, Reserved
<1>4. ASSUME NEW reason, ReleaseForJob(j, reason)
      PROVE  OnlyOwnJob(j)
  <2>1. UNCHANGED << reservation, jobState >>
    BY <1>4 DEF ReleaseForJob
  <2> QED BY <1>1, <1>4, <2>1, ReleaseForJobKeepsOthers DEF OnlyOwnJob, Reserved
<1> QED BY <1>2, <1>3, <1>4 DEF ExecutionStep

LEMMA ExecutionStepInv ==
  ASSUME IntakeInv, TypeOK', NEW j \in Jobs, ExecutionStep(j)
  PROVE  CycleInv'
<1> USE DEF IntakeInv, CycleInv
<1>1. /\ UNCHANGED << cycle, stopping, stopRequested, resuming, budget, current, fetched, batch,
                      executing, portal, handOffs, refused, crashes >>
      /\ handOffs[j] > 0
  BY DEF ExecutionStep, intakeVars, cycleVars, stopVars, historyVars
<1>2. OnlyOwnJob(j)
  BY ExecutionTouchesOwnJob
<1>3. /\ j \notin batch
      /\ cycle \in { "created", "bound", "claimed" } => fetched \in Jobs \ {j}
  BY <1>1, <1>2 DEF BatchIsReady, ApplicationAt, OnlyOwnJob, BeforeQueue
<1>4. IntakeTypeOK'
  BY <1>1 DEF IntakeTypeOK
<1>5. ReservationAt' /\ ApplicationAt'
  BY <1>1, <1>2, <1>3 DEF ReservationAt, ApplicationAt, OnlyOwnJob, Iterating
<1>6. NewJobsNotHandedOff' /\ BatchIsReady' /\ HandedOffOnce'
  BY <1>1, <1>2, <1>3
  DEF NewJobsNotHandedOff, BatchIsReady, HandedOffOnce, OnlyOwnJob,
      IntakeTypeOK
<1>7. RefusalEnds' /\ OneOrphanPerProcess'
  BY <1>1, <1>2, NoNewOrphan DEF OnlyOwnJob
<1> QED BY <1>4, <1>5, <1>6, <1>7

------------------------------------------------------------------------------
(* The invariant.                                                           *)

LEMMA IntakeInitInv == IntakeInit => IntakeInv
<1> SUFFICES ASSUME IntakeInit PROVE IntakeInv
  OBVIOUS
<1>1. Init /\ Inv
  BY InitInv DEF IntakeInit
<1>2. CapacityInv
  <2>1. LiveAllocations = {} /\ PendingReservations = {}
    BY <1>1 DEF Init, LiveAllocations, PendingReservations, Live, Reserved
  <2> QED BY <2>1, FS_EmptySet, MaxConcurrentAssumption
          DEF CapacityInv, SlotsWithinCapacity, OccupiedSlots
<1>3. IntakeTypeOK
  <2>1. budget \in 0 .. JobsPerCycle /\ crashes \in 0 .. MaxCrashes
    BY IntakeAssumption DEF IntakeInit
  <2> QED BY <1>1, <2>1 DEF IntakeInit, IntakeTypeOK, Inv, CycleStates
<1>4. ReservationAt /\ ApplicationAt
  BY DEF IntakeInit, ReservationAt, ApplicationAt, Iterating
<1>5. NewJobsNotHandedOff /\ BatchIsReady /\ HandedOffOnce
  BY DEF IntakeInit, NewJobsNotHandedOff, BatchIsReady, HandedOffOnce
<1>6. RefusalEnds /\ OneOrphanPerProcess
  <2>1. Orphans = {}
    BY <1>1 DEF Init, Orphans, PendingReservations, Reserved
  <2> QED BY <2>1, FS_EmptySet DEF IntakeInit, RefusalEnds, OneOrphanPerProcess
<1> QED BY <1>1, <1>2, <1>3, <1>4, <1>5, <1>6 DEF IntakeInv, CycleInv

LEMMA IntakeNextInv ==
  ASSUME IntakeInv, [IntakeNext]_allVars
  PROVE  IntakeInv'
<1>1. Inv' /\ CapacityInv' /\ TypeOK'
  BY TablesKept DEF Inv
<1>2. CycleInv'
  BY <1>1, LoopMovesInv, BootMovesInv, FetchInv, HandOffInv, CrashInv, ReserveInv,
     IterationReleasedInv, CycleFailsInv, CreateFetchedInv, BindFetchedInv, ClaimInv,
     EnqueueInv, ExecutionStepInv
  DEF IntakeNext, LoopStep
<1> QED BY <1>1, <1>2 DEF IntakeInv

\* The cycle, the tables and the jobs keep the invariant that connects them in
\* every reachable state: with executions beside the cycle, iterations that fail,
\* with or without the release of what they reserved, and restarts.
THEOREM IntakeInvariant == IntakeSpec => []IntakeInv
<1>1. IntakeInv /\ [IntakeNext]_allVars => IntakeInv'
  BY IntakeNextInv
<1> QED BY <1>1, IntakeInitInv, PTL DEF IntakeSpec

------------------------------------------------------------------------------
(* What follows from it.                                                    *)

\* The loop, its flags and counters stay well typed; a cycle never has more
\* iterations left than jobsPerCycle.
THEOREM IntakeTyped == IntakeSpec => []IntakeTypeOK
<1>1. IntakeInv => IntakeTypeOK
  BY DEF IntakeInv, CycleInv
<1> QED BY <1>1, IntakeInvariant, PTL

\* Nothing is fetched from the Portal, which forgets what it serves, without a
\* pending reservation, its proxy and an execution slot for it.
THEOREM FetchesWithIp == IntakeSpec => []ConsumesOnlyWithIp
<1>1. ASSUME IntakeInv PROVE ConsumesOnlyWithIp
  <2>1. cycle \in { "fetching", "fetched" } =>
          current \in ReservationIds /\ Reserved(current)
    BY <1>1 DEF IntakeInv, CycleInv, ReservationAt, Iterating
  <2>2. \A r \in ReservationIds : Reserved(r) => status[reservation[r].proxy] = "RESERVED"
    BY <1>1 DEF IntakeInv, Inv, Ownership, StatusAgreement
  <2>3. OccupiedSlots <= MaxConcurrent
    BY <1>1 DEF IntakeInv, CapacityInv, SlotsWithinCapacity
  <2> QED BY <2>1, <2>2, <2>3, HoldersAssumption DEF ConsumesOnlyWithIp
<1> QED BY <1>1, IntakeInvariant, PTL

\* Each job of a batch waits for its first execution and owns an address,
\* whatever the later iterations and the executions beside them do.
THEOREM BatchesAreReady == IntakeSpec => []BatchIsReady
<1>1. IntakeInv => BatchIsReady
  BY DEF IntakeInv, CycleInv
<1> QED BY <1>1, IntakeInvariant, PTL

\* No job is handed to the execution handler twice, however often the Portal
\* offers its application and the process restarts.
THEOREM JobsHandedOffOnce == IntakeSpec => []HandedOffOnce
<1>1. IntakeInv => HandedOffOnce
  BY DEF IntakeInv, CycleInv
<1> QED BY <1>1, IntakeInvariant, PTL

\* However many cycles, executions, failures and restarts there were, the
\* reservations without an iteration are at most one for each process that
\* crashed and one for a running process whose release was refused
\* (portal-intake-service.js:376-392); all others were bound or given back.
THEOREM OrphansBounded == IntakeSpec => []OneOrphanPerProcess
<1>1. IntakeInv => OneOrphanPerProcess
  BY DEF IntakeInv, CycleInv
<1> QED BY <1>1, IntakeInvariant, PTL

\* Once intake is stopped, no cycle hands a job to its first execution.
THEOREM StoppedStartsNothing == IntakeSpec => NothingStartedAfterStop
<1>1. ASSUME IntakeInv, [IntakeNext]_allVars, stopping, NEW j \in Jobs
      PROVE  handOffs'[j] = handOffs[j]
  <2>1. CASE HandOff
    <3>1. executing' = {} /\ handOffs[j] \in Nat
      BY <1>1, <2>1 DEF HandOff, IntakeInv, CycleInv, IntakeTypeOK
    <3> QED BY <2>1, <3>1 DEF HandOff
  <2>2. CASE ~HandOff
    <3>1. UNCHANGED handOffs
      BY <1>1, <2>2
      DEF IntakeNext, LoopStep, ConfigureProxies, ProbeProxy, ProxiesReady, StartLoop,
          CheckPortal, Size, Reserve, EndIterations, Fetch, NothingPending, CreateFetched,
          SkipDuplicate, BindFetched, Claim, Enqueue, CycleFails, Throws, TaskEnds, Rest,
          NextCycle, ResumeParked, ResumeEnds, StopIntake, StopLoop, Crash, ExecutionStep,
          Reoffer, allVars, intakeVars, historyVars
    <3> QED BY <3>1
  <2> QED BY <2>1, <2>2
<1>2. IntakeInv /\ [IntakeNext]_allVars =>
        [stopping => \A j \in Jobs : stopping' => handOffs'[j] = handOffs[j]]_allVars
  BY <1>1
<1> QED BY <1>2, IntakeInvariant, PTL DEF IntakeSpec, NothingStartedAfterStop

------------------------------------------------------------------------------
(* The cycle and the executions are a running process of ProxyAllocation.   *)

\* Intake, executions and restarts only call the tables as RuntimeSpec lets
\* them: what is proved of it holds of them.
THEOREM IntakeIsRuntime == IntakeSpec => RuntimeSpec
<1>1. IntakeInit => Init
  BY DEF IntakeInit
<1>2. IntakeInv /\ [IntakeNext]_allVars => [RuntimeNext]_vars
  BY StepIsRuntime
<1> QED BY <1>1, <1>2, IntakeInvariant, PTL DEF IntakeSpec, RuntimeSpec

\* Across cycles, executions and restarts every address has one owner at a time
\* and passes from the reservation to its job without a gap.
THEOREM IntakeOwnsExclusively == IntakeSpec => ExclusiveOwnership
<1>1. [RuntimeNext]_vars => [Next]_vars
  BY RuntimeIsNext
<1>2. RuntimeSpec => Spec
  BY <1>1, PTL DEF RuntimeSpec, Spec
<1> QED BY <1>2, IntakeIsRuntime, Refinement

\* A job of intake keeps the very address of its reservation until it is
\* terminal.
THEOREM IntakeHoldsAddresses == IntakeSpec => HeldUntilTerminal
  BY IntakeIsRuntime, AddressIsHeld
=============================================================================
