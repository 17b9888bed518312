--------------------------- MODULE ProxyAllocation ---------------------------
(***************************************************************************)
(* The three tables that decide which job sends through which address:     *)
(* proxies (src/network/proxy-pool.js), ip_allocations                     *)
(* (ip-allocator.js) and portal_intake_reservations                        *)
(* (intake-reservation-store.js).                                          *)
(*                                                                         *)
(* Every operation is one IMMEDIATE SQLite transaction, so one action.  An *)
(* operation that throws rolls back: its guard is false and the action is  *)
(* not taken.  The status RELEASING exists only inside a release           *)
(* transaction and is never committed.  The order in which eligible        *)
(* proxies are preferred (failure and success counters) is left open.      *)
(***************************************************************************)
EXTENDS JobStates, FiniteSets, Integers

CONSTANTS
  Proxies,        \* proxy ids a configuration may name
  Endpoints,      \* (ip, port, protocol) triples
  Jobs,
  AllocationIds,  \* row ids of ip_allocations
  ReservationIds, \* row ids of portal_intake_reservations
  NoRow,          \* what an id stands for before its row is inserted
  MaxConcurrent   \* capacity.maxConcurrent

ASSUME MaxConcurrentAssumption == MaxConcurrent \in Nat \ {0}

VARIABLES
  status,       \* proxies.status; "ABSENT": no such row
  enabled,      \* {p : proxies.enabled = 1}
  healthy,      \* {p : proxies.last_health_ok = 1}
  endpoint,     \* proxies.ip, port and protocol
  allocation,   \* rows of ip_allocations
  reservation,  \* rows of portal_intake_reservations
  jobState      \* jobs.state; "ABSENT": no such row

proxyVars == << status, enabled, healthy, endpoint >>
vars == << status, enabled, healthy, endpoint, allocation, reservation, jobState >>

OwnedStates == { "RESERVED", "ACTIVE", "RETRY_RESERVED" }
ProxyStates == OwnedStates \union { "AVAILABLE", "COOLDOWN", "DISABLED" }
LiveAllocationStates == { "RESERVED", "ACTIVE", "RETRY_RESERVED" }
AllocationStates == LiveAllocationStates \union { "RELEASED" }
ReservationStates == { "RESERVED", "CONSUMED", "RELEASED" }

AllocationRow ==
  [status : AllocationStates, job : Jobs, proxy : Proxies, ip : Endpoints]
ReservationRow ==
  [status : ReservationStates, proxy : Proxies, ip : Endpoints]

ASSUME HoldersAssumption ==
  /\ Jobs \intersect ReservationIds = {}
  /\ NoRow \notin Jobs \union ReservationIds

ASSUME NoRowAssumption == NoRow \notin AllocationRow \union ReservationRow

TypeOK ==
  /\ status \in [Proxies -> ProxyStates \union { "ABSENT" }]
  /\ enabled \in SUBSET Proxies
  /\ healthy \in SUBSET Proxies
  /\ endpoint \in [Proxies -> Endpoints]
  /\ allocation \in [AllocationIds -> AllocationRow \union { NoRow }]
  /\ reservation \in [ReservationIds -> ReservationRow \union { NoRow }]
  /\ jobState \in [Jobs -> JobStates \union { "ABSENT" }]

------------------------------------------------------------------------------
Live(a) ==
  /\ allocation[a] # NoRow
  /\ allocation[a].status \in LiveAllocationStates

LiveFor(j) == { a \in AllocationIds : Live(a) /\ allocation[a].job = j }

Reserved(r) == reservation[r] # NoRow /\ reservation[r].status = "RESERVED"

JobIsLive(j) == jobState[j] \in LiveJobStates

\* Mutant: a released proxy is offered again whatever its last health check said.
FreeStatus_IgnoresHealth(p, on, ok) == IF p \notin on THEN "DISABLED" ELSE "AVAILABLE"

\* The status of a proxy nobody holds.
FreeStatus(p, on, ok) ==
  IF p \notin on THEN "DISABLED" ELSE IF p \in ok THEN "AVAILABLE" ELSE "COOLDOWN"

\* Status after an administrative or health update: an owner keeps its claim.
Refreshed(p, on, ok) ==
  IF status[p] \in OwnedStates THEN status[p] ELSE FreeStatus(p, on, ok)

\* selectAvailableProxy.
Selectable(p) == status[p] = "AVAILABLE" /\ p \in enabled /\ p \in healthy

\* countExecutionSlots.
LiveAllocations == { a \in AllocationIds : Live(a) }

PendingReservations == { r \in ReservationIds : Reserved(r) }

OccupiedSlots == Cardinality(LiveAllocations) + Cardinality(PendingReservations)

Init ==
  /\ status = [p \in Proxies |-> "ABSENT"]
  /\ enabled = {}
  /\ healthy = {}
  /\ endpoint \in [Proxies -> Endpoints]
  /\ allocation = [a \in AllocationIds |-> NoRow]
  /\ reservation = [r \in ReservationIds |-> NoRow]
  /\ jobState = [j \in Jobs |-> "ABSENT"]

------------------------------------------------------------------------------
(* The pool.                                                               *)

\* Mutant: the check for a changed endpoint of an owned proxy is missing.
SyncFromConfig_MovesOwned(listed, on, ep) ==
  LET stored == { p \in Proxies : status[p] # "ABSENT" }
  IN  /\ status' = [p \in Proxies |->
                      IF p \in listed \union stored
                        THEN Refreshed(p, on, healthy) ELSE "ABSENT"]
      /\ enabled' = on
      /\ endpoint' = [p \in Proxies |-> IF p \in listed THEN ep[p] ELSE endpoint[p]]
      /\ UNCHANGED << healthy, allocation, reservation, jobState >>

\* syncFromConfig: all definitions are upserted and the rows the
\* configuration no longer names are disabled, or, when it moves an owned
\* proxy to another endpoint, nothing happens.
SyncFromConfig(listed, on, ep) ==
  LET stored == { p \in Proxies : status[p] # "ABSENT" }
  IN  /\ \A p \in listed \intersect stored :
           status[p] \in OwnedStates => ep[p] = endpoint[p]
      /\ status' = [p \in Proxies |->
                      IF p \in listed \union stored
                        THEN Refreshed(p, on, healthy) ELSE "ABSENT"]
      /\ enabled' = on
      /\ endpoint' = [p \in Proxies |-> IF p \in listed THEN ep[p] ELSE endpoint[p]]
      /\ UNCHANGED << healthy, allocation, reservation, jobState >>

RecordHealth(p, ok) ==
  /\ status[p] # "ABSENT"
  /\ healthy' = IF ok THEN healthy \union {p} ELSE healthy \ {p}
  /\ status' = [status EXCEPT ![p] = Refreshed(p, enabled, healthy')]
  /\ UNCHANGED << enabled, endpoint, allocation, reservation, jobState >>

RecordHealthSuccess(p) == RecordHealth(p, TRUE)

RecordHealthFailure(p) == RecordHealth(p, FALSE)

SetEnabled(p, on) ==
  /\ status[p] # "ABSENT"
  /\ enabled' = IF on THEN enabled \union {p} ELSE enabled \ {p}
  /\ status' = [status EXCEPT ![p] = Refreshed(p, enabled', healthy)]
  /\ UNCHANGED << healthy, endpoint, allocation, reservation, jobState >>

EnableProxy(p) == SetEnabled(p, TRUE)

DisableProxy(p) == SetEnabled(p, FALSE)

------------------------------------------------------------------------------
(* The allocator.                                                          *)

\* acquireForJob; the call that finds a live allocation changes nothing.
AcquireForJob(j, p, a) ==
  /\ JobIsLive(j)
  /\ LiveFor(j) = {}
  /\ Selectable(p)
  /\ allocation[a] = NoRow
  /\ status' = [status EXCEPT ![p] = "RESERVED"]
  /\ allocation' = [allocation EXCEPT ![a] =
       [status |-> "RESERVED", job |-> j, proxy |-> p, ip |-> endpoint[p]]]
  /\ UNCHANGED << enabled, healthy, endpoint, reservation, jobState >>

\* Both tables move to the same state; each UPDATE has its own WHERE clause.
MoveAllocation(a, from, to) ==
  LET p == allocation[a].proxy IN
  /\ allocation' =
       [allocation EXCEPT ![a].status = IF @ \in from THEN to ELSE @]
  /\ status' = [status EXCEPT ![p] = IF @ \in from THEN to ELSE @]
  /\ UNCHANGED << enabled, healthy, endpoint, reservation, jobState >>

ActivateForJob(j) ==
  \E a \in LiveFor(j) :
    /\ allocation[a].status # "ACTIVE"
    /\ MoveAllocation(a, { "RESERVED", "RETRY_RESERVED" }, "ACTIVE")

\* Mutant: the allocation is given the name of the job's state.
MarkRetryReserved_JobState(j) ==
  \E a \in LiveFor(j) :
    MoveAllocation(a, { "RESERVED", "ACTIVE", "RETRY_RESERVED" }, "RETRY_PENDING")

MarkRetryReserved(j) ==
  \E a \in LiveFor(j) :
    MoveAllocation(a, { "RESERVED", "ACTIVE", "RETRY_RESERVED" }, "RETRY_RESERVED")

ReleaseReasons ==
  { "JOB_COMPLETED", "JOB_CANCELLED", "JOB_EXPIRED", "FAILED_FINAL", "ADMIN_RELEASE" }

\* Mutant: the reason is believed without a look at the job.
ReleaseAllowed_AnyState(j, reason) == TRUE

\* assertReleaseAllowed.
ReleaseAllowed(j, reason) ==
  CASE reason = "JOB_COMPLETED" -> jobState[j] = "COMPLETED"
    [] reason = "JOB_CANCELLED" -> jobState[j] = "CANCELLED"
    [] reason = "FAILED_FINAL"  -> jobState[j] = "FAILED_FINAL"
    [] OTHER                    -> TRUE

\* releaseForJob; the call that finds no live allocation changes nothing.
ReleaseForJob(j, reason) ==
  /\ jobState[j] # "ABSENT"
  /\ ReleaseAllowed(j, reason)
  /\ \E a \in LiveFor(j) :
       LET p == allocation[a].proxy IN
       /\ allocation' = [allocation EXCEPT ![a].status = "RELEASED"]
       /\ status' = [status EXCEPT ![p] =
            IF @ \in OwnedStates THEN FreeStatus(p, enabled, healthy) ELSE @]
  /\ UNCHANGED << enabled, healthy, endpoint, reservation, jobState >>

------------------------------------------------------------------------------
(* The intake reservations.                                                *)

\* Mutant: the capacity comparison is off by one.
ReserveOne_OneTooMany(p, r) ==
  /\ OccupiedSlots <= MaxConcurrent
  /\ Selectable(p)
  /\ reservation[r] = NoRow
  /\ status' = [status EXCEPT ![p] = "RESERVED"]
  /\ reservation' = [reservation EXCEPT ![r] =
       [status |-> "RESERVED", proxy |-> p, ip |-> endpoint[p]]]
  /\ UNCHANGED << enabled, healthy, endpoint, allocation, jobState >>

\* Mutant: selectAvailableProxy does not look at the status.
ReserveOne_AnyStatus(p, r) ==
  /\ OccupiedSlots < MaxConcurrent
  /\ p \in enabled /\ p \in healthy
  /\ reservation[r] = NoRow
  /\ status' = [status EXCEPT ![p] = "RESERVED"]
  /\ reservation' = [reservation EXCEPT ![r] =
       [status |-> "RESERVED", proxy |-> p, ip |-> endpoint[p]]]
  /\ UNCHANGED << enabled, healthy, endpoint, allocation, jobState >>

ReserveOne(p, r) ==
  /\ OccupiedSlots < MaxConcurrent
  /\ Selectable(p)
  /\ reservation[r] = NoRow
  /\ status' = [status EXCEPT ![p] = "RESERVED"]
  /\ reservation' = [reservation EXCEPT ![r] =
       [status |-> "RESERVED", proxy |-> p, ip |-> endpoint[p]]]
  /\ UNCHANGED << enabled, healthy, endpoint, allocation, jobState >>

\* Mutant: the job's live allocation is not looked up.
BindToJob_SecondIp(r, j, a) ==
  /\ Reserved(r)
  /\ JobIsLive(j)
  /\ allocation[a] = NoRow
  /\ allocation' = [allocation EXCEPT ![a] =
       [status |-> "RESERVED", job |-> j,
        proxy |-> reservation[r].proxy, ip |-> reservation[r].ip]]
  /\ reservation' = [reservation EXCEPT ![r].status = "CONSUMED"]
  /\ UNCHANGED << proxyVars, jobState >>

\* bindToJob: the proxy row keeps RESERVED, its claim moves to the allocation.
BindToJob(r, j, a) ==
  /\ Reserved(r)
  /\ JobIsLive(j)
  /\ LiveFor(j) = {}
  /\ allocation[a] = NoRow
  /\ allocation' = [allocation EXCEPT ![a] =
       [status |-> "RESERVED", job |-> j,
        proxy |-> reservation[r].proxy, ip |-> reservation[r].ip]]
  /\ reservation' = [reservation EXCEPT ![r].status = "CONSUMED"]
  /\ UNCHANGED << proxyVars, jobState >>

\* Mutant: a consumed reservation is released like a pending one, so the proxy
\* of the job that consumed it is freed.
ReleaseReservation_Consumed(r) ==
  LET p == reservation[r].proxy IN
  /\ reservation[r] # NoRow
  /\ reservation' = [reservation EXCEPT ![r].status =
       IF @ = "RESERVED" THEN "RELEASED" ELSE @]
  /\ status' = [status EXCEPT ![p] =
       IF @ = "RESERVED" THEN FreeStatus(p, enabled, healthy) ELSE @]
  /\ UNCHANGED << enabled, healthy, endpoint, allocation, jobState >>

\* release: refused for a consumed reservation, nothing to do for a released one.
ReleaseReservation(r) ==
  LET p == reservation[r].proxy IN
  /\ Reserved(r)
  /\ reservation' = [reservation EXCEPT ![r].status = "RELEASED"]
  /\ status' = [status EXCEPT ![p] =
       IF @ = "RESERVED" THEN FreeStatus(p, enabled, healthy) ELSE @]
  /\ UNCHANGED << enabled, healthy, endpoint, allocation, jobState >>

------------------------------------------------------------------------------
(* The job store, as far as these tables look at it.                       *)

CreateJob(j) ==
  /\ jobState[j] = "ABSENT"
  /\ jobState' = [jobState EXCEPT ![j] = "PENDING"]
  /\ UNCHANGED << proxyVars, allocation, reservation >>

TransitionJob(j, to) ==
  /\ CanTransition(jobState[j], to)
  /\ jobState' = [jobState EXCEPT ![j] = to]
  /\ UNCHANGED << proxyVars, allocation, reservation >>

------------------------------------------------------------------------------
\* What the running process calls: allocations are made by binding an intake
\* reservation and released with the reason of the terminal state.
RuntimeNext ==
  \/ \E listed \in SUBSET Proxies :
       \E on \in SUBSET listed, ep \in [listed -> Endpoints] : SyncFromConfig(listed, on, ep)
  \/ \E p \in Proxies : RecordHealthSuccess(p) \/ RecordHealthFailure(p)
  \/ \E j \in Jobs :
       \/ ActivateForJob(j)
       \/ MarkRetryReserved(j)
       \/ \E reason \in { "JOB_COMPLETED", "FAILED_FINAL" } : ReleaseForJob(j, reason)
       \/ CreateJob(j)
       \/ \E to \in JobStates : TransitionJob(j, to)
  \/ \E p \in Proxies, r \in ReservationIds : ReserveOne(p, r)
  \/ \E r \in ReservationIds, j \in Jobs, a \in AllocationIds : BindToJob(r, j, a)
  \/ \E r \in ReservationIds : ReleaseReservation(r)

\* What the classes offer besides: direct acquisition, the other release
\* reasons and the administrative switches.
Next ==
  \/ RuntimeNext
  \/ \E j \in Jobs, p \in Proxies, a \in AllocationIds : AcquireForJob(j, p, a)
  \/ \E j \in Jobs, reason \in ReleaseReasons : ReleaseForJob(j, reason)
  \/ \E p \in Proxies : EnableProxy(p) \/ DisableProxy(p)

Spec == Init /\ [][Next]_vars

RuntimeSpec == Init /\ [][RuntimeNext]_vars

------------------------------------------------------------------------------
(* Properties.                                                             *)

\* A job owns at most one address at a time, however often it is bound,
\* reacquired, retried and released (getLiveForJob before every insert).
OneIpPerJob ==
  \A a, b \in AllocationIds :
    Live(a) /\ Live(b) /\ allocation[a].job = allocation[b].job => a = b

\* No address serves two owners.  Each table has a unique index of its own;
\* that a reservation and an allocation never share a proxy is left to the
\* order of the operations alone.
OneHolderPerProxy ==
  /\ \A a, b \in AllocationIds :
       Live(a) /\ Live(b) /\ allocation[a].proxy = allocation[b].proxy => a = b
  /\ \A r, s \in ReservationIds :
       Reserved(r) /\ Reserved(s) /\ reservation[r].proxy = reservation[s].proxy => r = s
  /\ \A a \in AllocationIds, r \in ReservationIds :
       Live(a) /\ Reserved(r) => allocation[a].proxy # reservation[r].proxy

\* The proxy row says what its owner's row says, and a proxy in an owned
\* state has an owner: no release, retry or health update, in any order, can
\* strand an address or offer an owned one.
StatusAgreement ==
  /\ \A a \in AllocationIds : Live(a) => status[allocation[a].proxy] = allocation[a].status
  /\ \A r \in ReservationIds : Reserved(r) => status[reservation[r].proxy] = "RESERVED"
  /\ \A p \in Proxies : status[p] \in OwnedStates =>
       \/ \E a \in AllocationIds : Live(a) /\ allocation[a].proxy = p
       \/ \E r \in ReservationIds : Reserved(r) /\ reservation[r].proxy = p

\* The address a job or a reservation recorded is the one its proxy has:
\* reconfiguration never moves a proxy from under its owner.
EndpointAgreement ==
  /\ \A a \in AllocationIds : Live(a) => endpoint[allocation[a].proxy] = allocation[a].ip
  /\ \A r \in ReservationIds : Reserved(r) => endpoint[reservation[r].proxy] = reservation[r].ip

\* What selectAvailableProxy finds by its status is enabled and healthy, also
\* when that changed while the proxy was owned.
AvailableIsUsable ==
  \A p \in Proxies : status[p] = "AVAILABLE" => p \in enabled /\ p \in healthy

\* Allocations and pending reservations together stay within maxConcurrent.
SlotsWithinCapacity == OccupiedSlots <= MaxConcurrent

\* Until its job is terminal, a job keeps the very address it was given.
KeepsWhatItHolds(a) ==
  /\ Live(a)'
  /\ allocation'[a].job = allocation[a].job
  /\ allocation'[a].proxy = allocation[a].proxy
  /\ allocation'[a].ip = allocation[a].ip

HeldUntilTerminal ==
  [][\A a \in AllocationIds :
       Live(a) /\ JobIsLive(allocation[a].job) => KeepsWhatItHolds(a)]_vars

\* The refinement: a proxy's holder is the reservation or the job of the
\* one live row that names it.
HolderOf(p) ==
  IF \E r \in ReservationIds : Reserved(r) /\ reservation[r].proxy = p
    THEN CHOOSE r \in ReservationIds : Reserved(r) /\ reservation[r].proxy = p
  ELSE IF \E a \in AllocationIds : Live(a) /\ allocation[a].proxy = p
    THEN allocation[CHOOSE a \in AllocationIds : Live(a) /\ allocation[a].proxy = p].job
  ELSE NoRow

Exclusive == INSTANCE ExclusiveIp
               WITH Reservations <- ReservationIds, Nobody <- NoRow,
                    holder <- [p \in Proxies |-> HolderOf(p)]

\* The three tables implement exclusive ownership with a gapless hand-over
\* from the intake reservation to the job.
ExclusiveOwnership == Exclusive!Spec
==============================================================================
