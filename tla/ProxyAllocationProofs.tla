------------------------ MODULE ProxyAllocationProofs ------------------------
(***************************************************************************)
(* The ownership invariants of ProxyAllocation hold in every reachable     *)
(* state, for any number of proxies, jobs, rows and endpoints.             *)
(*                                                                         *)
(* None of them is inductive alone: a proxy is safely handed out because   *)
(* it is AVAILABLE, and that AVAILABLE excludes an owner is what the       *)
(* agreement of the proxy row with the owner's row says.  Together they    *)
(* are.                                                                    *)
(***************************************************************************)
EXTENDS ProxyAllocation, FiniteSetTheorems, TLAPS

Ownership == OneIpPerJob /\ OneHolderPerProxy /\ StatusAgreement

Inv == TypeOK /\ Ownership /\ EndpointAgreement /\ AvailableIsUsable

LEMMA InitInv == Init => Inv
  BY NoRowAssumption
  DEF Init, Inv, TypeOK, Ownership, OneIpPerJob, OneHolderPerProxy, StatusAgreement,
      EndpointAgreement, AvailableIsUsable, Live, Reserved, OwnedStates, ProxyStates

\* What an update of the pool leaves alone: owners, and the status of owned proxies.
LEMMA PoolStep ==
  ASSUME Inv, NEW on \in SUBSET Proxies, NEW ok \in SUBSET Proxies,
         UNCHANGED << allocation, reservation, jobState >>,
         enabled' = on, healthy' = ok,
         status' \in [Proxies -> ProxyStates \union { "ABSENT" }],
         endpoint' \in [Proxies -> Endpoints],
         \A p \in Proxies : status[p] \in OwnedStates => endpoint'[p] = endpoint[p],
         \A p \in Proxies : \/ status'[p] = Refreshed(p, on, ok)
                            \/ status[p] = "ABSENT" /\ status'[p] = "ABSENT"
                            \/ /\ status'[p] = status[p]
                               /\ p \in on <=> p \in enabled
                               /\ p \in ok <=> p \in healthy
  PROVE  Inv'
<1>1. TypeOK'
  BY DEF Inv, TypeOK
<1>2. \A p \in Proxies : status[p] \in OwnedStates => status'[p] = status[p]
  BY DEF Refreshed
<1>3. \A p \in Proxies : status'[p] \in OwnedStates => status[p] \in OwnedStates
  BY DEF Refreshed, FreeStatus, OwnedStates
<1>4. OneIpPerJob' /\ OneHolderPerProxy'
  BY DEF Inv, Ownership, OneIpPerJob, OneHolderPerProxy, Live, Reserved
<1>5. StatusAgreement'
  <2>1. \A a \in AllocationIds : Live(a) =>
          allocation[a].proxy \in Proxies /\ status[allocation[a].proxy] \in OwnedStates
    BY DEF Inv, TypeOK, Ownership, StatusAgreement, Live, AllocationRow,
           LiveAllocationStates, OwnedStates
  <2>2. \A r \in ReservationIds : Reserved(r) =>
          reservation[r].proxy \in Proxies /\ status[reservation[r].proxy] \in OwnedStates
    BY DEF Inv, TypeOK, Ownership, StatusAgreement, Reserved, ReservationRow, OwnedStates
  <2> QED BY <1>2, <1>3, <2>1, <2>2 DEF Inv, Ownership, StatusAgreement, Live, Reserved
<1>6. EndpointAgreement'
  <2>1. \A a \in AllocationIds : Live(a) =>
          allocation[a].proxy \in Proxies /\ status[allocation[a].proxy] \in OwnedStates
    BY DEF Inv, TypeOK, Ownership, StatusAgreement, Live, AllocationRow,
           LiveAllocationStates, OwnedStates
  <2>2. \A r \in ReservationIds : Reserved(r) =>
          reservation[r].proxy \in Proxies /\ status[reservation[r].proxy] \in OwnedStates
    BY DEF Inv, TypeOK, Ownership, StatusAgreement, Reserved, ReservationRow, OwnedStates
  <2> QED BY <2>1, <2>2 DEF Inv, EndpointAgreement, Live, Reserved
<1>7. AvailableIsUsable'
  BY DEF Inv, AvailableIsUsable, Refreshed, FreeStatus, OwnedStates
<1> QED BY <1>1, <1>4, <1>5, <1>6, <1>7 DEF Inv, Ownership

LEMMA SyncFromConfigInv ==
  ASSUME Inv, NEW listed \in SUBSET Proxies, NEW on \in SUBSET listed,
         NEW ep \in [listed -> Endpoints], SyncFromConfig(listed, on, ep)
  PROVE  Inv'
<1>1. /\ status' \in [Proxies -> ProxyStates \union { "ABSENT" }]
      /\ endpoint' \in [Proxies -> Endpoints]
  BY DEF Inv, TypeOK, SyncFromConfig, Refreshed, FreeStatus, ProxyStates
<1>2. \A p \in Proxies : status[p] \in OwnedStates => endpoint'[p] = endpoint[p]
  BY DEF Inv, TypeOK, SyncFromConfig, OwnedStates
<1>3. \A p \in Proxies : \/ status'[p] = Refreshed(p, on, healthy)
                         \/ status[p] = "ABSENT" /\ status'[p] = "ABSENT"
  BY DEF SyncFromConfig
<1>4. /\ UNCHANGED << allocation, reservation, jobState >>
      /\ enabled' = on /\ healthy' = healthy /\ healthy \in SUBSET Proxies
  BY DEF SyncFromConfig, Inv, TypeOK
<1> QED BY <1>1, <1>2, <1>3, <1>4, PoolStep

LEMMA RecordHealthInv ==
  ASSUME Inv, NEW p \in Proxies, NEW ok \in BOOLEAN, RecordHealth(p, ok)
  PROVE  Inv'
<1>1. /\ status' \in [Proxies -> ProxyStates \union { "ABSENT" }]
      /\ healthy' \in SUBSET Proxies /\ enabled \in SUBSET Proxies
      /\ endpoint' \in [Proxies -> Endpoints]
  BY DEF Inv, TypeOK, RecordHealth, Refreshed, FreeStatus, ProxyStates
<1>2. \A q \in Proxies : \/ status'[q] = Refreshed(q, enabled, healthy')
                         \/ /\ status'[q] = status[q]
                            /\ q \in healthy' <=> q \in healthy
  BY DEF Inv, TypeOK, RecordHealth
<1>3. /\ UNCHANGED << allocation, reservation, jobState >>
      /\ enabled' = enabled /\ endpoint' = endpoint
  BY DEF RecordHealth
<1> QED BY <1>1, <1>2, <1>3, PoolStep

LEMMA SetEnabledInv ==
  ASSUME Inv, NEW p \in Proxies, NEW on \in BOOLEAN, SetEnabled(p, on)
  PROVE  Inv'
<1>1. /\ status' \in [Proxies -> ProxyStates \union { "ABSENT" }]
      /\ enabled' \in SUBSET Proxies /\ healthy \in SUBSET Proxies
      /\ endpoint' \in [Proxies -> Endpoints]
  BY DEF Inv, TypeOK, SetEnabled, Refreshed, FreeStatus, ProxyStates
<1>2. \A q \in Proxies : \/ status'[q] = Refreshed(q, enabled', healthy)
                         \/ /\ status'[q] = status[q]
                            /\ q \in enabled' <=> q \in enabled
  BY DEF Inv, TypeOK, SetEnabled
<1>3. /\ UNCHANGED << allocation, reservation, jobState >>
      /\ healthy' = healthy /\ endpoint' = endpoint
  BY DEF SetEnabled
<1> QED BY <1>1, <1>2, <1>3, PoolStep

\* A proxy that can be selected has no owner.
LEMMA SelectableIsFree ==
  ASSUME Inv, NEW p \in Proxies, Selectable(p)
  PROVE  /\ \A a \in AllocationIds : Live(a) => allocation[a].proxy # p
         /\ \A r \in ReservationIds : Reserved(r) => reservation[r].proxy # p
  BY DEF Inv, TypeOK, Ownership, StatusAgreement, Selectable, Live, LiveAllocationStates

AcquireEffect(j, p, a) ==
  /\ TypeOK' /\ Selectable(p) /\ LiveFor(j) = {} /\ ~Live(a)
  /\ UNCHANGED << enabled, healthy, endpoint, reservation >>
  /\ \A b \in AllocationIds \ {a} :
       allocation'[b] = allocation[b] /\ (Live(b)' <=> Live(b))
  /\ allocation'[a] = [status |-> "RESERVED", job |-> j, proxy |-> p, ip |-> endpoint[p]]
  /\ Live(a)'
  /\ \A r \in ReservationIds : Reserved(r)' <=> Reserved(r)
  /\ status'[p] = "RESERVED"
  /\ \A q \in Proxies \ {p} : status'[q] = status[q]

LEMMA AcquireForJobHasEffect ==
  ASSUME Inv, NEW j \in Jobs, NEW p \in Proxies, NEW a \in AllocationIds,
         AcquireForJob(j, p, a)
  PROVE  AcquireEffect(j, p, a)
<1> DEFINE row == [status |-> "RESERVED", job |-> j, proxy |-> p, ip |-> endpoint[p]]
<1>1. row \in AllocationRow
  BY DEF Inv, TypeOK, AllocationRow, AllocationStates, LiveAllocationStates
<1>2. TypeOK'
  BY <1>1 DEF Inv, TypeOK, AcquireForJob, ProxyStates, OwnedStates
<1>3. /\ allocation' = [allocation EXCEPT ![a] = row]
      /\ status' = [status EXCEPT ![p] = "RESERVED"]
      /\ UNCHANGED << enabled, healthy, endpoint, reservation >>
      /\ Selectable(p) /\ LiveFor(j) = {} /\ ~Live(a)
  BY DEF AcquireForJob, Live
<1> QED BY <1>1, <1>2, <1>3, NoRowAssumption
        DEF AcquireEffect, Inv, TypeOK, Live, Reserved, LiveAllocationStates

LEMMA AcquireForJobInv ==
  ASSUME Inv, NEW j \in Jobs, NEW p \in Proxies, NEW a \in AllocationIds,
         AcquireForJob(j, p, a)
  PROVE  Inv'
<1>0. AcquireEffect(j, p, a)
  BY AcquireForJobHasEffect
<1>1. OneIpPerJob'
  BY <1>0 DEF AcquireEffect, Inv, Ownership, OneIpPerJob, LiveFor
<1>2. OneHolderPerProxy'
  BY <1>0, SelectableIsFree DEF AcquireEffect, Inv, Ownership, OneHolderPerProxy
<1>3. StatusAgreement'
  BY <1>0, SelectableIsFree
  DEF AcquireEffect, Inv, TypeOK, Ownership, StatusAgreement, AllocationRow, ReservationRow, Live, Reserved
<1>4. EndpointAgreement' /\ AvailableIsUsable'
  BY <1>0 DEF AcquireEffect, Inv, TypeOK, EndpointAgreement, AvailableIsUsable
<1> QED BY <1>0, <1>1, <1>2, <1>3, <1>4 DEF AcquireEffect, Inv, Ownership

\* A live allocation owns its proxy and no other row does.
LEMMA LiveOwnsProxy ==
  ASSUME Inv, NEW a \in AllocationIds, Live(a)
  PROVE  /\ allocation[a] \in AllocationRow
         /\ status[allocation[a].proxy] = allocation[a].status
         /\ \A b \in AllocationIds :
              Live(b) /\ b # a => allocation[b].proxy # allocation[a].proxy
         /\ \A r \in ReservationIds :
              Reserved(r) => reservation[r].proxy # allocation[a].proxy
  BY DEF Inv, TypeOK, Ownership, OneHolderPerProxy, StatusAgreement, Live

LEMMA MoveAllocationInv ==
  ASSUME Inv, NEW a \in AllocationIds, Live(a),
         NEW from, NEW to \in LiveAllocationStates, MoveAllocation(a, from, to)
  PROVE  Inv'
<1> DEFINE p == allocation[a].proxy
<1> DEFINE next == IF allocation[a].status \in from THEN to ELSE allocation[a].status
<1>1. /\ allocation' = [allocation EXCEPT ![a].status = next]
      /\ status' = [status EXCEPT ![p] = next]
      /\ UNCHANGED << enabled, healthy, endpoint, reservation, jobState >>
      /\ next \in LiveAllocationStates /\ p \in Proxies
  BY LiveOwnsProxy DEF MoveAllocation, Inv, TypeOK, AllocationRow, Live
<1> HIDE DEF next
<1>2. TypeOK'
  BY <1>1, LiveOwnsProxy DEF Inv, TypeOK, AllocationRow, AllocationStates,
     LiveAllocationStates, ProxyStates, OwnedStates
<1>3. /\ \A b \in AllocationIds : b # a => allocation'[b] = allocation[b]
      /\ \A b \in AllocationIds : Live(b)' <=> Live(b)
      /\ allocation'[a].status = next /\ allocation'[a].job = allocation[a].job
      /\ allocation'[a].proxy = p /\ allocation'[a].ip = allocation[a].ip
      /\ \A r \in ReservationIds : Reserved(r)' <=> Reserved(r)
  BY <1>1, LiveOwnsProxy, NoRowAssumption
  DEF Inv, TypeOK, Live, Reserved, AllocationRow, AllocationStates, LiveAllocationStates
<1>4. status'[p] = next /\ \A q \in Proxies : q # p => status'[q] = status[q]
  BY <1>1 DEF Inv, TypeOK
<1>5. OneIpPerJob' /\ OneHolderPerProxy'
  BY <1>1, <1>3 DEF Inv, Ownership, OneIpPerJob, OneHolderPerProxy
<1>6. StatusAgreement'
  BY <1>1, <1>3, <1>4, LiveOwnsProxy
  DEF Inv, TypeOK, Ownership, StatusAgreement, AllocationRow, ReservationRow, Live, Reserved
<1>7. EndpointAgreement' /\ AvailableIsUsable'
  BY <1>1, <1>3, <1>4 DEF Inv, TypeOK, EndpointAgreement, AvailableIsUsable, LiveAllocationStates
<1> QED BY <1>2, <1>5, <1>6, <1>7 DEF Inv, Ownership

LEMMA ReleaseForJobInv ==
  ASSUME Inv, NEW j \in Jobs, NEW reason, ReleaseForJob(j, reason)
  PROVE  Inv'
<1>1. PICK a \in LiveFor(j) :
        /\ allocation' = [allocation EXCEPT ![a].status = "RELEASED"]
        /\ status' = [status EXCEPT ![allocation[a].proxy] =
             IF @ \in OwnedStates THEN FreeStatus(allocation[a].proxy, enabled, healthy) ELSE @]
  BY DEF ReleaseForJob
<1> DEFINE p == allocation[a].proxy
<1>2. a \in AllocationIds /\ Live(a) /\ allocation[a] \in AllocationRow /\ p \in Proxies
  BY LiveOwnsProxy DEF LiveFor, AllocationRow
<1>3. /\ status' = [status EXCEPT ![p] = FreeStatus(p, enabled, healthy)]
      /\ UNCHANGED << enabled, healthy, endpoint, reservation, jobState >>
  BY <1>1, <1>2, LiveOwnsProxy
  DEF ReleaseForJob, Inv, TypeOK, Live, LiveAllocationStates, OwnedStates
<1>4. TypeOK'
  BY <1>1, <1>2, <1>3 DEF Inv, TypeOK, AllocationRow, AllocationStates, ProxyStates, FreeStatus
<1>5. /\ \A b \in AllocationIds : b # a => allocation'[b] = allocation[b]
      /\ \A b \in AllocationIds : Live(b)' <=> Live(b) /\ b # a
      /\ \A r \in ReservationIds : Reserved(r)' <=> Reserved(r)
  BY <1>1, <1>2, <1>3, NoRowAssumption
  DEF Inv, TypeOK, Live, Reserved, AllocationRow, LiveAllocationStates
<1>6. /\ status'[p] = FreeStatus(p, enabled, healthy)
      /\ \A q \in Proxies : q # p => status'[q] = status[q]
  BY <1>2, <1>3 DEF Inv, TypeOK
<1>7. OneIpPerJob' /\ OneHolderPerProxy'
  BY <1>3, <1>5 DEF Inv, Ownership, OneIpPerJob, OneHolderPerProxy
<1>8. StatusAgreement'
  <2>1. \A b \in AllocationIds : Live(b)' => status'[allocation'[b].proxy] = allocation'[b].status
    BY <1>2, <1>5, <1>6, LiveOwnsProxy
    DEF Inv, TypeOK, Ownership, StatusAgreement, AllocationRow, Live
  <2>2. \A r \in ReservationIds : Reserved(r)' => status'[reservation'[r].proxy] = "RESERVED"
    BY <1>2, <1>3, <1>5, <1>6, LiveOwnsProxy
    DEF Inv, TypeOK, Ownership, StatusAgreement, ReservationRow, Reserved
  <2>3. ASSUME NEW q \in Proxies, status'[q] \in OwnedStates
        PROVE  \/ \E b \in AllocationIds : Live(b)' /\ allocation'[b].proxy = q
               \/ \E r \in ReservationIds : Reserved(r)' /\ reservation'[r].proxy = q
    <3>1. q # p /\ status[q] \in OwnedStates
      BY <1>6, <2>3 DEF FreeStatus, OwnedStates
    <3> QED BY <3>1, <1>3, <1>5 DEF Inv, Ownership, StatusAgreement
  <2> QED BY <2>1, <2>2, <2>3 DEF StatusAgreement
<1>9. EndpointAgreement' /\ AvailableIsUsable'
  BY <1>3, <1>5, <1>6 DEF Inv, EndpointAgreement, AvailableIsUsable, FreeStatus
<1> QED BY <1>4, <1>7, <1>8, <1>9 DEF Inv, Ownership

ReserveEffect(p, r) ==
  /\ TypeOK' /\ Selectable(p) /\ ~Reserved(r)
  /\ UNCHANGED << enabled, healthy, endpoint, allocation >>
  /\ \A s \in ReservationIds \ {r} :
       reservation'[s] = reservation[s] /\ (Reserved(s)' <=> Reserved(s))
  /\ reservation'[r] = [status |-> "RESERVED", proxy |-> p, ip |-> endpoint[p]]
  /\ Reserved(r)'
  /\ \A a \in AllocationIds : Live(a)' <=> Live(a)
  /\ status'[p] = "RESERVED"
  /\ \A q \in Proxies \ {p} : status'[q] = status[q]

LEMMA ReserveOneHasEffect ==
  ASSUME Inv, NEW p \in Proxies, NEW r \in ReservationIds, ReserveOne(p, r)
  PROVE  ReserveEffect(p, r)
<1> DEFINE row == [status |-> "RESERVED", proxy |-> p, ip |-> endpoint[p]]
<1>1. row \in ReservationRow
  BY DEF Inv, TypeOK, ReservationRow, ReservationStates
<1>2. TypeOK'
  BY <1>1 DEF Inv, TypeOK, ReserveOne, ProxyStates, OwnedStates
<1>3. /\ reservation' = [reservation EXCEPT ![r] = row]
      /\ status' = [status EXCEPT ![p] = "RESERVED"]
      /\ UNCHANGED << enabled, healthy, endpoint, allocation >>
      /\ Selectable(p) /\ ~Reserved(r)
  BY DEF ReserveOne, Reserved
<1> QED BY <1>1, <1>2, <1>3, NoRowAssumption DEF ReserveEffect, Inv, TypeOK, Live, Reserved

LEMMA ReserveOneInv ==
  ASSUME Inv, NEW p \in Proxies, NEW r \in ReservationIds, ReserveOne(p, r)
  PROVE  Inv'
<1>0. ReserveEffect(p, r)
  BY ReserveOneHasEffect
<1>1. OneIpPerJob' /\ OneHolderPerProxy'
  BY <1>0, SelectableIsFree DEF ReserveEffect, Inv, Ownership, OneIpPerJob, OneHolderPerProxy
<1>2. StatusAgreement'
  BY <1>0, SelectableIsFree
  DEF ReserveEffect, Inv, TypeOK, Ownership, StatusAgreement, AllocationRow, ReservationRow, Live, Reserved
<1>3. EndpointAgreement' /\ AvailableIsUsable'
  BY <1>0 DEF ReserveEffect, Inv, TypeOK, EndpointAgreement, AvailableIsUsable
<1> QED BY <1>0, <1>1, <1>2, <1>3 DEF ReserveEffect, Inv, Ownership

BindEffect(r, j, a) ==
  /\ TypeOK' /\ Reserved(r) /\ reservation[r] \in ReservationRow
  /\ LiveFor(j) = {} /\ ~Live(a)
  /\ UNCHANGED << status, enabled, healthy, endpoint, jobState >>
  /\ \A b \in AllocationIds \ {a} :
       allocation'[b] = allocation[b] /\ (Live(b)' <=> Live(b))
  /\ allocation'[a] = [status |-> "RESERVED", job |-> j,
                       proxy |-> reservation[r].proxy, ip |-> reservation[r].ip]
  /\ Live(a)'
  /\ \A s \in ReservationIds \ {r} : reservation'[s] = reservation[s]
  /\ \A s \in ReservationIds : Reserved(s)' <=> Reserved(s) /\ s # r

LEMMA BindToJobHasEffect ==
  ASSUME Inv, NEW r \in ReservationIds, NEW j \in Jobs, NEW a \in AllocationIds,
         BindToJob(r, j, a)
  PROVE  BindEffect(r, j, a)
<1> DEFINE row == [status |-> "RESERVED", job |-> j,
                   proxy |-> reservation[r].proxy, ip |-> reservation[r].ip]
<1>1. Reserved(r) /\ reservation[r] \in ReservationRow /\ row \in AllocationRow
  BY DEF BindToJob, Inv, TypeOK, Reserved, ReservationRow, AllocationRow,
     AllocationStates, LiveAllocationStates
<1>2. /\ allocation' = [allocation EXCEPT ![a] = row]
      /\ reservation' = [reservation EXCEPT ![r].status = "CONSUMED"]
      /\ UNCHANGED << status, enabled, healthy, endpoint, jobState >>
      /\ LiveFor(j) = {} /\ ~Live(a)
  BY DEF BindToJob, proxyVars, Live
<1>3. TypeOK'
  BY <1>1, <1>2 DEF Inv, TypeOK, ReservationRow, ReservationStates
<1> QED BY <1>1, <1>2, <1>3, NoRowAssumption
        DEF BindEffect, Inv, TypeOK, Live, Reserved, LiveAllocationStates, ReservationRow

LEMMA BindToJobInv ==
  ASSUME Inv, NEW r \in ReservationIds, NEW j \in Jobs, NEW a \in AllocationIds,
         BindToJob(r, j, a)
  PROVE  Inv'
<1>0. BindEffect(r, j, a)
  BY BindToJobHasEffect
<1>1. OneIpPerJob'
  BY <1>0 DEF BindEffect, Inv, Ownership, OneIpPerJob, LiveFor
<1>2. OneHolderPerProxy'
  BY <1>0 DEF BindEffect, Inv, Ownership, OneHolderPerProxy
<1>3. StatusAgreement'
  BY <1>0 DEF BindEffect, Inv, Ownership, StatusAgreement
<1>4. EndpointAgreement' /\ AvailableIsUsable'
  BY <1>0 DEF BindEffect, Inv, EndpointAgreement, AvailableIsUsable
<1> QED BY <1>0, <1>1, <1>2, <1>3, <1>4 DEF BindEffect, Inv, Ownership

LEMMA ReleaseReservationInv ==
  ASSUME Inv, NEW r \in ReservationIds, ReleaseReservation(r)
  PROVE  Inv'
<1> DEFINE p == reservation[r].proxy
<1>1. Reserved(r) /\ reservation[r] \in ReservationRow /\ p \in Proxies /\ status[p] = "RESERVED"
  BY DEF ReleaseReservation, Inv, TypeOK, Ownership, StatusAgreement, Reserved, ReservationRow
<1>2. /\ reservation' = [reservation EXCEPT ![r].status = "RELEASED"]
      /\ status' = [status EXCEPT ![p] = FreeStatus(p, enabled, healthy)]
      /\ UNCHANGED << enabled, healthy, endpoint, allocation, jobState >>
  BY <1>1 DEF ReleaseReservation, Inv, TypeOK
<1>3. TypeOK'
  BY <1>1, <1>2 DEF Inv, TypeOK, ReservationRow, ReservationStates, ProxyStates, FreeStatus
<1>4. /\ \A s \in ReservationIds : s # r => reservation'[s] = reservation[s]
      /\ \A s \in ReservationIds : Reserved(s)' <=> Reserved(s) /\ s # r
      /\ \A a \in AllocationIds : Live(a)' <=> Live(a)
  BY <1>1, <1>2, NoRowAssumption DEF Inv, TypeOK, Live, Reserved, ReservationRow
<1>5. /\ status'[p] = FreeStatus(p, enabled, healthy)
      /\ \A q \in Proxies : q # p => status'[q] = status[q]
  BY <1>1, <1>2 DEF Inv, TypeOK
<1>6. /\ \A a \in AllocationIds : Live(a) => allocation[a].proxy # p
      /\ \A s \in ReservationIds : Reserved(s) /\ s # r => reservation[s].proxy # p
  BY <1>1 DEF Inv, Ownership, OneHolderPerProxy
<1>7. OneIpPerJob' /\ OneHolderPerProxy'
  BY <1>2, <1>4 DEF Inv, Ownership, OneIpPerJob, OneHolderPerProxy
<1>8. StatusAgreement'
  <2>1. \A a \in AllocationIds : Live(a)' => status'[allocation'[a].proxy] = allocation'[a].status
    BY <1>2, <1>4, <1>5, <1>6 DEF Inv, TypeOK, Ownership, StatusAgreement, AllocationRow, Live
  <2>2. \A s \in ReservationIds : Reserved(s)' => status'[reservation'[s].proxy] = "RESERVED"
    BY <1>4, <1>5, <1>6 DEF Inv, TypeOK, Ownership, StatusAgreement, ReservationRow, Reserved
  <2>3. ASSUME NEW q \in Proxies, status'[q] \in OwnedStates
        PROVE  \/ \E a \in AllocationIds : Live(a)' /\ allocation'[a].proxy = q
               \/ \E s \in ReservationIds : Reserved(s)' /\ reservation'[s].proxy = q
    <3>1. q # p /\ status[q] \in OwnedStates
      BY <1>5, <2>3 DEF FreeStatus, OwnedStates
    <3> QED BY <3>1, <1>2, <1>4 DEF Inv, Ownership, StatusAgreement
  <2> QED BY <2>1, <2>2, <2>3 DEF StatusAgreement
<1>9. EndpointAgreement' /\ AvailableIsUsable'
  BY <1>2, <1>4, <1>5 DEF Inv, EndpointAgreement, AvailableIsUsable, FreeStatus
<1> QED BY <1>3, <1>7, <1>8, <1>9 DEF Inv, Ownership

\* Steps of the job store leave the three tables alone.
LEMMA JobStepInv ==
  ASSUME Inv, UNCHANGED << proxyVars, allocation, reservation >>,
         jobState' \in [Jobs -> JobStates \union { "ABSENT" }]
  PROVE  Inv'
  BY DEF Inv, TypeOK, proxyVars, Ownership, OneIpPerJob, OneHolderPerProxy,
     StatusAgreement, EndpointAgreement, AvailableIsUsable, Live, Reserved

LEMMA NextInv == Inv /\ [Next]_vars => Inv'
<1> SUFFICES ASSUME Inv, [Next]_vars PROVE Inv'
  OBVIOUS
<1>1. ASSUME NEW listed \in SUBSET Proxies, NEW on \in SUBSET listed,
             NEW ep \in [listed -> Endpoints], SyncFromConfig(listed, on, ep)
      PROVE  Inv'
  BY <1>1, SyncFromConfigInv
<1>2. ASSUME NEW p \in Proxies, RecordHealthSuccess(p) \/ RecordHealthFailure(p)
      PROVE  Inv'
  BY <1>2, RecordHealthInv DEF RecordHealthSuccess, RecordHealthFailure
<1>3. ASSUME NEW j \in Jobs, ActivateForJob(j) \/ MarkRetryReserved(j)
      PROVE  Inv'
  BY <1>3, MoveAllocationInv
  DEF ActivateForJob, MarkRetryReserved, LiveFor, LiveAllocationStates
<1>4. ASSUME NEW j \in Jobs, NEW reason, ReleaseForJob(j, reason)
      PROVE  Inv'
  BY <1>4, ReleaseForJobInv
<1>5. ASSUME NEW j \in Jobs, CreateJob(j)
      PROVE  Inv'
  BY <1>5, JobStepInv DEF CreateJob, Inv, TypeOK, JobStates, LiveJobStates
<1>6. ASSUME NEW j \in Jobs, NEW to \in JobStates, TransitionJob(j, to)
      PROVE  Inv'
  BY <1>6, JobStepInv DEF TransitionJob, Inv, TypeOK
<1>7. ASSUME NEW p \in Proxies, NEW r \in ReservationIds, ReserveOne(p, r)
      PROVE  Inv'
  BY <1>7, ReserveOneInv
<1>8. ASSUME NEW r \in ReservationIds, NEW j \in Jobs, NEW a \in AllocationIds,
             BindToJob(r, j, a)
      PROVE  Inv'
  BY <1>8, BindToJobInv
<1>9. ASSUME NEW r \in ReservationIds, ReleaseReservation(r)
      PROVE  Inv'
  BY <1>9, ReleaseReservationInv
<1>10. ASSUME NEW j \in Jobs, NEW p \in Proxies, NEW a \in AllocationIds,
              AcquireForJob(j, p, a)
       PROVE  Inv'
  BY <1>10, AcquireForJobInv
<1>11. ASSUME NEW p \in Proxies, EnableProxy(p) \/ DisableProxy(p)
       PROVE  Inv'
  BY <1>11, SetEnabledInv DEF EnableProxy, DisableProxy
<1>12. CASE UNCHANGED vars
  BY <1>12, JobStepInv DEF vars, proxyVars, Inv, TypeOK
<1> QED
  BY <1>1, <1>2, <1>3, <1>4, <1>5, <1>6, <1>7, <1>8, <1>9, <1>10, <1>11, <1>12
  DEF Next, RuntimeNext

\* The rows stay well formed (TypeOK) whatever the callers do, in any order.
THEOREM TypeCorrect == Spec => []TypeOK
  BY InitInv, NextInv, PTL DEF Spec, Inv

\* No job ever owns two addresses: for every number of proxies, jobs and calls of
\* the pool, the allocator and the reservation store.
THEOREM OneAddressPerJob == Spec => []OneIpPerJob
<1>1. Inv => OneIpPerJob
  BY DEF Inv, Ownership
<1> QED BY <1>1, InitInv, NextInv, PTL DEF Spec

\* No address ever has two owners, be they jobs or reservations.
THEOREM OneOwnerPerAddress == Spec => []OneHolderPerProxy
<1>1. Inv => OneHolderPerProxy
  BY DEF Inv, Ownership
<1> QED BY <1>1, InitInv, NextInv, PTL DEF Spec

\* The proxy row and its owner's row agree, and no proxy is stranded in an owned
\* state.
THEOREM RowsAgree == Spec => []StatusAgreement
<1>1. Inv => StatusAgreement
  BY DEF Inv, Ownership
<1> QED BY <1>1, InitInv, NextInv, PTL DEF Spec

\* Reconfiguration never changes the endpoint an owner recorded.
THEOREM OwnedEndpointsAreFixed == Spec => []EndpointAgreement
<1>1. Inv => EndpointAgreement
  BY DEF Inv
<1> QED BY <1>1, InitInv, NextInv, PTL DEF Spec

\* A proxy whose status offers it is enabled and healthy.
THEOREM OfferedProxiesAreUsable == Spec => []AvailableIsUsable
<1>1. Inv => AvailableIsUsable
  BY DEF Inv
<1> QED BY <1>1, InitInv, NextInv, PTL DEF Spec

------------------------------------------------------------------------------
(* The refinement of ExclusiveIp.                                          *)

\* What the invariant makes of HolderOf: the one live row decides.
HolderFacts ==
  \A p \in Proxies :
    /\ \A r \in ReservationIds :
         Reserved(r) /\ reservation[r].proxy = p => HolderOf(p) = r
    /\ \A a \in AllocationIds :
         Live(a) /\ allocation[a].proxy = p => HolderOf(p) = allocation[a].job
    /\ \/ \E r \in ReservationIds : Reserved(r) /\ reservation[r].proxy = p
       \/ \E a \in AllocationIds : Live(a) /\ allocation[a].proxy = p
       \/ HolderOf(p) = NoRow

LEMMA HolderFactsHold == Inv => HolderFacts
<1> SUFFICES ASSUME Inv, NEW p \in Proxies
             PROVE  HolderFacts!(p)
  BY DEF HolderFacts
<1>1. ASSUME NEW r \in ReservationIds, Reserved(r), reservation[r].proxy = p
      PROVE  HolderOf(p) = r
  BY <1>1 DEF HolderOf, Inv, Ownership, OneHolderPerProxy
<1>2. ASSUME NEW a \in AllocationIds, Live(a), allocation[a].proxy = p
      PROVE  HolderOf(p) = allocation[a].job
  BY <1>2 DEF HolderOf, Inv, Ownership, OneHolderPerProxy
<1> QED BY <1>1, <1>2 DEF HolderOf

LEMMA HolderFactsHoldNext == Inv' => HolderFacts'
  BY HolderFactsHold, PTL

\* A step that neither adds nor ends a live row leaves every holder alone.
LEMMA HoldersKept ==
  ASSUME Inv, Inv',
         \A a \in AllocationIds :
           /\ Live(a)' <=> Live(a)
           /\ Live(a) => /\ allocation'[a].job = allocation[a].job
                         /\ allocation'[a].proxy = allocation[a].proxy,
         \A r \in ReservationIds :
           /\ Reserved(r)' <=> Reserved(r)
           /\ Reserved(r) => reservation'[r].proxy = reservation[r].proxy
  PROVE  \A p \in Proxies : HolderOf(p)' = HolderOf(p)
<1> SUFFICES ASSUME NEW p \in Proxies PROVE HolderOf(p)' = HolderOf(p)
  OBVIOUS
<1>1. HolderFacts /\ HolderFacts'
  BY HolderFactsHold, HolderFactsHoldNext
<1>2. CASE \E r \in ReservationIds : Reserved(r) /\ reservation[r].proxy = p
  BY <1>1, <1>2 DEF HolderFacts
<1>3. CASE \E a \in AllocationIds : Live(a) /\ allocation[a].proxy = p
  BY <1>1, <1>3 DEF HolderFacts
<1>4. CASE /\ ~ \E r \in ReservationIds : Reserved(r) /\ reservation[r].proxy = p
           /\ ~ \E a \in AllocationIds : Live(a) /\ allocation[a].proxy = p
  BY <1>1, <1>4 DEF HolderFacts
<1> QED BY <1>2, <1>3, <1>4

\* Whoever has no live row holds nothing.
LEMMA HoldsNothingFacts ==
  ASSUME Inv
  PROVE  /\ \A j \in Jobs : LiveFor(j) = {} => \A p \in Proxies : HolderOf(p) # j
         /\ \A r \in ReservationIds : ~Reserved(r) => \A p \in Proxies : HolderOf(p) # r
<1>1. HolderFacts
  BY HolderFactsHold
<1>2. \A a \in AllocationIds : Live(a) => allocation[a].job \in Jobs
  BY DEF Inv, TypeOK, Live, AllocationRow
<1> QED BY <1>1, <1>2, HoldersAssumption DEF HolderFacts, LiveFor

LEMMA AcquireTakes ==
  ASSUME Inv, Inv', NEW j \in Jobs, NEW p \in Proxies, NEW a \in AllocationIds,
         AcquireForJob(j, p, a)
  PROVE  Exclusive!Take(p, j)
<1>0. AcquireEffect(j, p, a)
  BY AcquireForJobHasEffect
<1>1. HolderFacts /\ HolderFacts'
  BY HolderFactsHold, HolderFactsHoldNext
<1>2. HolderOf(p) = NoRow
  BY <1>1, <1>0, SelectableIsFree DEF AcquireEffect, HolderFacts
<1>3. HolderOf(p)' = j
  BY <1>1, <1>0 DEF AcquireEffect, HolderFacts
<1>4. \A q \in Proxies \ {p} : HolderOf(q)' = HolderOf(q)
  BY <1>1, <1>0 DEF AcquireEffect, HolderFacts
<1>5. \A q \in Proxies : HolderOf(q) # j
  BY <1>0, HoldsNothingFacts DEF AcquireEffect
<1> QED BY <1>2, <1>3, <1>4, <1>5 DEF Exclusive!Take, Exclusive!HoldsNothing

LEMMA ReserveTakes ==
  ASSUME Inv, Inv', NEW p \in Proxies, NEW r \in ReservationIds, ReserveOne(p, r)
  PROVE  Exclusive!Take(p, r)
<1>0. ReserveEffect(p, r)
  BY ReserveOneHasEffect
<1>1. HolderFacts /\ HolderFacts'
  BY HolderFactsHold, HolderFactsHoldNext
<1>2. HolderOf(p) = NoRow
  BY <1>1, <1>0, SelectableIsFree DEF ReserveEffect, HolderFacts
<1>3. HolderOf(p)' = r
  BY <1>1, <1>0 DEF ReserveEffect, HolderFacts
<1>4. \A q \in Proxies \ {p} : HolderOf(q)' = HolderOf(q)
  BY <1>1, <1>0 DEF ReserveEffect, HolderFacts
<1>5. \A q \in Proxies : HolderOf(q) # r
  BY <1>0, HoldsNothingFacts DEF ReserveEffect
<1> QED BY <1>2, <1>3, <1>4, <1>5 DEF Exclusive!Take, Exclusive!HoldsNothing

LEMMA BindHandsOver ==
  ASSUME Inv, Inv', NEW r \in ReservationIds, NEW j \in Jobs, NEW a \in AllocationIds,
         BindToJob(r, j, a)
  PROVE  \E p \in Proxies : Exclusive!HandOver(p, j)
<1>0. BindEffect(r, j, a)
  BY BindToJobHasEffect
<1>1. HolderFacts /\ HolderFacts'
  BY HolderFactsHold, HolderFactsHoldNext
<1>2. PICK p \in Proxies : p = reservation[r].proxy
  BY <1>0 DEF BindEffect, ReservationRow
<1>3. HolderOf(p) = r /\ HolderOf(p)' = j
  BY <1>1, <1>2, <1>0 DEF BindEffect, HolderFacts
<1>4. \A q \in Proxies \ {p} : HolderOf(q)' = HolderOf(q)
  <2> SUFFICES ASSUME NEW q \in Proxies \ {p} PROVE HolderOf(q)' = HolderOf(q)
    OBVIOUS
  <2>1. CASE \E s \in ReservationIds : Reserved(s) /\ reservation[s].proxy = q
    BY <2>1, <1>1, <1>2, <1>0 DEF BindEffect, HolderFacts
  <2>2. CASE \E b \in AllocationIds : Live(b) /\ allocation[b].proxy = q
    BY <2>2, <1>1, <1>0 DEF BindEffect, HolderFacts
  <2>3. CASE /\ ~ \E s \in ReservationIds : Reserved(s) /\ reservation[s].proxy = q
             /\ ~ \E b \in AllocationIds : Live(b) /\ allocation[b].proxy = q
    BY <2>3, <1>1, <1>2, <1>0 DEF BindEffect, HolderFacts
  <2> QED BY <2>1, <2>2, <2>3
<1>5. \A q \in Proxies : HolderOf(q) # j
  BY <1>0, HoldsNothingFacts DEF BindEffect
<1> QED BY <1>3, <1>4, <1>5 DEF Exclusive!HandOver, Exclusive!HoldsNothing

\* A release of whatever kind ends one live row and touches no other.
LEMMA RowEndGivesBack ==
  ASSUME Inv, Inv', NEW p \in Proxies, HolderOf(p) # NoRow, HolderOf(p)' = NoRow,
         \A a \in AllocationIds :
           /\ Live(a) /\ allocation[a].proxy # p =>
                Live(a)' /\ allocation'[a].job = allocation[a].job
                        /\ allocation'[a].proxy = allocation[a].proxy
           /\ Live(a)' => Live(a) /\ allocation'[a].proxy = allocation[a].proxy,
         \A r \in ReservationIds :
           /\ Reserved(r) /\ reservation[r].proxy # p =>
                Reserved(r)' /\ reservation'[r].proxy = reservation[r].proxy
           /\ Reserved(r)' => Reserved(r) /\ reservation'[r].proxy = reservation[r].proxy
  PROVE  Exclusive!GiveBack(p)
<1>1. HolderFacts /\ HolderFacts'
  BY HolderFactsHold, HolderFactsHoldNext
<1>2. ASSUME NEW q \in Proxies \ {p} PROVE HolderOf(q)' = HolderOf(q)
  <2>1. CASE \E r \in ReservationIds : Reserved(r) /\ reservation[r].proxy = q
    BY <2>1, <1>1 DEF HolderFacts
  <2>2. CASE \E a \in AllocationIds : Live(a) /\ allocation[a].proxy = q
    BY <2>2, <1>1 DEF HolderFacts
  <2>3. CASE /\ ~ \E r \in ReservationIds : Reserved(r) /\ reservation[r].proxy = q
             /\ ~ \E a \in AllocationIds : Live(a) /\ allocation[a].proxy = q
    BY <2>3, <1>1 DEF HolderFacts
  <2> QED BY <2>1, <2>2, <2>3
<1>3. [q \in Proxies |-> HolderOf(q)]' = [[q \in Proxies |-> HolderOf(q)] EXCEPT ![p] = NoRow]
  <2>1. \A q \in Proxies : HolderOf(q)' = IF q = p THEN NoRow ELSE HolderOf(q)
    BY <1>2
  <2> QED BY <2>1
<1>4. [q \in Proxies |-> HolderOf(q)][p] # NoRow
  OBVIOUS
<1> QED BY <1>3, <1>4 DEF Exclusive!GiveBack

LEMMA ReleaseForJobGivesBack ==
  ASSUME Inv, Inv', NEW j \in Jobs, NEW reason, ReleaseForJob(j, reason)
  PROVE  \E p \in Proxies : Exclusive!GiveBack(p)
<1>1. PICK a \in LiveFor(j) : allocation' = [allocation EXCEPT ![a].status = "RELEASED"]
  BY DEF ReleaseForJob
<1>2. a \in AllocationIds /\ Live(a) /\ allocation[a] \in AllocationRow
  BY LiveOwnsProxy DEF LiveFor
<1>3. PICK p \in Proxies : p = allocation[a].proxy
  BY <1>2 DEF AllocationRow
<1>4. /\ \A b \in AllocationIds : Live(b)' <=> Live(b) /\ b # a
      /\ \A b \in AllocationIds \ {a} : allocation'[b] = allocation[b]
      /\ UNCHANGED reservation /\ \A r \in ReservationIds : Reserved(r)' <=> Reserved(r)
  BY <1>1, <1>2, NoRowAssumption
  DEF ReleaseForJob, Inv, TypeOK, Live, Reserved, AllocationRow, LiveAllocationStates
<1>5. HolderFacts /\ HolderFacts'
  BY HolderFactsHold, HolderFactsHoldNext
<1>6. HolderOf(p) # NoRow
  BY <1>2, <1>3, <1>5, HoldersAssumption DEF HolderFacts, AllocationRow
<1>7. HolderOf(p)' = NoRow
  BY <1>2, <1>3, <1>4, <1>5, LiveOwnsProxy DEF HolderFacts
<1> QED BY <1>2, <1>3, <1>4, <1>6, <1>7, RowEndGivesBack

LEMMA ReleaseReservationGivesBack ==
  ASSUME Inv, Inv', NEW r \in ReservationIds, ReleaseReservation(r)
  PROVE  \E p \in Proxies : Exclusive!GiveBack(p)
<1>1. Reserved(r) /\ reservation[r] \in ReservationRow
      /\ reservation' = [reservation EXCEPT ![r].status = "RELEASED"]
  BY DEF ReleaseReservation, Inv, TypeOK, Reserved
<1>2. PICK p \in Proxies : p = reservation[r].proxy
  BY <1>1 DEF ReservationRow
<1>3. /\ \A s \in ReservationIds : Reserved(s)' <=> Reserved(s) /\ s # r
      /\ \A s \in ReservationIds \ {r} : reservation'[s] = reservation[s]
      /\ UNCHANGED allocation /\ \A a \in AllocationIds : Live(a)' <=> Live(a)
  BY <1>1, NoRowAssumption DEF ReleaseReservation, Inv, TypeOK, Live, Reserved, ReservationRow
<1>4. HolderFacts /\ HolderFacts'
  BY HolderFactsHold, HolderFactsHoldNext
<1>5. HolderOf(p) # NoRow
  BY <1>1, <1>2, <1>4, HoldersAssumption DEF HolderFacts
<1>6. HolderOf(p)' = NoRow
  <2>1. /\ \A s \in ReservationIds : Reserved(s) /\ s # r => reservation[s].proxy # p
        /\ \A a \in AllocationIds : Live(a) => allocation[a].proxy # p
    BY <1>1, <1>2 DEF Inv, Ownership, OneHolderPerProxy
  <2> QED BY <1>2, <1>3, <1>4, <2>1 DEF HolderFacts
<1> QED BY <1>2, <1>3, <1>5, <1>6, RowEndGivesBack

LEMMA KeptIsStutter ==
  ASSUME \A p \in Proxies : HolderOf(p)' = HolderOf(p)
  PROVE  UNCHANGED [p \in Proxies |-> HolderOf(p)]
  OBVIOUS

\* A move between live states keeps both rows where they are.
LEMMA MoveAllocationKeeps ==
  ASSUME Inv, Inv', NEW a \in AllocationIds, Live(a),
         NEW from, NEW to \in LiveAllocationStates, MoveAllocation(a, from, to)
  PROVE  UNCHANGED [p \in Proxies |-> HolderOf(p)]
<1>1. \A b \in AllocationIds :
        /\ Live(b)' <=> Live(b)
        /\ Live(b) => /\ allocation'[b].job = allocation[b].job
                      /\ allocation'[b].proxy = allocation[b].proxy
  BY LiveOwnsProxy, NoRowAssumption
  DEF MoveAllocation, Inv, TypeOK, Live, AllocationRow, AllocationStates, LiveAllocationStates
<1>2. UNCHANGED reservation
  BY DEF MoveAllocation
<1> QED BY <1>1, <1>2, HoldersKept, KeptIsStutter DEF Reserved

LEMMA SameRowsKeep ==
  ASSUME Inv, Inv', UNCHANGED << allocation, reservation >>
  PROVE  UNCHANGED [p \in Proxies |-> HolderOf(p)]
  BY HoldersKept, KeptIsStutter DEF Live, Reserved

\* Whoever takes, receives or gives back an address changes its holder.
LEMMA TakeChangesHands ==
  ASSUME NEW p \in Proxies, NEW h \in Jobs \union ReservationIds, Exclusive!Take(p, h)
  PROVE  Exclusive!Next
<1>1. [q \in Proxies |-> HolderOf(q)][p] = NoRow
      /\ [q \in Proxies |-> HolderOf(q)]' = [[q \in Proxies |-> HolderOf(q)] EXCEPT ![p] = h]
  BY DEF Exclusive!Take
<1>2. [q \in Proxies |-> HolderOf(q)]'[p] = h /\ h # NoRow
  BY <1>1, HoldersAssumption
<1> QED BY <1>1, <1>2 DEF Exclusive!Next, Exclusive!Holders

LEMMA HandOverChangesHands ==
  ASSUME NEW p \in Proxies, NEW j \in Jobs, Exclusive!HandOver(p, j)
  PROVE  Exclusive!Next
<1>1. [q \in Proxies |-> HolderOf(q)][p] # j
      /\ [q \in Proxies |-> HolderOf(q)]' = [[q \in Proxies |-> HolderOf(q)] EXCEPT ![p] = j]
  BY DEF Exclusive!HandOver, Exclusive!HoldsNothing
<1>2. [q \in Proxies |-> HolderOf(q)]'[p] = j
  BY <1>1
<1> QED BY <1>1, <1>2 DEF Exclusive!Next

LEMMA GiveBackChangesHands ==
  ASSUME NEW p \in Proxies, Exclusive!GiveBack(p)
  PROVE  Exclusive!Next
<1>1. [q \in Proxies |-> HolderOf(q)][p] # NoRow
      /\ [q \in Proxies |-> HolderOf(q)]' = [[q \in Proxies |-> HolderOf(q)] EXCEPT ![p] = NoRow]
  BY DEF Exclusive!GiveBack
<1>2. [q \in Proxies |-> HolderOf(q)]'[p] = NoRow
  BY <1>1
<1> QED BY <1>1, <1>2 DEF Exclusive!Next

LEMMA StepRefines == Inv /\ Inv' /\ [Next]_vars => [Exclusive!Next]_(Exclusive!vars)
<1> SUFFICES ASSUME Inv, Inv', [Next]_vars
             PROVE  Exclusive!Next \/ UNCHANGED [p \in Proxies |-> HolderOf(p)]
  BY DEF Exclusive!vars
<1>1. ASSUME NEW j \in Jobs, NEW p \in Proxies, NEW a \in AllocationIds, AcquireForJob(j, p, a)
      PROVE  Exclusive!Next
  BY <1>1, AcquireTakes, TakeChangesHands
<1>2. ASSUME NEW p \in Proxies, NEW r \in ReservationIds, ReserveOne(p, r)
      PROVE  Exclusive!Next
  BY <1>2, ReserveTakes, TakeChangesHands
<1>3. ASSUME NEW r \in ReservationIds, NEW j \in Jobs, NEW a \in AllocationIds, BindToJob(r, j, a)
      PROVE  Exclusive!Next
  BY <1>3, BindHandsOver, HandOverChangesHands
<1>4. ASSUME NEW j \in Jobs, NEW reason, ReleaseForJob(j, reason)
      PROVE  Exclusive!Next
  BY <1>4, ReleaseForJobGivesBack, GiveBackChangesHands
<1>5. ASSUME NEW r \in ReservationIds, ReleaseReservation(r)
      PROVE  Exclusive!Next
  BY <1>5, ReleaseReservationGivesBack, GiveBackChangesHands
<1>6. ASSUME NEW j \in Jobs, ActivateForJob(j) \/ MarkRetryReserved(j)
      PROVE  UNCHANGED [p \in Proxies |-> HolderOf(p)]
  BY <1>6, MoveAllocationKeeps
  DEF ActivateForJob, MarkRetryReserved, LiveFor, LiveAllocationStates
<1>7. CASE \/ \E listed \in SUBSET Proxies :
               \E on \in SUBSET listed, ep \in [listed -> Endpoints] :
                 SyncFromConfig(listed, on, ep)
           \/ \E p \in Proxies : RecordHealthSuccess(p) \/ RecordHealthFailure(p)
           \/ \E p \in Proxies : EnableProxy(p) \/ DisableProxy(p)
           \/ \E j \in Jobs : CreateJob(j) \/ \E to \in JobStates : TransitionJob(j, to)
           \/ UNCHANGED vars
  BY <1>7, SameRowsKeep
  DEF SyncFromConfig, RecordHealthSuccess, RecordHealthFailure, RecordHealth,
      EnableProxy, DisableProxy, SetEnabled, CreateJob, TransitionJob, vars
<1> QED BY <1>1, <1>2, <1>3, <1>4, <1>5, <1>6, <1>7 DEF Next, RuntimeNext

LEMMA InitRefines == Init => Exclusive!Init
<1> SUFFICES ASSUME Init PROVE [p \in Proxies |-> HolderOf(p)] = [p \in Proxies |-> NoRow]
  BY DEF Exclusive!Init
<1> QED BY InitInv, HolderFactsHold DEF Init, HolderFacts, Live, Reserved

\* The pool, the allocator and the reservation store together implement
\* exclusive ownership: every call is a take, a hand-over, a give-back or
\* invisible.
THEOREM Refinement == Spec => ExclusiveOwnership
<1>1. Spec => []Inv
  BY InitInv, NextInv, PTL DEF Spec
<1> QED BY <1>1, InitRefines, StepRefines, PTL DEF Spec, ExclusiveOwnership, Exclusive!Spec

------------------------------------------------------------------------------
(* What the running process adds: it releases only for terminal jobs and    *)
(* allocates only through reservations, so the capacity bound holds.        *)

LEMMA RuntimeIsNext == RuntimeNext => Next
  BY DEF Next

LEMMA RuntimeInv == RuntimeSpec => []Inv
  BY InitInv, NextInv, RuntimeIsNext, PTL DEF RuntimeSpec

LEMMA RuntimeKeeps ==
  ASSUME Inv, [RuntimeNext]_vars, NEW a \in AllocationIds, Live(a), JobIsLive(allocation[a].job)
  PROVE  KeepsWhatItHolds(a)
<1>1. allocation[a] \in AllocationRow
  BY LiveOwnsProxy
<1>2. ASSUME NEW j \in Jobs, ActivateForJob(j) \/ MarkRetryReserved(j)
      PROVE  KeepsWhatItHolds(a)
  BY <1>1, <1>2, NoRowAssumption
  DEF ActivateForJob, MarkRetryReserved, MoveAllocation, LiveFor, Live, KeepsWhatItHolds,
      Inv, TypeOK, AllocationRow, AllocationStates, LiveAllocationStates
<1>3. ASSUME NEW j \in Jobs, NEW reason \in { "JOB_COMPLETED", "FAILED_FINAL" },
             ReleaseForJob(j, reason)
      PROVE  KeepsWhatItHolds(a)
  <2>1. PICK b \in LiveFor(j) : allocation' = [allocation EXCEPT ![b].status = "RELEASED"]
    BY <1>3 DEF ReleaseForJob
  <2>2. allocation[b].job = j /\ ~JobIsLive(j)
    BY <1>3 DEF ReleaseForJob, ReleaseAllowed, JobIsLive, LiveJobStates, LiveFor
  <2>3. a # b
    BY <2>2
  <2> QED BY <2>1, <2>3 DEF LiveFor, Live, KeepsWhatItHolds, Inv, TypeOK
<1>4. ASSUME NEW r \in ReservationIds, NEW j \in Jobs, NEW b \in AllocationIds, BindToJob(r, j, b)
      PROVE  KeepsWhatItHolds(a)
  BY <1>4 DEF BindToJob, Live, KeepsWhatItHolds, Inv, TypeOK
<1>5. CASE UNCHANGED allocation
  BY <1>5 DEF KeepsWhatItHolds, Live
<1> QED
  BY <1>2, <1>3, <1>4, <1>5
  DEF RuntimeNext, vars, SyncFromConfig, RecordHealthSuccess, RecordHealthFailure, RecordHealth,
      CreateJob, TransitionJob, ReserveOne, ReleaseReservation

\* A job keeps its address through activation, retries and reconfiguration
\* until it is terminal.
THEOREM AddressIsHeld == RuntimeSpec => HeldUntilTerminal
<1>1. Inv /\ [RuntimeNext]_vars =>
        [\A a \in AllocationIds :
           Live(a) /\ JobIsLive(allocation[a].job) => KeepsWhatItHolds(a)]_vars
  BY RuntimeKeeps
<1> QED BY <1>1, RuntimeInv, PTL DEF RuntimeSpec, HeldUntilTerminal

CapacityInv ==
  /\ IsFiniteSet(LiveAllocations)
  /\ IsFiniteSet(PendingReservations)
  /\ SlotsWithinCapacity

LEMMA CapacityStep ==
  ASSUME Inv, CapacityInv, [RuntimeNext]_vars
  PROVE  CapacityInv'
<1> USE DEF CapacityInv, SlotsWithinCapacity, OccupiedSlots
<1>1. /\ Cardinality(LiveAllocations) \in Nat /\ Cardinality(PendingReservations) \in Nat
      /\ MaxConcurrent \in Nat
  BY FS_CardinalityType, MaxConcurrentAssumption
<1>2. CASE LiveAllocations' = LiveAllocations /\ PendingReservations' = PendingReservations
  BY <1>2
<1>3. ASSUME NEW p \in Proxies, NEW r \in ReservationIds, ReserveOne(p, r)
      PROVE  CapacityInv'
  <2>1. ReserveEffect(p, r) /\ OccupiedSlots < MaxConcurrent
    BY <1>3, ReserveOneHasEffect DEF ReserveOne
  <2>2. /\ LiveAllocations' = LiveAllocations
        /\ PendingReservations' = PendingReservations \union {r} /\ r \notin PendingReservations
    BY <2>1 DEF ReserveEffect, LiveAllocations, PendingReservations
  <2>3. /\ IsFiniteSet(PendingReservations')
        /\ Cardinality(PendingReservations') = Cardinality(PendingReservations) + 1
    BY <2>2, FS_AddElement
  <2> QED BY <2>1, <2>2, <2>3, <1>1
<1>4. ASSUME NEW r \in ReservationIds, NEW j \in Jobs, NEW a \in AllocationIds, BindToJob(r, j, a)
      PROVE  CapacityInv'
  <2>1. BindEffect(r, j, a)
    BY <1>4, BindToJobHasEffect
  <2>2. /\ LiveAllocations' = LiveAllocations \union {a} /\ a \notin LiveAllocations
        /\ PendingReservations' = PendingReservations \ {r} /\ r \in PendingReservations
    BY <2>1 DEF BindEffect, LiveAllocations, PendingReservations
  <2>3. /\ IsFiniteSet(LiveAllocations')
        /\ Cardinality(LiveAllocations') = Cardinality(LiveAllocations) + 1
    BY <2>2, FS_AddElement
  <2>4. /\ IsFiniteSet(PendingReservations')
        /\ Cardinality(PendingReservations') = Cardinality(PendingReservations) - 1
    BY <2>2, FS_RemoveElement
  <2> QED BY <2>3, <2>4, <1>1
<1>5. ASSUME NEW r \in ReservationIds, ReleaseReservation(r)
      PROVE  CapacityInv'
  <2>1. /\ LiveAllocations' = LiveAllocations
        /\ PendingReservations' = PendingReservations \ {r} /\ r \in PendingReservations
    BY <1>5, NoRowAssumption
    DEF ReleaseReservation, Inv, TypeOK, LiveAllocations, PendingReservations, Live, Reserved,
        ReservationRow
  <2>2. /\ IsFiniteSet(PendingReservations')
        /\ Cardinality(PendingReservations') = Cardinality(PendingReservations) - 1
    BY <2>1, FS_RemoveElement
  <2> QED BY <2>1, <2>2, <1>1
<1>6. ASSUME NEW j \in Jobs, NEW reason, ReleaseForJob(j, reason)
      PROVE  CapacityInv'
  <2>1. PICK a \in LiveFor(j) : allocation' = [allocation EXCEPT ![a].status = "RELEASED"]
    BY <1>6 DEF ReleaseForJob
  <2>2. a \in AllocationIds /\ Live(a) /\ allocation[a] \in AllocationRow
    BY LiveOwnsProxy DEF LiveFor
  <2>3. /\ LiveAllocations' = LiveAllocations \ {a} /\ a \in LiveAllocations
        /\ PendingReservations' = PendingReservations
    BY <1>6, <2>1, <2>2, NoRowAssumption
    DEF ReleaseForJob, Inv, TypeOK, LiveAllocations, PendingReservations, Live, Reserved,
        AllocationRow, LiveAllocationStates
  <2>4. /\ IsFiniteSet(LiveAllocations')
        /\ Cardinality(LiveAllocations') = Cardinality(LiveAllocations) - 1
    BY <2>3, FS_RemoveElement
  <2> QED BY <2>3, <2>4, <1>1
<1>7. ASSUME NEW j \in Jobs, ActivateForJob(j) \/ MarkRetryReserved(j)
      PROVE  CapacityInv'
  <2>1. \A b \in AllocationIds : Live(b)' <=> Live(b)
    BY <1>7, LiveOwnsProxy, NoRowAssumption
    DEF ActivateForJob, MarkRetryReserved, LiveFor, MoveAllocation, Inv, TypeOK, Live,
        AllocationRow, AllocationStates, LiveAllocationStates
  <2>2. UNCHANGED reservation
    BY <1>7 DEF ActivateForJob, MarkRetryReserved, MoveAllocation
  <2> QED BY <2>1, <2>2, <1>2 DEF LiveAllocations, PendingReservations, Reserved
<1>8. CASE UNCHANGED << allocation, reservation >>
  BY <1>8, <1>2 DEF LiveAllocations, PendingReservations, Live, Reserved
<1> QED
  BY <1>3, <1>4, <1>5, <1>6, <1>7, <1>8
  DEF RuntimeNext, vars, SyncFromConfig, RecordHealthSuccess, RecordHealthFailure, RecordHealth,
      CreateJob, TransitionJob

\* The running process never occupies more execution slots than
\* capacity.maxConcurrent, reservations in flight included.
THEOREM CapacityIsRespected == RuntimeSpec => []SlotsWithinCapacity
<1>1. Init => CapacityInv
  <2> SUFFICES ASSUME Init PROVE CapacityInv
    OBVIOUS
  <2>1. LiveAllocations = {} /\ PendingReservations = {}
    BY DEF Init, LiveAllocations, PendingReservations, Live, Reserved
  <2> QED BY <2>1, FS_EmptySet, MaxConcurrentAssumption
          DEF CapacityInv, SlotsWithinCapacity, OccupiedSlots
<1>2. Inv /\ CapacityInv /\ [RuntimeNext]_vars => CapacityInv'
  BY CapacityStep
<1>3. CapacityInv => SlotsWithinCapacity
  BY DEF CapacityInv
<1> QED BY <1>1, <1>2, <1>3, RuntimeInv, PTL DEF RuntimeSpec
==============================================================================
