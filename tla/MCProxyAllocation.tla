-------------------------- MODULE MCProxyAllocation --------------------------
(* Instances of ProxyAllocation for TLC: ids that only name a row, a proxy, *)
(* an endpoint or a job are interchangeable.                                *)
EXTENDS ProxyAllocation, TLC

Symmetry ==
  Permutations(Proxies) \union Permutations(Endpoints) \union Permutations(Jobs)
    \union Permutations(AllocationIds) \union Permutations(ReservationIds)
==============================================================================
