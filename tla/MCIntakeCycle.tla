---------------------------- MODULE MCIntakeCycle ----------------------------
(* Instances of IntakeCycle for TLC.                                        *)
EXTENDS IntakeCycle, TLC

Symmetry ==
  Permutations(Proxies) \union Permutations(Jobs) \union Permutations(AllocationIds)
    \union Permutations(ReservationIds)
=============================================================================
