----------------------------- MODULE ExclusiveIp -----------------------------
(***************************************************************************)
(* What the proxy layer promises, with no word about how it keeps it: an   *)
(* outbound address has at most one holder, a holder is an intake          *)
(* reservation or a job, a job holds at most one address, and an address   *)
(* passes from a reservation to a job without ever being free in between.  *)
(* ProxyAllocation implements this module.                                 *)
(***************************************************************************)
CONSTANTS
  Proxies,       \* addresses
  Reservations,  \* intake reservations
  Jobs,
  Nobody

VARIABLE holder  \* holder[p]: who may send requests through p

vars == holder

Holders == Reservations \union Jobs

HoldsNothing(h) == \A p \in Proxies : holder[p] # h

Init == holder = [p \in Proxies |-> Nobody]

\* A free address is taken by somebody who holds none.
Take(p, h) ==
  /\ holder[p] = Nobody
  /\ HoldsNothing(h)
  /\ holder' = [holder EXCEPT ![p] = h]

\* A reservation passes its address on to a job that holds none.
HandOver(p, j) ==
  /\ holder[p] \in Reservations
  /\ HoldsNothing(j)
  /\ holder' = [holder EXCEPT ![p] = j]

GiveBack(p) ==
  /\ holder[p] # Nobody
  /\ holder' = [holder EXCEPT ![p] = Nobody]

\* One address changes hands.
Next ==
  \E p \in Proxies :
    /\ holder'[p] # holder[p]
    /\ \/ \E h \in Holders : Take(p, h)
       \/ \E j \in Jobs : HandOver(p, j)
       \/ GiveBack(p)

Spec == Init /\ [][Next]_vars

==============================================================================
