--------------------------- MODULE MCOrganization ---------------------------
(* Organization with two connections, two people and two usage events. The     *)
(* plan "free" has fewer seats and events than "team". Two billing events have  *)
(* the same time, and two have the same id.                                     *)
EXTENDS Organization, TLC

CONSTANTS t1, t2, u1, u2

Seats == [free |-> 1, team |-> 2]
Usage == [free |-> 1, team |-> 2]

Events ==
  { [id |-> 1, time |-> 1, plan |-> "team"],
    [id |-> 2, time |-> 1, plan |-> "free"],
    [id |-> 2, time |-> 2, plan |-> "team"] }

TxnUserSymmetry == Permutations({t1, t2}) \cup Permutations({u1, u2})

=============================================================================
