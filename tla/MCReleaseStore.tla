--------------------------- MODULE MCReleaseStore ---------------------------
(* ReleaseStore with two connections, two versions and three people: two      *)
(* releases can be decided on at the same time, and each of them has exactly   *)
(* two people to approve it.                                                   *)
EXTENDS ReleaseStore, TLC

CONSTANTS t1, t2, u1, u2, u3

\* Connections and people are interchangeable. Versions are ordered.
TxnUserSymmetry == Permutations({t1, t2}) \cup Permutations({u1, u2, u3})

\* Bound: roles change only while nobody has touched the second release.
RolesSettled ==
  reviewers = User \/ \A v \in Version \ {1} : status[v] = "absent" /\ \A t \in Txn : req[t].version # v

\* For liveness, two lives of a package. In one the second release was submitted by
\* u2 and yanked, and the first is not there yet; in the other one u1 submitted both
\* and they are published. Everybody but the submitter approved.
PastInit ==
  /\ \/ /\ status = [v \in Version |-> IF v = 1 THEN "absent" ELSE "yanked"]
        /\ submitter = [v \in Version |-> IF v = 1 THEN NoUser ELSE u2]
     \/ /\ status = [v \in Version |-> "published"]
        /\ submitter = [v \in Version |-> u1]
  /\ decision = [v \in Version |->
                   [u \in User |-> IF submitter[v] \in {NoUser, u} THEN "none" ELSE "approved"]]
  /\ projection = LatestOf(status)
  /\ audit = {e \in Event :
                 \/ e.action = "submitted" /\ e.actor = submitter[e.version]
                 \/ e.action = "approved" /\ decision[e.version][e.actor] = "approved"
                 \/ e.action = "published" /\ e.actor = u3 /\ status[e.version] # "absent"
                 \/ e.action = "yanked" /\ e.actor = u3 /\ status[e.version] = "yanked"}
  /\ reviewers = User
  /\ pc = [t \in Txn |-> "idle"]
  /\ req = [t \in Txn |-> NoRequest]
  /\ held = [t \in Txn |-> {}]
  /\ outcome = [t \in Txn |-> "absent"]
  /\ selected = [t \in Txn |-> 0]

\* Bound: in the first of the two, requests are about the first release.
PastSettled == submitter[2] = u1 \/ \A t \in Txn : req[t].version # 2

PastSpec == PastInit /\ [][Next]_vars /\ Fairness

=============================================================================
