-------------------------- MODULE ReleaseGovernance --------------------------
(***************************************************************************)
(* What the registry promises about the releases of one package, every      *)
(* request taken as one atomic step. This is the in-memory registry of      *)
(* src/registry-domain.ts, which runs each request to its end before it      *)
(* looks at the next: a release is submitted once and for all, two people   *)
(* other than its submitter publish it, one other person rejects it, and    *)
(* only what was published can be yanked. ReleaseStore implements this      *)
(* specification with concurrent PostgreSQL transactions.                   *)
(*                                                                         *)
(* Whether the actor has a role that entitles it to the request belongs to  *)
(* the memberships: a request without one changes nothing.                  *)
(***************************************************************************)
EXTENDS Naturals, FiniteSets

CONSTANTS
  Version,  \* the versions of the package, as numbers in semver order
  User,
  NoUser

VARIABLES
  status,     \* status[v]: the state of release v
  submitter,  \* submitter[v]: who submitted it
  approvals,  \* approvals[v]: who approved it
  latest      \* the release that searches and installs of the package find, or 0

State == {"absent", "pending", "published", "rejected", "yanked"}

\* The latest published release: yanked ones no longer count.
LatestOf(s) ==
  LET published == {v \in Version : s[v] = "published"}
  IN  IF published = {} THEN 0
      ELSE CHOOSE v \in published : \A w \in published : w <= v

TypeOK ==
  /\ status \in [Version -> State]
  /\ submitter \in [Version -> User \cup {NoUser}]
  /\ approvals \in [Version -> SUBSET User]
  /\ latest \in Version \cup {0}

Init ==
  /\ status = [v \in Version |-> "absent"]
  /\ submitter = [v \in Version |-> NoUser]
  /\ approvals = [v \in Version |-> {}]
  /\ latest = 0

-----------------------------------------------------------------------------

Enter(v, state) ==
  /\ status' = [status EXCEPT ![v] = state]
  /\ latest' = LatestOf(status')

Submit(v, u) ==
  /\ status[v] = "absent"
  /\ Enter(v, "pending")
  /\ submitter' = [submitter EXCEPT ![v] = u]
  /\ UNCHANGED approvals

\* The second approval publishes.
Approve(v, u) ==
  /\ status[v] = "pending"
  /\ u # submitter[v] /\ u \notin approvals[v]
  /\ approvals' = [approvals EXCEPT ![v] = @ \cup {u}]
  /\ Enter(v, IF Cardinality(approvals'[v]) = 2 THEN "published" ELSE "pending")
  /\ UNCHANGED submitter

Reject(v, u) ==
  /\ status[v] = "pending"
  /\ u # submitter[v]
  /\ Enter(v, "rejected")
  /\ UNCHANGED <<submitter, approvals>>

Yank(v) ==
  /\ status[v] = "published"
  /\ Enter(v, "yanked")
  /\ UNCHANGED <<submitter, approvals>>

Next ==
  \E v \in Version :
    \/ \E u \in User : Submit(v, u) \/ Approve(v, u) \/ Reject(v, u)
    \/ Yank(v)

Spec == Init /\ [][Next]_<<status, submitter, approvals, latest>>

=============================================================================
