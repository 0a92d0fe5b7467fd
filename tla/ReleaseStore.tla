---------------------------- MODULE ReleaseStore ----------------------------
(***************************************************************************)
(* The releases of one package in the PostgreSQL registry: the requests of  *)
(* src/registry-postgres-application.ts, each a READ COMMITTED transaction  *)
(* of src/registry-postgres.ts, with the triggers of migrations 007 and 009 *)
(* that guard the same rules in the database.                               *)
(*                                                                         *)
(* A step is one SQL statement: it reads what is committed when it starts   *)
(* and what its own transaction wrote. Row locks last until the transaction *)
(* ends, and what it wrote becomes visible at once when it commits. The     *)
(* release row is locked before the package row. Rejecting locks no         *)
(* package row. A yank that makes another release the latest shares that    *)
(* release's key through a foreign key of migration 009, after the package: *)
(* two requests can deadlock, and PostgreSQL aborts one of them. The        *)
(* deferred trigger of migration 009 compares the projection with the       *)
(* releases in two statements at commit time.                               *)
(*                                                                         *)
(* A reviewer's role is read by the service and again by the trigger of     *)
(* migration 007, while other transactions change it. Whether an author may *)
(* submit goes either way. Users are active: nothing in src/ suspends one.  *)
(***************************************************************************)
EXTENDS Naturals, FiniteSets

CONSTANTS
  Txn,      \* the connections of the registry's pool
  Version,  \* the versions of the package, as numbers in semver order
  User,
  NoUser,
  Triggers, \* FALSE: the same transactions in a database without the triggers
  MinReviewers \* bound on role changes: so many admins and owners there always are

ASSUME VersionAssumption == Version \subseteq Nat \ {0}
ASSUME NoUserAssumption == NoUser \notin User
ASSUME TriggersAssumption == Triggers \in BOOLEAN
ASSUME MinReviewersAssumption == MinReviewers \in Nat

VARIABLES
  status,      \* status[v]: registry_releases.status, "absent" if there is no row
  submitter,   \* submitter[v]: registry_releases.submitted_by
  decision,    \* decision[v][u]: the row of registry_release_approvals
  projection,  \* registry_packages.discovery_release_id, 0 for null
  audit,       \* registry_audit_events
  reviewers,   \* the members of the organization that are admins or owners
  pc,          \* pc[t]: the next statement of the transaction t
  req,         \* req[t]: the request it serves
  held,        \* held[t]: the rows it has locked
  outcome,     \* outcome[t]: the status it read, then the one it gives the release
  selected     \* selected[t]: the projection it wrote, then the one it checks

stored == <<status, submitter, decision, projection, audit>>
vars == <<status, submitter, decision, projection, audit, reviewers,
          pc, req, held, outcome, selected>>

Governance ==
  INSTANCE ReleaseGovernance WITH
    approvals <- [v \in Version |-> {u \in User : decision[v][u] = "approved"}],
    latest    <- projection

State == Governance!State
LatestOf(s) == Governance!LatestOf(s)

Request == [kind : {"submit", "approve", "reject", "yank"}, version : Version, user : User]

NoRequest == [kind |-> "none", version |-> 0, user |-> NoUser]

\* The next statement: select or insert the release, lock the package row, read
\* the reviewer's role, insert the decision, count the approvals, update the
\* release, select its latest one, point the package to it, the two selects of
\* the deferred trigger, COMMIT, and ROLLBACK because a trigger raised.
Pc == {"idle", "release", "package", "member", "decide", "count", "update",
       "project", "point", "select", "compare", "commit", "stopped"}

Event == [action : {"submitted", "approved", "published", "rejected", "yanked"},
          version : Version, actor : User]

TypeOK ==
  /\ status \in [Version -> State]
  /\ submitter \in [Version -> User \cup {NoUser}]
  /\ decision \in [Version -> [User -> {"none", "approved", "rejected"}]]
  /\ projection \in Version \cup {0}
  /\ audit \subseteq Event
  /\ reviewers \subseteq User
  /\ pc \in [Txn -> Pc]
  /\ req \in [Txn -> Request \cup {NoRequest}]
  /\ held \in [Txn -> SUBSET {"release", "package", "latest"}]
  /\ outcome \in [Txn -> State]
  /\ selected \in [Txn -> Version \cup {0}]

Init ==
  /\ status = [v \in Version |-> "absent"]
  /\ submitter = [v \in Version |-> NoUser]
  /\ decision = [v \in Version |-> [u \in User |-> "none"]]
  /\ projection = 0
  /\ audit = {}
  /\ reviewers \in {R \in SUBSET User : Cardinality(R) >= MinReviewers}
  /\ pc = [t \in Txn |-> "idle"]
  /\ req = [t \in Txn |-> NoRequest]
  /\ held = [t \in Txn |-> {}]
  /\ outcome = [t \in Txn |-> "absent"]
  /\ selected = [t \in Txn |-> 0]

-----------------------------------------------------------------------------
(* What a transaction sees and what it may lock.                            *)

Goto(t, place) == pc' = [pc EXCEPT ![t] = place]

\* A transaction that inserts a release holds it as well: another one that
\* inserts the same version waits for it at the unique index.
HasRelease(t, v) == "release" \in held[t] /\ req[t].version = v

\* The release that t made the latest: locked FOR KEY SHARE.
SharesKey(t, v) == "latest" \in held[t] /\ selected[t] = v

ReleaseFree(t) ==
  \A s \in Txn \ {t} : ~HasRelease(s, req[t].version) /\ ~SharesKey(s, req[t].version)

\* Submitting takes the package FOR KEY SHARE (its foreign key), approving and
\* yanking take it FOR UPDATE.
PackageTaken(t, s) == "package" \in held[s] /\ ~(req[s].kind = "submit" /\ req[t].kind = "submit")

PackageFree(t) == \A s \in Txn \ {t} : ~PackageTaken(t, s)

MovesAlways(t) == selected[t] # 0

\* A foreign key is only looked up when its column changes, and not to null.
Moves(t) == selected[t] \notin {0, projection}

KeyFree(t) == Moves(t) => \A s \in Txn \ {t} : ~HasRelease(s, selected[t])

\* t has a release whose key s waits for, and waits for the package that s has. A
\* transaction that waits and holds something is one of the two: cycles have two.
Entangled(t, s) ==
  /\ pc[t] = "package" /\ PackageTaken(t, s)
  /\ pc[s] = "point" /\ Moves(s) /\ HasRelease(t, selected[s])

Deadlocked(t) == \E s \in Txn : Entangled(t, s) \/ Entangled(s, t)

\* The statuses t sees: committed ones, and its own.
Seen(t) == [status EXCEPT ![req[t].version] = outcome[t]]

Approvers(v) == {u \in User : decision[v][u] = "approved"}

\* The status a request finds its release in, and the one it leaves it in.
From(k) == IF k = "submit" THEN "absent" ELSE IF k = "yank" THEN "published" ELSE "pending"

ToAsAsked(k) == IF k = "submit" THEN "pending" ELSE k

To(k) ==
  IF k = "submit" THEN "pending"
  ELSE IF k = "approve" THEN "published"
  ELSE IF k = "reject" THEN "rejected"
  ELSE "yanked"

\* A release in this status, submitted by somebody else, lets the request through.
Allowed(r, found) ==
  /\ found = From(r.kind)
  /\ r.kind \in {"approve", "reject"} => submitter[r.version] # r.user

\* A submission has nothing more to write.
AfterLocks(k) ==
  IF k # "submit" THEN "member" ELSE IF Triggers THEN "select" ELSE "commit"

-----------------------------------------------------------------------------
(* The statements.                                                          *)

End(t) ==
  /\ Goto(t, "idle")
  /\ req' = [req EXCEPT ![t] = NoRequest]
  /\ held' = [held EXCEPT ![t] = {}]
  /\ outcome' = [outcome EXCEPT ![t] = "absent"]
  /\ selected' = [selected EXCEPT ![t] = 0]

FailKeepsLocks(t) ==
  /\ Goto(t, "idle")
  /\ req' = [req EXCEPT ![t] = NoRequest]
  /\ UNCHANGED <<stored, reviewers, held, outcome, selected>>

\* The statement throws: ROLLBACK, nothing of the transaction remains.
Fail(t) == End(t) /\ UNCHANGED <<stored, reviewers>>

Begin(t, r) ==
  /\ pc[t] = "idle"
  /\ req' = [req EXCEPT ![t] = r]
  /\ Goto(t, "release")
  /\ UNCHANGED <<stored, reviewers, held, outcome, selected>>

\* The release as the statement finds it: there to be inserted, or to be read.
Found(t) ==
  LET r == req[t] IN
  /\ (r.kind = "submit") <=> (status[r.version] = "absent")
  /\ outcome' = [outcome EXCEPT ![t] = IF r.kind = "submit" THEN "pending" ELSE status[r.version]]

SelectRelease(t) ==
  /\ pc[t] = "release"
  /\ Found(t)
  /\ Goto(t, IF req[t].kind = "reject" THEN "member" ELSE "package")
  /\ UNCHANGED <<stored, reviewers, req, held, selected>>

\* Submit inserts the release. The others select it FOR UPDATE and find it as it
\* is once the lock is theirs.
LockRelease(t) ==
  /\ pc[t] = "release"
  /\ ReleaseFree(t)
  /\ Found(t)
  /\ Goto(t, IF req[t].kind = "reject" THEN "member" ELSE "package")
  /\ held' = [held EXCEPT ![t] = @ \cup {"release"}]
  /\ UNCHANGED <<stored, reviewers, req, selected>>

\* A version that is taken is not inserted again; a release that nobody committed
\* is not found, without waiting. An author without the role inserts nothing.
Refuse(t) ==
  LET r == req[t] IN
  /\ pc[t] = "release"
  /\ \/ r.kind = "submit"
     \/ r.kind # "submit" /\ status[r.version] = "absent"
  /\ Fail(t)

LockReleaseOnly(t) ==
  /\ pc[t] = "package"
  /\ Goto(t, AfterLocks(req[t].kind))
  /\ UNCHANGED <<stored, reviewers, req, held, outcome, selected>>

\* The same statement goes on to the package row: the join selects it FOR
\* UPDATE too, the foreign key of an insert FOR KEY SHARE.
LockPackage(t) ==
  /\ pc[t] = "package"
  /\ PackageFree(t)
  /\ held' = [held EXCEPT ![t] = @ \cup {"package"}]
  /\ Goto(t, AfterLocks(req[t].kind))
  /\ UNCHANGED <<stored, reviewers, req, outcome, selected>>

\* The status and submitter that were read, and getMember.
CheckMember(t) ==
  LET r == req[t] IN
  /\ pc[t] = "member"
  /\ IF Allowed(r, outcome[t]) /\ r.user \in reviewers
       THEN /\ Goto(t, IF r.kind = "yank" THEN "update" ELSE "decide")
            /\ UNCHANGED <<stored, reviewers, req, held, outcome, selected>>
       ELSE Fail(t)

DecideOutsideTransaction(t) ==
  LET r == req[t] IN
  /\ pc[t] = "decide"
  /\ decision[r.version][r.user] = "none"
  /\ Goto(t, IF r.kind = "approve" THEN "count" ELSE "update")
  /\ decision' = [decision EXCEPT ![r.version][r.user] =
                    IF r.kind = "approve" THEN "approved" ELSE "rejected"]
  /\ UNCHANGED <<status, submitter, projection, audit, reviewers, req, held, outcome, selected>>

\* What registry_release_approvals_integrity lets through: it reads release and
\* reviewer again.
DecisionSound(r) ==
  /\ Allowed(r, status[r.version])
  /\ r.user \in reviewers
  /\ r.kind = "approve" => Cardinality(Approvers(r.version)) < 2

\* The decision is inserted, once per reviewer.
Decide(t) ==
  LET r == req[t] IN
  /\ pc[t] = "decide"
  /\ \/ /\ Triggers /\ ~DecisionSound(r)
        /\ Goto(t, "stopped")
        /\ UNCHANGED <<stored, reviewers, req, held, outcome, selected>>
     \/ /\ Triggers => DecisionSound(r)
        /\ decision[r.version][r.user] = "none"
        /\ Goto(t, IF r.kind = "approve" THEN "count" ELSE "update")
        /\ UNCHANGED <<stored, reviewers, req, held, outcome, selected>>
     \/ /\ Triggers => DecisionSound(r)
        /\ decision[r.version][r.user] # "none"
        /\ Fail(t)

\* The approvals it sees, its own included. Without a second one the release is
\* left alone and no deferred trigger runs.
Count(t) ==
  /\ pc[t] = "count"
  /\ Goto(t, IF Cardinality(Approvers(req[t].version) \cup {req[t].user}) >= 2
               THEN "update" ELSE "commit")
  /\ UNCHANGED <<stored, reviewers, req, held, outcome, selected>>

\* UPDATE ... WHERE status = ... RETURNING id: it needs the row lock, which is
\* there already. Reject and yank insist on having found the row, a publication
\* goes on without; the trigger registry_releases_immutable_payload insists on
\* exactly two approvals.
Update(t) ==
  LET r == req[t]
      found == status[r.version] = From(r.kind)
      sound == r.kind = "approve" => Cardinality(Approvers(r.version) \cup {r.user}) = 2
  IN
  /\ pc[t] = "update"
  /\ \A s \in Txn \ {t} : ~HasRelease(s, r.version)
  /\ \/ ~found /\ r.kind # "approve" /\ Fail(t)
     \/ /\ found /\ Triggers /\ ~sound
        /\ Goto(t, "stopped")
        /\ UNCHANGED <<stored, reviewers, req, held, outcome, selected>>
     \/ /\ found => (Triggers => sound)
        /\ found \/ r.kind = "approve"
        /\ held' = [held EXCEPT ![t] = @ \cup {"release"}]
        /\ outcome' = [outcome EXCEPT ![t] = IF found THEN To(r.kind) ELSE status[r.version]]
        /\ Goto(t, IF r.kind # "reject" THEN "project"
                   ELSE IF Triggers THEN "select" ELSE "commit")
        /\ UNCHANGED <<stored, reviewers, req, selected>>

\* #refreshPackageDiscoveryProjection, its SELECT: the latest published release.
Project(t) ==
  /\ pc[t] = "project"
  /\ selected' = [selected EXCEPT ![t] = LatestOf(Seen(t))]
  /\ Goto(t, "point")
  /\ UNCHANGED <<stored, reviewers, req, held, outcome>>

\* Its UPDATE of the package row, which t has locked. The foreign key locks the
\* release FOR KEY SHARE, and waits for whoever has it FOR UPDATE.
Point(t) ==
  /\ pc[t] = "point"
  /\ KeyFree(t)
  /\ held' = [held EXCEPT ![t] = IF Moves(t) THEN @ \cup {"latest"} ELSE @]
  /\ Goto(t, IF Triggers THEN "select" ELSE "commit")
  /\ UNCHANGED <<stored, reviewers, req, outcome, selected>>

WroteProjection(t) == outcome[t] \in {"published", "yanked"}

\* registry_validate_discovery_projection, first statement: the package row.
ValidateSelect(t) ==
  /\ pc[t] = "select"
  /\ selected' = [selected EXCEPT ![t] = IF WroteProjection(t) THEN @ ELSE projection]
  /\ Goto(t, "compare")
  /\ UNCHANGED <<stored, reviewers, req, held, outcome>>

\* Second statement, with a snapshot of its own: the releases.
ValidateCompare(t) ==
  /\ pc[t] = "compare"
  /\ Goto(t, IF selected[t] = LatestOf(Seen(t)) THEN "commit" ELSE "stopped")
  /\ UNCHANGED <<stored, reviewers, req, held, outcome, selected>>

Events(t) ==
  LET r == req[t]
      event(a) == [action |-> a, version |-> r.version, actor |-> r.user]
  IN  IF r.kind = "submit" THEN {event("submitted")}
      ELSE IF r.kind = "reject" THEN {event("rejected")}
      ELSE IF r.kind = "yank" THEN {event("yanked")}
      ELSE {event("approved")} \cup (IF outcome[t] = "published" THEN {event("published")} ELSE {})

\* Everything the transaction wrote, the audit events of the request included,
\* is there for the others from now on.
Commit(t) ==
  LET r == req[t] IN
  /\ pc[t] = "commit"
  /\ status' = Seen(t)
  /\ submitter' = [submitter EXCEPT ![r.version] = IF r.kind = "submit" THEN r.user ELSE @]
  /\ decision' = [decision EXCEPT ![r.version][r.user] =
                    IF r.kind = "approve" THEN "approved"
                    ELSE IF r.kind = "reject" THEN "rejected" ELSE @]
  /\ projection' = IF WroteProjection(t) THEN selected[t] ELSE projection
  /\ audit' = audit \cup Events(t)
  /\ End(t)
  /\ UNCHANGED reviewers

Rollback(t) == pc[t] = "stopped" /\ Fail(t)

\* PostgreSQL finds the cycle and aborts one transaction, whichever; its request
\* ends with an error and is not tried again.
Abort(t) == Deadlocked(t) /\ Fail(t)

\* The connection or the server is lost before COMMIT took effect.
Lose(t) == pc[t] # "idle" /\ Fail(t)

\* Another request gives u the role of a reviewer, or takes it away.
ChangeRole(u) ==
  /\ reviewers' = IF u \in reviewers THEN reviewers \ {u} ELSE reviewers \cup {u}
  /\ Cardinality(reviewers') >= MinReviewers
  /\ UNCHANGED <<stored, pc, req, held, outcome, selected>>

-----------------------------------------------------------------------------

Step(t) ==
  \/ LockRelease(t) \/ Refuse(t) \/ LockPackage(t) \/ CheckMember(t) \/ Decide(t)
  \/ Count(t) \/ Update(t) \/ Project(t) \/ Point(t)
  \/ ValidateSelect(t) \/ ValidateCompare(t) \/ Commit(t) \/ Rollback(t) \/ Abort(t)

Next ==
  \/ \E t \in Txn :
       \/ \E r \in Request : Begin(t, r)
       \/ Step(t)
       \/ Lose(t)
  \/ \E u \in User : ChangeRole(u)

Spec == Init /\ [][Next]_vars

\* The service sends the next statement when it has the answer to the last one,
\* and PostgreSQL executes it. Whoever waits for a row is queued: it does not
\* find the row taken by somebody else for ever.
Fairness ==
  \A t \in Txn :
    /\ WF_vars(Step(t))
    /\ SF_vars(LockRelease(t)) /\ SF_vars(LockPackage(t)) /\ SF_vars(Point(t))

-----------------------------------------------------------------------------
(* Properties.                                                              *)

\* What is or was published has been approved by exactly two people, neither of
\* them its submitter, however their requests overlapped: approveRelease and
\* the CHECK two_person_approval of migration 007.
TwoPersonRule ==
  \A v \in Version :
    status[v] \in {"published", "yanked"} =>
      Cardinality(Approvers(v)) = 2 /\ submitter[v] \notin Approvers(v)

\* Two approvals publish: no release stays pending because two reviewers
\* approved it at the same time and each counted one approval.
NoApprovedPending ==
  \A v \in Version : status[v] = "pending" => Cardinality(Approvers(v)) < 2

\* Two people, and as soon as there are two: what approveRelease counts is what
\* its transaction commits.
FourEyes == TwoPersonRule /\ NoApprovedPending

Happened(a, v) == {u \in User : [action |-> a, version |-> v, actor |-> u] \in audit}

\* The audit log tells exactly what the tables say, whatever transactions were
\* lost or rolled back on the way: who submitted and decided, and once each,
\* that a release was published or yanked.
AuditAgrees ==
  \A v \in Version :
    /\ Happened("submitted", v) = {submitter[v]} \ {NoUser}
    /\ Happened("approved", v) = Approvers(v)
    /\ Happened("rejected", v) = {u \in User : decision[v][u] = "rejected"}
    /\ Cardinality(Happened("published", v)) = IF status[v] \in {"published", "yanked"} THEN 1 ELSE 0
    /\ Cardinality(Happened("yanked", v)) = IF status[v] = "yanked" THEN 1 ELSE 0

\* A trigger turns down what the checks of the service let through in two cases
\* only: the reviewer has lost the role since, or a rejection was checked against
\* two snapshots. Locks keep everything else as the service found it.
TriggersAgree ==
  [][\A t \in Txn :
       pc[t] # "stopped" /\ pc'[t] = "stopped" =>
         \/ pc[t] = "decide" /\ req[t].user \notin reviewers
         \/ pc[t] = "compare" /\ req[t].kind = "reject"]_vars

\* Overlapping transactions have the effect of requests handled one at a time,
\* the projection of the latest published release included.
ImplementsGovernance == Governance!Spec

\* Nobody loses a submission, a rejection or the approval of a pending release to
\* a deadlock: one of the two is a yank, the other one a yank as well or an
\* approval that comes too late.
OnlyYanksDeadlock ==
  \A t \in Txn :
    Deadlocked(t) => \/ req[t].kind = "yank"
                     \/ req[t].kind = "approve" /\ status[req[t].version] # "pending"

\* Every request gets an answer, if only that it was aborted: whoever waits for
\* a lock gets it or is found in a deadlock.
EveryRequestEnds == \A t \in Txn : []<>(pc[t] = "idle")

\* migrations/009:284 raises "registry package discovery projection is stale":
\* then it should be.
StaleIsReported ==
  \A t \in Txn :
    pc[t] = "compare" /\ ~WroteProjection(t) /\ projection = LatestOf(status)
      => selected[t] = LatestOf(Seen(t))

=============================================================================
