-------------------------- MODULE ReleaseStoreProofs --------------------------
(***************************************************************************)
(* Proofs about ReleaseStore for any connections, versions and people, with *)
(* or without the triggers: overlapping transactions keep the two-person     *)
(* rule, the triggers agree with the service but for a role that changes, only *)
(* yanks deadlock, and the transactions implement ReleaseGovernance.         *)
(***************************************************************************)
EXTENDS ReleaseStore, FiniteSetTheorems, WellFoundedInduction, TLAPS

\* The rows a transaction has locked by the time of each statement.
Holds(t) ==
  /\ pc[t] # "idle" => req[t] \in Request
  /\ pc[t] \in {"idle", "release"} => held[t] = {}
  /\ pc[t] \notin {"idle", "release"} => "release" \in held[t]
  /\ pc[t] \notin {"idle", "release", "package"} /\ req[t].kind # "reject"
       => "package" \in held[t]

\* No row is locked by two transactions that may not share it.
Exclusive ==
  \A s, t \in Txn :
    s # t =>
      /\ "release" \in held[s] /\ "release" \in held[t] => req[s].version # req[t].version
      /\ "package" \in held[s] /\ "package" \in held[t]
           => req[s].kind = "submit" /\ req[t].kind = "submit"

\* The statements that belong to each kind of request.
Places(k) ==
  IF k = "submit" THEN {"package", "select", "compare", "commit"}
  ELSE IF k = "approve" THEN 
    {"package", "member", "decide", "count", "update", "project", "point", "select", "compare", "commit"}
  ELSE IF k = "reject" THEN {"member", "decide", "update", "select", "compare", "commit"}
  ELSE {"package", "member", "update", "project", "point", "select", "compare", "commit"}

Before == {"package", "member", "decide", "count", "update"}
After  == {"project", "point", "select", "compare", "commit"}

\* The release is as the request wants it.
Admitted(t) == Allowed(req[t], status[req[t].version])

WithMine(t) == Cardinality(Approvers(req[t].version) \cup {req[t].user})

\* What a transaction found when it got its locks still holds, and what it is
\* about to write follows from it.
Checked(t) ==
  pc[t] \notin {"idle", "release", "stopped"} =>
    /\ pc[t] \in Places(req[t].kind)
    /\ req[t].kind = "submit" => status[req[t].version] = "absent"
    /\ req[t].kind # "submit" /\ pc[t] \in Before => outcome[t] = status[req[t].version]
    /\ pc[t] \notin {"package", "member"} => Admitted(t)
    /\ req[t].kind \in {"approve", "reject"} /\ pc[t] \notin {"package", "member", "decide"}
         => decision[req[t].version][req[t].user] = "none"
    /\ req[t].kind = "submit" => outcome[t] = "pending"
    /\ req[t].kind = "reject" /\ pc[t] \in After => outcome[t] = "rejected"
    /\ req[t].kind = "yank" /\ pc[t] \in After => outcome[t] = "yanked"
    /\ req[t].kind = "approve" /\ pc[t] = "update" => WithMine(t) = 2
    /\ req[t].kind = "approve" /\ pc[t] \in After \ {"commit"}
         => outcome[t] = "published" /\ WithMine(t) = 2
    /\ req[t].kind = "approve" /\ pc[t] = "commit"
         => \/ outcome[t] = "published" /\ WithMine(t) = 2
            \/ outcome[t] = "pending" /\ WithMine(t) < 2

\* The projection it is about to write, or has compared, is the right one.
Selected(t) ==
  /\ pc[t] \in {"point", "select", "compare", "commit"} /\ req[t].kind # "submit" /\ WroteProjection(t)
       => selected[t] = LatestOf(Seen(t))
  /\ pc[t] = "compare" /\ req[t].kind # "reject" => selected[t] = LatestOf(Seen(t))

TxnInv(t) == Holds(t) /\ Checked(t) /\ Selected(t)

\* The tables.
ReleaseInv(v) ==
  /\ IsFiniteSet(Approvers(v))
  /\ status[v] = "absent" => Approvers(v) = {}
  /\ status[v] = "pending" => Cardinality(Approvers(v)) < 2 /\ submitter[v] \notin Approvers(v)
  /\ status[v] \in {"published", "yanked"} =>
       Cardinality(Approvers(v)) = 2 /\ submitter[v] \notin Approvers(v)

\* Only finitely many versions are published, so that there is a latest one.
Bounded == \E b \in Nat : \A v \in Version : status[v] = "published" => v <= b

Projected == projection = LatestOf(status)

IInv ==
  /\ TypeOK
  /\ Bounded
  /\ Projected
  /\ Exclusive
  /\ \A v \in Version : ReleaseInv(v)
  /\ \A t \in Txn : TxnInv(t)

-----------------------------------------------------------------------------
(* The latest published release.                                            *)

\* It depends on which releases are published, and on nothing else.
LEMMA SameLatest ==
  ASSUME NEW s1, NEW s2,
         \A v \in Version : s1[v] = "published" <=> s2[v] = "published"
  PROVE  LatestOf(s1) = LatestOf(s2)
<1> DEFINE P(s) == {v \in Version : s[v] = "published"}
           Greatest(S) == IF S = {} THEN 0 ELSE CHOOSE v \in S : \A w \in S : w <= v
<1>1. LatestOf(s1) = Greatest(P(s1)) /\ LatestOf(s2) = Greatest(P(s2))
  BY DEF LatestOf, Governance!LatestOf
<1>2. P(s1) = P(s2)
  OBVIOUS
<1> HIDE DEF P, Greatest
<1> QED
  BY <1>1, <1>2

\* The least distance from a bound is that of the greatest element.
LEMMA GreatestExists ==
  ASSUME NEW P \in SUBSET Nat, P # {}, NEW b \in Nat, \A v \in P : v <= b
  PROVE  \E m \in P : \A w \in P : w <= m
<1> DEFINE T == {n \in Nat : \E x \in P : n = b - x}
<1>1. \A x \in P : x \in Nat /\ b - x \in T
  OBVIOUS
<1>2. T # {} /\ T \subseteq Nat
  BY <1>1
<1>3. PICK n \in T : \A k \in T : ~ (<<k, n>> \in OpToRel(<, Nat))
  BY <1>2, NatLessThanWellFounded, WFMin, Zenon
<1>4. \A k \in T : ~ (k < n)
  BY <1>3 DEF OpToRel
<1>5. PICK m \in P : n = b - m
  OBVIOUS
<1>6. \A w \in P : w <= m
  <2> TAKE w \in P
  <2>1. ~ (b - w < n) /\ w \in Nat /\ m \in Nat /\ n \in Nat
    BY <1>1, <1>4
  <2> QED
    BY <2>1, <1>5
<1> QED
  BY <1>6

\* The latest published release is one of the package, or none.
LEMMA LatestType ==
  ASSUME NEW s, NEW b \in Nat, \A v \in Version : s[v] = "published" => v <= b
  PROVE  \/ LatestOf(s) = 0 /\ \A v \in Version : s[v] # "published"
         \/ /\ LatestOf(s) \in Version /\ s[LatestOf(s)] = "published"
            /\ \A v \in Version : s[v] = "published" => v <= LatestOf(s)
<1> DEFINE P == {v \in Version : s[v] = "published"}
<1>1. P = {} => LatestOf(s) = 0
  BY DEF LatestOf, Governance!LatestOf
<1>2. P # {} => \E m \in P : \A w \in P : w <= m
  BY GreatestExists, VersionAssumption
<1>3. P # {} => LatestOf(s) \in P /\ \A w \in P : w <= LatestOf(s)
  BY <1>2 DEF LatestOf, Governance!LatestOf
<1> QED
  BY <1>1, <1>3

-----------------------------------------------------------------------------
(* Values.                                                                  *)

\* A request names a version and a person; it leads from a state to a state.
LEMMA Requests ==
  ASSUME NEW r \in Request
  PROVE  /\ r.kind \in {"submit", "approve", "reject", "yank"}
         /\ r.version \in Version /\ r.user \in User
         /\ From(r.kind) \in State /\ To(r.kind) \in State
BY DEF Request, From, To, State, Governance!State

\* What a transaction sees is well-formed, and finitely many versions are
\* published in it.
LEMMA SeenType ==
  ASSUME TypeOK, Bounded, NEW t \in Txn, req[t] \in Request
  PROVE  /\ Seen(t) \in [Version -> State]
         /\ LatestOf(Seen(t)) \in Version \cup {0}
         /\ LatestOf(Seen(t)) # 0 =>
              /\ Seen(t)[LatestOf(Seen(t))] = "published"
              /\ \A v \in Version : Seen(t)[v] = "published" => v <= LatestOf(Seen(t))
<1>1. Seen(t) \in [Version -> State]
  BY DEF TypeOK, Seen
<1>2. PICK b \in Nat : \A v \in Version : status[v] = "published" => v <= b
  BY DEF Bounded
<1>3. req[t].version \in Version /\ req[t].version \in Nat
  BY Requests, VersionAssumption
<1>4. PICK c \in Nat : b <= c /\ req[t].version <= c
  BY <1>2, <1>3
<1>5. \A v \in Version : Seen(t)[v] = "published" => v <= c
  BY <1>2, <1>3, <1>4, VersionAssumption DEF Seen, TypeOK
<1> QED
  BY <1>1, <1>4, <1>5, LatestType

\* The invariant holds of a new package.
LEMMA InitIInv == Init => IInv
<1> SUFFICES ASSUME Init PROVE IInv
  OBVIOUS
<1>1. TypeOK
  BY DEF Init, TypeOK, Pc, State, Governance!State
<1>2. \A v \in Version : Approvers(v) = {}
  BY DEF Init, Approvers
<1>3. \A v \in Version : ReleaseInv(v)
  BY <1>2, FS_EmptySet DEF Init, ReleaseInv
<1>4. \A t \in Txn : TxnInv(t)
  BY DEF Init, TxnInv, Holds, Checked, Selected
<1>5. Exclusive
  BY DEF Init, Exclusive
<1>6. Bounded
  BY DEF Init, Bounded
<1>7. Projected
  <2>1. {v \in Version : status[v] = "published"} = {}
    BY DEF Init
  <2> QED
    BY <2>1 DEF Init, Projected, LatestOf, Governance!LatestOf
<1> QED
  BY <1>1, <1>3, <1>4, <1>5, <1>6, <1>7 DEF IInv

-----------------------------------------------------------------------------
(* What the invariant makes of the steps that check something again.        *)

\* A decision that gets as far as its insert is one that the trigger lets through,
\* unless the reviewer has lost the role.
LEMMA DecideEffect ==
  ASSUME IInv, NEW t \in Txn, Decide(t)
  PROVE  \/ Fail(t)
         \/ /\ pc[t] = "decide" /\ req[t].kind \in {"approve", "reject"}
            /\ \/ Goto(t, "stopped") /\ req[t].user \notin reviewers
               \/ /\ decision[req[t].version][req[t].user] = "none"
                  /\ Goto(t, IF req[t].kind = "approve" THEN "count" ELSE "update")
            /\ UNCHANGED <<stored, reviewers, req, held, outcome, selected>>
<1>1. pc[t] = "decide" /\ req[t] \in Request
  BY DEF Decide, IInv, TxnInv, Holds
<1>2. req[t].kind \in {"approve", "reject"} /\ Admitted(t)
  BY <1>1, Requests DEF IInv, TxnInv, Checked, Places
<1>3. status[req[t].version] = "pending"
  BY <1>2 DEF Admitted, Allowed, From
<1>4. Cardinality(Approvers(req[t].version)) < 2
  BY <1>1, <1>3, Requests DEF IInv, ReleaseInv
<1>5. req[t].user \in reviewers => DecisionSound(req[t])
  BY <1>2, <1>4 DEF DecisionSound, Admitted
<1> QED
  BY <1>1, <1>2, <1>5 DEF Decide

\* An update finds its release, and a publication exactly two approvals.
LEMMA UpdateEffect ==
  ASSUME IInv, NEW t \in Txn, Update(t)
  PROVE  /\ pc[t] = "update" /\ req[t].kind # "submit"
         /\ held' = [held EXCEPT ![t] = @ \cup {"release"}]
         /\ outcome' = [outcome EXCEPT ![t] = To(req[t].kind)]
         /\ Goto(t, IF req[t].kind # "reject" THEN "project"
                    ELSE IF Triggers THEN "select" ELSE "commit")
         /\ UNCHANGED <<stored, reviewers, req, selected>>
<1>1. pc[t] = "update" /\ req[t] \in Request
  BY DEF Update, IInv, TxnInv, Holds
<1>2. Checked(t)
  BY DEF IInv, TxnInv
<1>3. req[t].kind # "submit" /\ status[req[t].version] = From(req[t].kind)
  BY <1>1, <1>2 DEF Checked, Places, Admitted, Allowed
<1>4. req[t].kind = "approve"
        => Cardinality(Approvers(req[t].version) \cup {req[t].user}) = 2
  BY <1>1, <1>2 DEF Checked, WithMine
<1> QED
  BY <1>1, <1>3, <1>4 DEF Update

\* A comparison fails only for a rejection.
LEMMA CompareEffect ==
  ASSUME IInv, NEW t \in Txn, ValidateCompare(t)
  PROVE  /\ pc[t] = "compare"
         /\ \/ Goto(t, "commit")
            \/ Goto(t, "stopped") /\ req[t].kind = "reject"
         /\ UNCHANGED <<stored, reviewers, req, held, outcome, selected>>
BY DEF ValidateCompare, IInv, TxnInv, Selected

-----------------------------------------------------------------------------
(* Every step keeps the type of the variables.                              *)

\* Whatever a step writes is of the type of its variable.
LEMMA TypeStep == IInv /\ [Next]_vars => TypeOK'
<1> SUFFICES ASSUME IInv, [Next]_vars
             PROVE  TypeOK'
  OBVIOUS
<1> TypeOK /\ \A t \in Txn : Holds(t)
  BY DEF IInv, TxnInv
<1> USE DEF TypeOK, Pc
<1>1. CASE UNCHANGED vars
  BY <1>1 DEF vars
<1> SUFFICES ASSUME NEW t \in Txn,
                    (\E r \in Request : Begin(t, r)) \/ Step(t) \/ Lose(t)
             PROVE  TypeOK'
  BY <1>1 DEF Next, ChangeRole, stored
<1> "absent" \in State /\ "pending" \in State
  BY DEF State, Governance!State
<1>2. CASE \E r \in Request : Begin(t, r)
  BY <1>2 DEF Begin, Goto, stored
<1>3. ASSUME Fail(t) PROVE TypeOK'
  BY <1>3 DEF Fail, End, Goto, stored
<1> DEFINE r == req[t]
<1>4. pc[t] # "idle" => r \in Request /\ From(r.kind) \in State /\ To(r.kind) \in State
                        /\ r.version \in Version /\ r.user \in User
  BY Requests DEF Holds
<1>5. ASSUME LockRelease(t) PROVE TypeOK'
  <2>1. pc[t] = "release" /\ status[r.version] \in State
    BY <1>4, <1>5 DEF LockRelease
  <2>2. outcome' \in [Txn -> State]
    BY <1>5, <2>1 DEF LockRelease, Found
  <2> QED
    BY <1>5, <2>2 DEF LockRelease, Goto, stored
<1>6. ASSUME LockPackage(t) PROVE TypeOK'
  BY <1>6 DEF LockPackage, AfterLocks, Goto, stored
<1>7. ASSUME Decide(t) PROVE TypeOK'
  BY <1>3, <1>7, DecideEffect DEF Goto, stored
<1>8. ASSUME Count(t) PROVE TypeOK'
  BY <1>8 DEF Count, Goto, stored
<1>9. ASSUME Update(t) PROVE TypeOK'
  <2>1. To(r.kind) \in State
    BY <1>4, <1>9, UpdateEffect
  <2>2. outcome' \in [Txn -> State]
    BY <2>1, <1>9, UpdateEffect
  <2>3. held' \in [Txn -> SUBSET {"release", "package", "latest"}]
    BY <1>9, UpdateEffect
  <2>4. pc' \in [Txn -> Pc]
    BY <1>9, UpdateEffect DEF Goto
  <2> QED
    BY <2>2, <2>3, <2>4, <1>9, UpdateEffect DEF stored
<1>10. ASSUME Project(t) PROVE TypeOK'
  <2>1. LatestOf(Seen(t)) \in Version \cup {0}
    BY <1>4, <1>10, SeenType DEF Project, IInv
  <2> QED
    BY <2>1, <1>10 DEF Project, Goto, stored
<1>11. ASSUME ValidateSelect(t) \/ Point(t) PROVE TypeOK'
  BY <1>11 DEF ValidateSelect, Point, Goto, stored
<1>12. ASSUME ValidateCompare(t) PROVE TypeOK'
  BY <1>12, CompareEffect DEF Goto, stored
<1>13. ASSUME Commit(t) PROVE TypeOK'
  <2>1. pc[t] = "commit" /\ r \in Request /\ r.version \in Version /\ r.user \in User
    BY <1>4, <1>13 DEF Commit
  <2>2. Seen(t) \in [Version -> State]
    BY <2>1, SeenType DEF IInv
  <2>3. Events(t) \subseteq Event
    BY <2>1 DEF Events, Event
  <2>4. status' \in [Version -> State] /\ audit' \subseteq Event
    BY <1>13, <2>2, <2>3 DEF Commit
  <2>5. submitter' \in [Version -> User \cup {NoUser}]
    BY <1>13, <2>1 DEF Commit
  <2>6. decision' \in [Version -> [User -> {"none", "approved", "rejected"}]]
    BY <1>13, <2>1 DEF Commit
  <2>7. projection' \in Version \cup {0}
    BY <1>13 DEF Commit
  <2>8. End(t)
    BY <1>13 DEF Commit
  <2> QED
    BY <1>13, <2>4, <2>5, <2>6, <2>7, <2>8 DEF Commit, End, Goto
<1>14. ASSUME CheckMember(t) PROVE TypeOK'
  BY <1>3, <1>14 DEF CheckMember, Goto, stored
<1> QED
  BY <1>2, <1>3, <1>5, <1>6, <1>7, <1>8, <1>9, <1>10, <1>11, <1>12, <1>13, <1>14
  DEF Step, Refuse, Rollback, Abort, Lose

-----------------------------------------------------------------------------
(* Row locks.                                                               *)

Act(t) == (\E r \in Request : Begin(t, r)) \/ Step(t) \/ Lose(t)

\* A step of one transaction leaves what the others know and hold alone.
LEMMA OthersUnchanged ==
  ASSUME IInv, NEW s \in Txn, Act(s), NEW t \in Txn, t # s
  PROVE  /\ pc'[t] = pc[t] /\ req'[t] = req[t] /\ held'[t] = held[t]
         /\ outcome'[t] = outcome[t] /\ selected'[t] = selected[t]
<1> TypeOK
  BY DEF IInv
<1> USE DEF TypeOK
<1>1. CASE \E r \in Request : Begin(s, r)
  BY <1>1 DEF Begin, Goto
<1>2. ASSUME End(s)
      PROVE  /\ pc'[t] = pc[t] /\ req'[t] = req[t] /\ held'[t] = held[t]
             /\ outcome'[t] = outcome[t] /\ selected'[t] = selected[t]
  BY <1>2 DEF End, Goto
<1>3. CASE Lose(s) \/ Refuse(s) \/ Rollback(s) \/ Abort(s) \/ Commit(s)
  BY <1>2, <1>3 DEF Lose, Refuse, Rollback, Abort, Commit, Fail
<1>4. CASE LockRelease(s) \/ LockPackage(s) \/ CheckMember(s) \/ Count(s)
  BY <1>2, <1>4 DEF LockRelease, Found, LockPackage, CheckMember, Count, Goto, Fail
<1>5. CASE Decide(s)
  BY <1>2, <1>5, DecideEffect DEF Goto, Fail
<1>6. CASE Update(s)
  BY <1>6, UpdateEffect DEF Goto
<1>7. CASE Project(s) \/ Point(s) \/ ValidateSelect(s)
  BY <1>7 DEF Project, Point, ValidateSelect, Goto
<1>8. CASE ValidateCompare(s)
  BY <1>8, CompareEffect DEF Goto
<1> QED
  BY <1>1, <1>3, <1>4, <1>5, <1>6, <1>7, <1>8 DEF Act, Step

\* The locks of the transaction that takes a step.
LEMMA HoldsStep ==
  ASSUME IInv, NEW t \in Txn, Act(t)
  PROVE  Holds(t)'
<1> TypeOK /\ Holds(t) /\ Checked(t)
  BY DEF IInv, TxnInv
<1> USE DEF Holds
<1>1. CASE \E r \in Request : Begin(t, r)
  BY <1>1 DEF Begin, Goto, TypeOK
<1>2. ASSUME End(t) PROVE Holds(t)'
  BY <1>2 DEF End, Goto, TypeOK
<1>3. CASE Lose(t) \/ Refuse(t) \/ Rollback(t) \/ Abort(t) \/ Commit(t)
  BY <1>2, <1>3 DEF Lose, Refuse, Rollback, Abort, Commit, Fail
<1>4. CASE LockRelease(t)
  BY <1>4 DEF LockRelease, Goto, TypeOK
<1>5. CASE LockPackage(t)
  BY <1>5, Requests DEF LockPackage, AfterLocks, Goto, TypeOK
<1>6. CASE Decide(t)
  BY <1>2, <1>6, DecideEffect DEF Goto, TypeOK, Fail
<1>7. CASE Count(t)
  BY <1>7 DEF Count, Goto, TypeOK
<1>8. CASE Update(t)
  BY <1>8, UpdateEffect DEF Goto, TypeOK
<1>9. CASE Project(t) \/ Point(t) \/ ValidateSelect(t)
  BY <1>9 DEF Project, Point, ValidateSelect, Goto, TypeOK
<1>10. CASE ValidateCompare(t)
  BY <1>10, CompareEffect DEF Goto, TypeOK
<1>11. CASE CheckMember(t)
  BY <1>2, <1>11 DEF CheckMember, Goto, TypeOK, Fail
<1> QED
  BY <1>1, <1>3, <1>4, <1>5, <1>6, <1>7, <1>8, <1>9, <1>10, <1>11 DEF Act, Step

Excludes(s, t) ==
  /\ "release" \in held[s] /\ "release" \in held[t] => req[s].version # req[t].version
  /\ "package" \in held[s] /\ "package" \in held[t]
       => req[s].kind = "submit" /\ req[t].kind = "submit"

\* No step locks a row that another transaction holds.
LEMMA ExclusiveStep ==
  ASSUME IInv, NEW s \in Txn, Act(s)
  PROVE  Exclusive'
<1>1. ASSUME NEW t \in Txn, t # s
      PROVE  Excludes(s, t)'
  <2> TypeOK /\ Holds(s) /\ Excludes(s, t)
    BY <1>1 DEF IInv, TxnInv, Exclusive, Excludes
  <2>1. req'[t] = req[t] /\ held'[t] = held[t]
    BY <1>1, OthersUnchanged
  <2>2. CASE held'[s] = {}
    BY <2>2 DEF Excludes
  <2>3. CASE held'[s] = held[s] /\ req'[s] = req[s]
    BY <2>1, <2>3 DEF Excludes
  <2>4. CASE \E r \in Request : Begin(s, r)
    BY <2>2, <2>4 DEF Begin, Goto, stored, Holds
  <2>5. ASSUME End(s) PROVE Excludes(s, t)'
    BY <2>2, <2>5 DEF End, TypeOK
  <2>6. CASE Lose(s) \/ Refuse(s) \/ Rollback(s) \/ Abort(s) \/ Commit(s)
    BY <2>5, <2>6 DEF Lose, Refuse, Rollback, Abort, Commit, Fail
  <2>7. CASE LockRelease(s)
    BY <1>1, <2>1, <2>7
    DEF LockRelease, ReleaseFree, HasRelease, Excludes, TypeOK, Holds
  <2>8. CASE LockPackage(s)
    BY <1>1, <2>1, <2>8 DEF LockPackage, PackageFree, PackageTaken, Excludes, TypeOK
  <2>9. CASE Decide(s)
    BY <2>3, <2>5, <2>9, DecideEffect DEF Fail
  <2>10. CASE Update(s)
    <3>1. "release" \in held[s]
      BY <2>10, UpdateEffect DEF Holds
    <3>2. held'[s] = held[s] \cup {"release"} /\ req' = req
      BY <2>10, UpdateEffect DEF TypeOK
    <3>3. held'[s] = held[s]
      BY <3>1, <3>2
    <3> QED
      BY <2>3, <3>2, <3>3
  <2>11. CASE Count(s) \/ Project(s) \/ ValidateSelect(s)
    BY <2>3, <2>11 DEF Count, Project, ValidateSelect
  <2>12. CASE ValidateCompare(s)
    BY <2>3, <2>12, CompareEffect
  <2>13. CASE CheckMember(s)
    BY <2>3, <2>5, <2>13 DEF CheckMember, Fail
  <2>14. CASE Point(s)
    <3>1. /\ "release" \in held'[s] <=> "release" \in held[s]
          /\ "package" \in held'[s] <=> "package" \in held[s]
          /\ req'[s] = req[s]
      BY <2>14 DEF Point, TypeOK
    <3> QED
      BY <2>1, <3>1 DEF Excludes
  <2> QED
    BY <2>4, <2>6, <2>7, <2>8, <2>9, <2>10, <2>11, <2>12, <2>13, <2>14 DEF Act, Step
<1>2. ASSUME NEW u \in Txn, NEW t \in Txn, u # s, t # s
      PROVE  (u # t => Excludes(u, t)) => (u # t => Excludes(u, t)')
  BY <1>2, OthersUnchanged DEF Excludes
<1> QED
  BY <1>1, <1>2 DEF IInv, Exclusive, Excludes

-----------------------------------------------------------------------------
(* What a transaction found stays true: its own steps.                      *)

\* Before its commit a transaction changes no table that the others see.
LEMMA OnlyCommitStores ==
  ASSUME IInv, NEW t \in Txn, Act(t), ~Commit(t)
  PROVE  UNCHANGED stored
<1>1. CASE Decide(t)
  BY <1>1, DecideEffect DEF Fail
<1>2. CASE Update(t)
  BY <1>2, UpdateEffect
<1>3. CASE ValidateCompare(t)
  BY <1>3, CompareEffect
<1> QED
  BY <1>1, <1>2, <1>3
  DEF Act, Step, Begin, Lose, Refuse, Rollback, Abort, Fail, LockRelease, LockPackage, CheckMember,
      Count, Project, Point, ValidateSelect

\* Nothing is claimed of a transaction that has ended or not yet locked anything.
LEMMA IdleIsSound ==
  ASSUME TypeOK, NEW t \in Txn, End(t)
  PROVE  Checked(t)' /\ Selected(t)'
<1>1. pc'[t] = "idle"
  BY DEF End, Goto, TypeOK
<1> QED
  BY <1>1 DEF Checked, Selected

\* What a transaction has checked under its locks outlives each of its own steps.
LEMMA CheckedStep ==
  ASSUME IInv, NEW t \in Txn, Act(t)
  PROVE  Checked(t)'
<1> TypeOK /\ Holds(t) /\ Checked(t)
  BY DEF IInv, TxnInv
<1>1. CASE \E r \in Request : Begin(t, r)
  BY <1>1 DEF Begin, Goto, TypeOK, Checked
<1>2. CASE Lose(t) \/ Refuse(t) \/ Rollback(t) \/ Abort(t) \/ Commit(t)
  BY <1>2, IdleIsSound DEF Lose, Refuse, Rollback, Abort, Commit, Fail
<1>3. CASE Commit(t)
  BY <1>3, IdleIsSound DEF Commit
<1> DEFINE r == req[t]
<1> SUFFICES ASSUME ~Commit(t) PROVE Checked(t)'
  BY <1>3
<1> SUFFICES ASSUME Step(t) PROVE Checked(t)'
  BY <1>1, <1>2 DEF Act
<1>4. UNCHANGED stored
  BY OnlyCommitStores DEF Act
<1>5. pc[t] # "idle" => r \in Request
  BY DEF Holds
<1>6. CASE LockRelease(t)
  <2>1. /\ pc[t] = "release" /\ req' = req
        /\ pc'[t] = IF r.kind = "reject" THEN "member" ELSE "package"
        /\ (r.kind = "submit") <=> (status[r.version] = "absent")
        /\ outcome'[t] = IF r.kind = "submit" THEN "pending" ELSE status[r.version]
    BY <1>6 DEF LockRelease, Found, Goto, TypeOK
  <2> QED
    BY <2>1, <1>4, <1>5, Requests DEF Checked, Places, Before, After, stored
<1>7. CASE LockPackage(t)
  <2>1. pc[t] = "package" /\ pc'[t] = AfterLocks(r.kind) /\ req' = req /\ outcome' = outcome
    BY <1>7 DEF LockPackage, Goto, TypeOK
  <2> QED
    BY <2>1, <1>4, <1>5, Requests
    DEF Checked, Places, Before, After, Admitted, Allowed, From, stored, AfterLocks
<1>8. CASE Decide(t)
  <2>1. CASE Fail(t)
    BY <2>1, IdleIsSound DEF Fail
  <2>2. CASE ~Fail(t)
    <3>1. /\ pc[t] = "decide" /\ req' = req /\ outcome' = outcome
          /\ \/ pc'[t] = "stopped"
             \/ /\ decision[r.version][r.user] = "none"
                /\ pc'[t] = IF r.kind = "approve" THEN "count" ELSE "update"
      BY <1>8, <2>2, DecideEffect DEF Goto, TypeOK
    <3> QED
      BY <3>1, <1>4, <1>5, Requests DEF Checked, Places, Before, After, Admitted, Allowed, stored
  <2> QED
    BY <2>1, <2>2
<1>9. CASE Count(t)
  <2>1. /\ pc[t] = "count" /\ req' = req /\ outcome' = outcome
        /\ pc'[t] = IF WithMine(t) >= 2 THEN "update" ELSE "commit"
    BY <1>9 DEF Count, Goto, TypeOK, WithMine
  <2>2. r \in Request /\ r.kind = "approve" /\ status[r.version] = "pending"
    BY <2>1, <1>5, Requests DEF Checked, Places, Admitted, Allowed, From
  <2>3. WithMine(t) \in Nat /\ WithMine(t) <= 2
    <3>1. ReleaseInv(r.version)
      BY <2>2, Requests DEF IInv
    <3>2. IsFiniteSet(Approvers(r.version)) /\ Cardinality(Approvers(r.version)) < 2
      BY <3>1, <2>2 DEF ReleaseInv
    <3> QED
      <4>1. Cardinality(Approvers(r.version)) \in Nat
        BY <3>2, FS_CardinalityType
      <4>2. WithMine(t) = IF r.user \in Approvers(r.version) THEN Cardinality(Approvers(r.version))
                          ELSE Cardinality(Approvers(r.version)) + 1
        BY <3>2, FS_AddElement DEF WithMine
      <4> QED
        BY <3>2, <4>1, <4>2
  <2>4. WithMine(t)' = WithMine(t)
    BY <1>4, <2>1 DEF WithMine, Approvers, stored
  <2> QED
    BY <2>1, <2>2, <2>3, <2>4, <1>4 DEF Checked, Places, Before, After, Admitted, Allowed, stored, From
<1>10. CASE Update(t)
  <2>1. /\ pc[t] = "update" /\ r.kind # "submit" /\ req' = req
        /\ outcome'[t] = To(r.kind)
        /\ pc'[t] \in {"project", "select", "commit"}
        /\ pc'[t] = "project" <=> r.kind # "reject"
    BY <1>10, UpdateEffect DEF Goto, TypeOK
  <2>2. WithMine(t)' = WithMine(t)
    BY <1>4, <2>1 DEF WithMine, Approvers, stored
  <2> QED
    BY <2>1, <2>2, <1>4, <1>5, Requests DEF Checked, Places, Before, After, Admitted, Allowed, stored, To
<1>11. CASE Project(t) \/ Point(t) \/ ValidateSelect(t) \/ ValidateCompare(t)
  <2>1. /\ pc[t] \in {"project", "point", "select", "compare"} /\ req' = req /\ outcome' = outcome
        /\ pc[t] = "project" => pc'[t] = "point"
        /\ pc[t] = "point" => pc'[t] \in {"select", "commit"}
        /\ pc[t] = "select" => pc'[t] = "compare"
        /\ pc[t] = "compare" => \/ pc'[t] = "commit"
                                \/ pc'[t] = "stopped" /\ r.kind = "reject"
    BY <1>11, CompareEffect DEF Project, Point, ValidateSelect, Goto, TypeOK
  <2>2. WithMine(t)' = WithMine(t)
    BY <1>4, <2>1 DEF WithMine, Approvers, stored
  <2> QED
    BY <2>1, <2>2, <1>4, <1>5, Requests DEF Checked, Places, Before, After, Admitted, Allowed, stored
<1>12. CASE CheckMember(t)
  <2>1. CASE Fail(t)
    BY <2>1, IdleIsSound DEF Fail
  <2>2. CASE ~Fail(t)
    <3>1. /\ pc[t] = "member" /\ req' = req /\ outcome' = outcome
          /\ Allowed(r, outcome[t])
          /\ pc'[t] = IF r.kind = "yank" THEN "update" ELSE "decide"
      BY <1>12, <2>2 DEF CheckMember, Goto, TypeOK
    <3>2. r \in Request /\ r.kind # "submit" /\ outcome[t] = status[r.version]
      BY <3>1, <1>5, Requests DEF Checked, Places, Before
    <3>3. Admitted(t)
      BY <3>1, <3>2 DEF Admitted
    <3> QED
      BY <3>1, <3>2, <3>3, <1>4, Requests
      DEF Checked, Places, Before, After, Admitted, Allowed, stored
  <2> QED
    BY <2>1, <2>2
<1> QED
  BY <1>2, <1>6, <1>7, <1>8, <1>9, <1>10, <1>11, <1>12 DEF Step

\* As long as a transaction writes no publication and no yank, it sees the same
\* published releases as everybody else.
LEMMA SeesPublished ==
  ASSUME IInv, NEW t \in Txn, pc[t] \in {"select", "compare", "commit"},
         ~WroteProjection(t), req[t].kind # "yank"
  PROVE  \A v \in Version : Seen(t)[v] = "published" <=> status[v] = "published"
<1>1. Checked(t) /\ Holds(t) /\ TypeOK
  BY DEF IInv, TxnInv
<1>2. req[t] \in Request
  BY <1>1 DEF Holds
<1>3. status[req[t].version] \in {"absent", "pending"}
  BY <1>1, <1>2, Requests DEF Checked, Admitted, Allowed, From
<1>4. outcome[t] # "published"
  BY DEF WroteProjection
<1> QED
  BY <1>1, <1>3, <1>4 DEF Seen, TypeOK

\* So does the projection it has selected or compared.
LEMMA SelectedStep ==
  ASSUME IInv, NEW t \in Txn, Act(t)
  PROVE  Selected(t)'
<1> TypeOK /\ Holds(t) /\ Checked(t) /\ Selected(t)
  BY DEF IInv, TxnInv
<1> DEFINE r == req[t]
<1>1. CASE \E q \in Request : Begin(t, q)
  BY <1>1 DEF Begin, Goto, TypeOK, Selected
<1>2. CASE Lose(t) \/ Refuse(t) \/ Rollback(t) \/ Abort(t) \/ Commit(t)
  BY <1>2, IdleIsSound DEF Lose, Refuse, Rollback, Abort, Commit, Fail
<1> SUFFICES ASSUME Step(t), ~Commit(t) PROVE Selected(t)'
  BY <1>1, <1>2 DEF Act
<1>3. UNCHANGED stored
  BY OnlyCommitStores DEF Act
<1>4. pc[t] # "idle" => r \in Request
  BY DEF Holds
<1>5. CASE LockRelease(t)
  BY <1>5 DEF LockRelease, Goto, TypeOK, Selected
<1>6. CASE LockPackage(t)
  <2>1. pc[t] = "package" /\ pc'[t] = AfterLocks(r.kind) /\ req' = req
    BY <1>6 DEF LockPackage, Goto, TypeOK
  <2>2. pc'[t] # "compare" /\ (r.kind # "submit" => pc'[t] = "member")
    BY <2>1, <1>4, Requests DEF AfterLocks
  <2> QED
    BY <2>1, <2>2 DEF Selected
<1>7. CASE Decide(t)
  <2>1. CASE Fail(t)
    BY <2>1, IdleIsSound DEF Fail
  <2>2. CASE ~Fail(t)
    BY <1>7, <2>2, DecideEffect DEF Goto, TypeOK, Selected
  <2> QED
    BY <2>1, <2>2
<1>8. CASE Count(t)
  <2>1. pc[t] = "count" /\ r \in Request /\ pc'[t] \in {"update", "commit"} /\ outcome' = outcome
    BY <1>4, <1>8 DEF Count, Goto, TypeOK
  <2>2. outcome[t] = "pending"
    BY <2>1, Requests DEF Checked, Places, From, Before, Admitted, Allowed
  <2> QED
    BY <2>1, <2>2 DEF Selected, WroteProjection
<1>9. CASE Update(t)
  <2>1. /\ pc[t] = "update" /\ r.kind # "submit" /\ outcome'[t] = To(r.kind) /\ req' = req
        /\ pc'[t] # "compare" /\ (r.kind # "reject" => pc'[t] = "project")
    BY <1>9, UpdateEffect DEF Goto, TypeOK
  <2>2. r.kind = "reject" => ~WroteProjection(t)'
    BY <2>1 DEF WroteProjection, To
  <2> QED
    BY <2>1, <2>2 DEF Selected
<1>10. CASE Project(t)
  <2>1. /\ pc[t] = "project" /\ req' = req /\ outcome' = outcome /\ pc'[t] = "point"
        /\ selected'[t] = LatestOf(Seen(t))
    BY <1>10 DEF Project, Goto, TypeOK
  <2>2. Seen(t)' = Seen(t)
    BY <1>3, <2>1 DEF Seen, stored
  <2>3. LatestOf(Seen(t))' = LatestOf(Seen(t))
    BY <2>2 DEF LatestOf, Governance!LatestOf
  <2> QED
    BY <2>1, <2>3 DEF Selected
<1>11. CASE ValidateSelect(t)
  <2>1. /\ pc[t] = "select" /\ req' = req /\ outcome' = outcome /\ pc'[t] = "compare"
        /\ selected'[t] = IF WroteProjection(t) THEN selected[t] ELSE projection
    BY <1>11 DEF ValidateSelect, Goto, TypeOK
  <2>2. Seen(t)' = Seen(t) /\ WroteProjection(t)' = WroteProjection(t)
    BY <1>3, <2>1 DEF Seen, stored, WroteProjection
  <2>3. LatestOf(Seen(t))' = LatestOf(Seen(t))
    BY <2>2 DEF LatestOf, Governance!LatestOf
  <2>4. r.kind \in {"approve", "yank"} => WroteProjection(t)
    BY <2>1 DEF Checked, After, WroteProjection
  <2>5. r.kind = "submit" => ~WroteProjection(t)
    BY <2>1 DEF Checked, WroteProjection
  <2>6. r.kind = "submit" => projection = LatestOf(Seen(t))
    BY <2>1, <2>5, SeesPublished, SameLatest DEF IInv, Projected
  <2>7. r.kind # "reject" => selected'[t] = LatestOf(Seen(t))
    BY <1>4, <2>1, <2>4, <2>5, <2>6, Requests DEF Selected
  <2>8. r.kind = "reject" => ~WroteProjection(t)
    BY <2>1 DEF Checked, After, WroteProjection
  <2> QED
    BY <2>1, <2>2, <2>3, <2>7, <2>8 DEF Selected
<1>12. CASE ValidateCompare(t)
  <2>1. /\ pc[t] = "compare" /\ req' = req /\ outcome' = outcome /\ selected' = selected
        /\ pc'[t] \in {"commit", "stopped"}
    BY <1>12, CompareEffect DEF Goto, TypeOK
  <2>2. Seen(t)' = Seen(t) /\ WroteProjection(t)' = WroteProjection(t)
    BY <1>3, <2>1 DEF Seen, stored, WroteProjection
  <2>3. LatestOf(Seen(t))' = LatestOf(Seen(t))
    BY <2>2 DEF LatestOf, Governance!LatestOf
  <2> QED
    BY <2>1, <2>2, <2>3 DEF Selected
<1>13. CASE CheckMember(t)
  <2>1. CASE Fail(t)
    BY <2>1, IdleIsSound DEF Fail
  <2>2. CASE ~Fail(t)
    BY <1>13, <2>2 DEF CheckMember, Goto, TypeOK, Selected
  <2> QED
    BY <2>1, <2>2
<1>14. CASE Point(t)
  <2>1. /\ pc[t] = "point" /\ req' = req /\ outcome' = outcome /\ selected' = selected
        /\ pc'[t] \in {"select", "commit"}
    BY <1>14 DEF Point, Goto, TypeOK
  <2>2. Seen(t)' = Seen(t) /\ WroteProjection(t)' = WroteProjection(t)
    BY <1>3, <2>1 DEF Seen, stored, WroteProjection
  <2>3. LatestOf(Seen(t))' = LatestOf(Seen(t))
    BY <2>2 DEF LatestOf, Governance!LatestOf
  <2> QED
    BY <2>1, <2>2, <2>3 DEF Selected
<1> QED
  BY <1>2, <1>5, <1>6, <1>7, <1>8, <1>9, <1>10, <1>11, <1>12, <1>13, <1>14 DEF Step

-----------------------------------------------------------------------------
(* What a commit does to the tables.                                        *)

\* It is the request's effect on one release, of which one decision is new at most.
LEMMA CommitEffect ==
  ASSUME IInv, NEW t \in Txn, Commit(t)
  PROVE  LET r == req[t] IN
         /\ r \in Request /\ r.version \in Version /\ r.user \in User
         /\ Admitted(t) /\ pc[t] = "commit"
         /\ status' = [status EXCEPT ![r.version] = outcome[t]]
         /\ r.kind = "submit" => outcome[t] = "pending"
         /\ r.kind = "reject" => outcome[t] = "rejected"
         /\ r.kind = "yank" => outcome[t] = "yanked"
         /\ r.kind = "approve" =>
              \/ outcome[t] = "published" /\ WithMine(t) = 2
              \/ outcome[t] = "pending" /\ WithMine(t) < 2
         /\ r.kind \in {"approve", "reject"} => decision[r.version][r.user] = "none"
         /\ submitter' = [submitter EXCEPT ![r.version] = IF r.kind = "submit" THEN r.user ELSE @]
         /\ \A w \in Version : w # r.version => decision'[w] = decision[w]
         /\ r.kind \in {"submit", "yank"} => decision' = decision
         /\ \A w \in Version :
              Approvers(w)' = IF w = r.version /\ r.kind = "approve"
                                THEN Approvers(w) \cup {r.user} ELSE Approvers(w)
<1> DEFINE r == req[t]
<1>1. TypeOK /\ Checked(t) /\ Holds(t) /\ pc[t] = "commit"
  BY DEF IInv, TxnInv, Commit
<1>2. r \in Request /\ r.version \in Version /\ r.user \in User
  BY <1>1, Requests DEF Holds
<1>3. status' = [status EXCEPT ![r.version] = outcome[t]]
  BY DEF Commit, Seen
<1>4. decision' = [decision EXCEPT ![r.version][r.user] =
                     IF r.kind = "approve" THEN "approved"
                     ELSE IF r.kind = "reject" THEN "rejected" ELSE @]
  BY DEF Commit
<1>5. r.kind \in {"approve", "reject"} => decision[r.version][r.user] = "none"
  BY <1>1 DEF Checked
<1>6. \A w \in Version : w # r.version => decision'[w] = decision[w]
  BY <1>1, <1>4 DEF TypeOK
<1>7. r.kind \in {"submit", "yank"} => decision' = decision
  BY <1>1, <1>2, <1>4 DEF TypeOK
<1>8. \A u \in User :
        decision'[r.version][u] = IF u = r.user /\ r.kind = "approve" THEN "approved"
                                  ELSE IF u = r.user /\ r.kind = "reject" THEN "rejected"
                                  ELSE decision[r.version][u]
  BY <1>1, <1>2, <1>4 DEF TypeOK
<1>9. \A w \in Version :
        Approvers(w)' = IF w = r.version /\ r.kind = "approve"
                          THEN Approvers(w) \cup {r.user} ELSE Approvers(w)
  <2> TAKE w \in Version
  <2>1. CASE w # r.version
    BY <1>6, <2>1 DEF Approvers
  <2>2. CASE w = r.version
    BY <1>2, <1>5, <1>8, <2>2 DEF Approvers
  <2> QED
    BY <2>1, <2>2
<1>10. submitter' = [submitter EXCEPT ![r.version] = IF r.kind = "submit" THEN r.user ELSE @]
  BY DEF Commit
<1> QED
  BY <1>1, <1>2, <1>3, <1>5, <1>6, <1>7, <1>9, <1>10 DEF Checked, After

\* The projection that a commit leaves is the latest of what it leaves.
LEMMA CommitProjects ==
  ASSUME IInv, NEW t \in Txn, Commit(t)
  PROVE  projection' = LatestOf(status')
<1> TypeOK /\ Selected(t) /\ Projected
  BY DEF IInv, TxnInv
<1>1. status' = Seen(t) /\ pc[t] = "commit"
  BY DEF Commit
<1>2. projection' = IF WroteProjection(t) THEN selected[t] ELSE projection
  BY DEF Commit
<1>3. CASE WroteProjection(t)
  <2>1. req[t].kind # "submit"
    BY <1>3, CommitEffect DEF WroteProjection
  <2> QED
    BY <1>1, <1>2, <1>3, <2>1 DEF Selected
<1>4. CASE ~WroteProjection(t)
  <2>1. req[t].kind # "yank"
    BY <1>4, CommitEffect DEF WroteProjection
  <2>2. LatestOf(Seen(t)) = LatestOf(status)
    BY <1>1, <1>4, <2>1, SeesPublished, SameLatest
  <2> QED
    BY <1>1, <1>2, <1>4, <2>2 DEF Projected
<1> QED
  BY <1>3, <1>4

\* The tables satisfy their invariants after a commit.
LEMMA TablesStep ==
  ASSUME IInv, NEW t \in Txn, Commit(t)
  PROVE  Bounded' /\ Projected' /\ \A v \in Version : ReleaseInv(v)'
<1> DEFINE r == req[t]
<1> TypeOK /\ \A v \in Version : ReleaseInv(v)
  BY DEF IInv
<1>1. Bounded'
  <2>1. PICK b \in Nat : \A v \in Version : status[v] = "published" => v <= b
    BY DEF IInv, Bounded
  <2>2. r.version \in Nat
    BY CommitEffect, VersionAssumption
  <2>3. PICK c \in Nat : b <= c /\ r.version <= c
    BY <2>1, <2>2
  <2>4. \A v \in Version : status'[v] = "published" => v <= c
    BY <2>1, <2>2, <2>3, CommitEffect, VersionAssumption DEF TypeOK
  <2> QED
    BY <2>3, <2>4 DEF Bounded
<1>2. Projected'
  BY CommitProjects DEF Projected, LatestOf, Governance!LatestOf
<1>3. ASSUME NEW v \in Version, v # r.version
      PROVE  ReleaseInv(v)'
  <2>1. status'[v] = status[v] /\ submitter'[v] = submitter[v] /\ Approvers(v)' = Approvers(v)
    BY <1>3, CommitEffect DEF TypeOK
  <2> QED
    BY <2>1 DEF ReleaseInv
<1>4. ASSUME NEW v \in Version, v = r.version
      PROVE  ReleaseInv(v)'
  <2>1. /\ v \in Version /\ r \in Request /\ Admitted(t)
        /\ status'[v] = outcome[t]
        /\ submitter'[v] = IF r.kind = "submit" THEN r.user ELSE submitter[v]
        /\ Approvers(v)' = IF r.kind = "approve" THEN Approvers(v) \cup {r.user} ELSE Approvers(v)
    <3>1. r \in Request /\ Admitted(t)
      BY CommitEffect
    <3>2. status'[v] = outcome[t]
      BY <1>4, CommitEffect DEF TypeOK
    <3>3. submitter'[v] = IF r.kind = "submit" THEN r.user ELSE submitter[v]
      BY <1>4, CommitEffect DEF TypeOK
    <3>4. Approvers(v)' = IF r.kind = "approve" THEN Approvers(v) \cup {r.user} ELSE Approvers(v)
      <4>1. \A w \in Version :
              Approvers(w)' = IF w = r.version /\ r.kind = "approve"
                                THEN Approvers(w) \cup {r.user} ELSE Approvers(w)
        BY CommitEffect
      <4> QED
        BY <1>4, <4>1
    <3> QED
      BY <3>1, <3>2, <3>3, <3>4
  <2>2. ReleaseInv(v) /\ status[v] = From(r.kind)
    BY <1>4, <2>1 DEF Admitted, Allowed
  <2>3. IsFiniteSet(Approvers(v)')
    <3>1. IsFiniteSet(Approvers(v))
      BY <2>2 DEF ReleaseInv
    <3>2. IsFiniteSet(Approvers(v) \cup {r.user})
      BY <3>1, FS_AddElement
    <3> QED
      BY <2>1, <3>1, <3>2
  <2>4. CASE r.kind = "submit"
    <3>1. outcome[t] = "pending" /\ Approvers(v)' = {} /\ Cardinality(Approvers(v)') = 0
      BY <2>1, <2>2, <2>4, CommitEffect, FS_EmptySet DEF ReleaseInv, From
    <3> QED
      BY <2>1, <2>3, <3>1 DEF ReleaseInv
  <2>5. CASE r.kind = "approve"
    <3>1. submitter[v] # r.user /\ submitter[v] \notin Approvers(v)
      BY <1>4, <2>1, <2>2, <2>5 DEF Admitted, Allowed, ReleaseInv, From
    <3>2. submitter'[v] \notin Approvers(v)'
      BY <2>1, <2>5, <3>1
    <3>3. \/ outcome[t] = "published" /\ Cardinality(Approvers(v)') = 2
          \/ outcome[t] = "pending" /\ Cardinality(Approvers(v)') < 2
      BY <1>4, <2>1, <2>5, CommitEffect DEF WithMine
    <3> QED
      BY <2>1, <2>3, <3>2, <3>3 DEF ReleaseInv
  <2>6. CASE r.kind = "reject"
    BY <2>1, <2>3, <2>6, CommitEffect DEF ReleaseInv
  <2>7. CASE r.kind = "yank"
    <3>1. status[v] = "published" /\ outcome[t] = "yanked"
      BY <2>2, <2>7, CommitEffect DEF From
    <3> QED
      BY <2>1, <2>2, <2>3, <2>7, <3>1 DEF ReleaseInv
  <2> QED
    BY <2>1, <2>4, <2>5, <2>6, <2>7, Requests
<1> QED
  BY <1>1, <1>2, <1>3, <1>4

-----------------------------------------------------------------------------
(* What a transaction found stays true: the commits of the others.          *)

\* Whoever has the package row may rely on the published releases.
LEMMA PackageGuardsPublished ==
  ASSUME IInv, NEW s \in Txn, Commit(s), NEW t \in Txn, t # s,
         pc[t] \notin {"idle", "release", "package"}, req[t].kind # "reject"
  PROVE  \A v \in Version : status'[v] = "published" <=> status[v] = "published"
<1>1. TypeOK /\ Holds(s) /\ Holds(t) /\ Excludes(s, t)
  BY DEF IInv, TxnInv, Exclusive, Excludes
<1>2. pc[s] = "commit" /\ "package" \in held[t]
  BY <1>1 DEF Commit, Holds
<1>3. req[s].kind \in {"submit", "reject"}
  <2>1. req[s].kind # "reject" => "package" \in held[s]
    BY <1>1, <1>2 DEF Holds
  <2> QED
    BY <1>1, <1>2, <2>1 DEF Excludes
<1>4. outcome[s] # "published" /\ status[req[s].version] # "published"
  BY <1>3, CommitEffect DEF Admitted, Allowed, From
<1> QED
  BY <1>1, <1>4, CommitEffect DEF TypeOK

\* A step of another transaction disturbs nothing that this one has found.
LEMMA OthersStep ==
  ASSUME IInv, NEW s \in Txn, Act(s), NEW t \in Txn, t # s
  PROVE  TxnInv(t)'
<1> TypeOK /\ TxnInv(t) /\ Excludes(s, t)
  BY DEF IInv, Exclusive, Excludes
<1>1. /\ pc'[t] = pc[t] /\ req'[t] = req[t] /\ held'[t] = held[t]
      /\ outcome'[t] = outcome[t] /\ selected'[t] = selected[t]
  BY OthersUnchanged
<1>2. Holds(t)'
  BY <1>1 DEF TxnInv, Holds
<1>3. CASE ~Commit(s)
  <2>1. UNCHANGED stored
    BY <1>3, OnlyCommitStores
  <2>2. Checked(t)'
    <3>1. WithMine(t)' = WithMine(t)
      BY <1>1, <2>1 DEF WithMine, Approvers, stored
    <3> QED
      BY <1>1, <2>1, <3>1 DEF TxnInv, Checked, Admitted, Allowed, stored
  <2>3. Seen(t)' = Seen(t) /\ WroteProjection(t)' = WroteProjection(t)
    BY <1>1, <2>1 DEF Seen, stored, WroteProjection
  <2>4. LatestOf(Seen(t))' = LatestOf(Seen(t))
    BY <2>3 DEF LatestOf, Governance!LatestOf
  <2>5. Selected(t)'
    BY <1>1, <2>3, <2>4 DEF TxnInv, Selected
  <2> QED
    BY <1>2, <2>2, <2>5 DEF TxnInv
<1>4. CASE Commit(s) /\ pc[t] \in {"idle", "release", "stopped"}
  BY <1>1, <1>2, <1>4 DEF TxnInv, Checked, Selected
<1>5. CASE Commit(s) /\ pc[t] \notin {"idle", "release", "stopped"}
  <2>1. /\ req[t] \in Request /\ req[t].version \in Version /\ req[t].user \in User
        /\ "release" \in held[t] /\ "release" \in held[s]
    <3>1. pc[s] = "commit" /\ Holds(s) /\ Holds(t)
      BY <1>5 DEF Commit, IInv, TxnInv
    <3> QED
      BY <1>5, <3>1, Requests DEF Holds
  <2>2. req[s].version # req[t].version
    BY <2>1 DEF Excludes
  <2>3. /\ status'[req[t].version] = status[req[t].version]
        /\ submitter'[req[t].version] = submitter[req[t].version]
        /\ decision'[req[t].version] = decision[req[t].version]
    BY <1>5, <2>1, <2>2, CommitEffect DEF TypeOK
  <2>4. Checked(t)'
    <3>1. WithMine(t)' = WithMine(t)
      BY <1>1, <2>3 DEF WithMine, Approvers
    <3> QED
      BY <1>1, <2>3, <3>1 DEF TxnInv, Checked, Admitted, Allowed
  <2>5. CASE pc[t] = "package" \/ req[t].kind = "reject"
    <3>1. pc[t] # "package" => (req[t].kind = "reject" /\ (pc[t] \in After => ~WroteProjection(t)))
      BY <1>5, <2>5 DEF TxnInv, Checked, WroteProjection
    <3>2. WroteProjection(t)' = WroteProjection(t)
      BY <1>1 DEF WroteProjection
    <3> QED
      BY <1>1, <1>2, <2>4, <3>1, <3>2 DEF TxnInv, Selected, After
  <2>6. CASE pc[t] # "package" /\ req[t].kind # "reject"
    <3>1. \A v \in Version : status'[v] = "published" <=> status[v] = "published"
      BY <1>5, <2>6, PackageGuardsPublished
    <3>2. \A v \in Version : Seen(t)'[v] = "published" <=> Seen(t)[v] = "published"
      BY <1>1, <1>5, <3>1, CommitEffect DEF Seen, TypeOK
    <3>3. LatestOf(Seen(t)') = LatestOf(Seen(t))
      BY <3>2, SameLatest
    <3>4. LatestOf(Seen(t))' = LatestOf(Seen(t)) /\ WroteProjection(t)' = WroteProjection(t)
      BY <1>1, <3>3 DEF LatestOf, Governance!LatestOf, WroteProjection
    <3>5. Selected(t)'
      BY <1>1, <3>4 DEF TxnInv, Selected
    <3> QED
      BY <1>2, <2>4, <3>5 DEF TxnInv
  <2> QED
    BY <2>5, <2>6
<1> QED
  BY <1>3, <1>4, <1>5

-----------------------------------------------------------------------------
(* The inductive invariant and what follows from it.                        *)

\* Who is a reviewer is no part of it.
LEMMA ReviewersDoNotMatter ==
  ASSUME IInv, TypeOK', UNCHANGED <<stored, pc, req, held, outcome, selected>>
  PROVE  IInv'
<1> USE DEF stored
<1>1. Bounded' /\ Projected' /\ Exclusive'
  BY DEF IInv, Bounded, Projected, Exclusive, LatestOf, Governance!LatestOf
<1>2. \A v \in Version : ReleaseInv(v)'
  BY DEF IInv, ReleaseInv, Approvers
<1>3. ASSUME NEW t \in Txn PROVE TxnInv(t)'
  <2>1. WithMine(t)' = WithMine(t) /\ Seen(t)' = Seen(t) /\ WroteProjection(t)' = WroteProjection(t)
    BY DEF WithMine, Approvers, Seen, WroteProjection
  <2>2. LatestOf(Seen(t))' = LatestOf(Seen(t))
    BY <2>1 DEF LatestOf, Governance!LatestOf
  <2> QED
    BY <2>1, <2>2 DEF IInv, TxnInv, Holds, Checked, Selected, Admitted, Allowed
<1> QED
  BY <1>1, <1>2, <1>3 DEF IInv

\* It holds in every state of every behaviour.
LEMMA Invariance == Spec => []IInv
<1>1. IInv /\ [Next]_vars => IInv'
  <2> SUFFICES ASSUME IInv, [Next]_vars PROVE IInv'
    OBVIOUS
  <2>1. TypeOK'
    BY TypeStep
  <2>2. CASE UNCHANGED vars
    BY <2>1, <2>2, ReviewersDoNotMatter DEF vars, stored
  <2>3. ASSUME NEW s \in Txn, Act(s) PROVE IInv'
    <3>1. \A t \in Txn : TxnInv(t)'
      BY <2>3, OthersStep, HoldsStep, CheckedStep, SelectedStep DEF TxnInv
    <3>2. Bounded' /\ Projected' /\ \A v \in Version : ReleaseInv(v)'
      <4>1. CASE Commit(s)
        BY <4>1, TablesStep
      <4>2. CASE ~Commit(s)
        <5>1. UNCHANGED stored
          BY <2>3, <4>2, OnlyCommitStores
        <5> QED
          BY <5>1
          DEF stored, IInv, Bounded, Projected, ReleaseInv, Approvers, LatestOf, Governance!LatestOf
      <4> QED
        BY <4>1, <4>2
    <3> QED
      BY <2>1, <2>3, <3>1, <3>2, ExclusiveStep DEF IInv
  <2>4. CASE \E u \in User : ChangeRole(u)
    BY <2>1, <2>4, ReviewersDoNotMatter DEF ChangeRole
  <2> QED
    BY <2>2, <2>3, <2>4 DEF Next, Act
<1> QED
  BY <1>1, InitIInv, PTL DEF Spec

\* Whatever the connections, versions and people, the tables and transactions of
\* src/registry-postgres.ts stay well-typed, and no release is projected that
\* is not one of the package.
THEOREM TypeCorrect == Spec => []TypeOK
<1>1. IInv => TypeOK
  BY DEF IInv
<1> QED
  BY <1>1, Invariance, PTL

\* What was ever published has exactly two approvals, none by its submitter,
\* however the requests of approveRelease overlap, and without any trigger.
THEOREM TwoPeopleApprove == Spec => []TwoPersonRule
<1>1. IInv => TwoPersonRule
  BY DEF IInv, ReleaseInv, TwoPersonRule
<1> QED
  BY <1>1, Invariance, PTL

\* No release stays pending with two approvals: approveRelease counts them under
\* the lock of the release.
THEOREM SecondApprovalPublishes == Spec => []NoApprovedPending
<1>1. IInv => NoApprovedPending
  BY DEF IInv, ReleaseInv, NoApprovedPending
<1> QED
  BY <1>1, Invariance, PTL

\* What is published was approved by two people, and what two people approved is
\* published: approveRelease, however many of its transactions overlap.
THEOREM FourEyesHold == Spec => []FourEyes
<1> QED
  BY TwoPeopleApprove, SecondApprovalPublishes, PTL DEF FourEyes

\* The triggers of migrations 007 and 009 turn down what the service let through
\* in two cases: the reviewer has lost the role since getMember, or the request
\* is a rejection, which locks no package.
THEOREM TriggersAgreeButForRoles == Spec => TriggersAgree
<1> DEFINE Agrees(t) == pc[t] # "stopped" /\ pc'[t] = "stopped" =>
                          \/ pc[t] = "decide" /\ req[t].user \notin reviewers
                          \/ pc[t] = "compare" /\ req[t].kind = "reject"
<1>1. ASSUME IInv, NEW t \in Txn, NEW s \in Txn, Act(s)
      PROVE  Agrees(t)
  <2> TypeOK /\ Holds(t)
    BY <1>1 DEF IInv, TxnInv
  <2>1. CASE s # t
    BY <1>1, <2>1, OthersUnchanged
  <2>2. ASSUME NEW to, Goto(t, to)
        PROVE  pc'[t] = to
    BY <2>2 DEF Goto, TypeOK
  <2>3. ASSUME End(t) \/ Decide(t) \/ Update(t) \/ ValidateCompare(t)
        PROVE  Agrees(t)
    BY <1>1, <2>2, <2>3, DecideEffect, UpdateEffect, CompareEffect DEF End, Fail
  <2>4. CASE (\E r \in Request : Begin(t, r)) \/ CheckMember(t)
    BY <2>2, <2>3, <2>4 DEF Begin, CheckMember, Fail
  <2>5. CASE LockRelease(t) \/ LockPackage(t) \/ Count(t)
    BY <2>2, <2>5 DEF LockRelease, LockPackage, AfterLocks, Count
  <2>6. CASE Project(t) \/ Point(t) \/ ValidateSelect(t)
    BY <2>2, <2>6 DEF Project, Point, ValidateSelect
  <2>7. CASE Refuse(t) \/ Rollback(t) \/ Abort(t) \/ Lose(t) \/ Commit(t)
    BY <2>3, <2>7 DEF Refuse, Rollback, Abort, Lose, Commit, Fail
  <2> QED
    BY <1>1, <2>1, <2>3, <2>4, <2>5, <2>6, <2>7 DEF Act, Step
<1>2. ASSUME IInv, [Next]_vars, NEW t \in Txn
      PROVE  Agrees(t)
  <2>1. CASE UNCHANGED vars \/ \E u \in User : ChangeRole(u)
    BY <2>1 DEF vars, ChangeRole
  <2> QED
    BY <1>1, <1>2, <2>1 DEF Next, Act
<1>3. IInv /\ [Next]_vars
        => [\A t \in Txn : Agrees(t)]_vars
  BY <1>2
<1> QED
  BY <1>3, Invariance, PTL DEF Spec, TriggersAgree

-----------------------------------------------------------------------------
(* Deadlocks.                                                               *)

\* Whoever waits for the key of another release at the end is a yank of what was
\* the latest release, and the other release is published.
LEMMA OnlyYanksWaitForKeys ==
  ASSUME IInv, NEW s \in Txn, NEW t \in Txn, Entangled(t, s)
  PROVE  req[s].kind = "yank" /\ status[req[t].version] = "published"
<1> DEFINE v == selected[s]
<1>1. /\ TypeOK /\ Holds(s) /\ Holds(t) /\ Checked(s) /\ Selected(s) /\ Bounded
      /\ projection = LatestOf(status)
  BY DEF IInv, TxnInv, Projected
<1>2. /\ s # t /\ pc[s] = "point" /\ v # 0 /\ v # projection
      /\ "release" \in held[t] /\ req[t].version = v
  BY DEF Entangled, Moves, HasRelease
<1>3. /\ req[s] \in Request /\ req[s].version \in Version /\ req[s].version # v
      /\ req[s].kind \in {"approve", "yank"}
  <2>1. req[s] \in Request /\ req[s].kind \in {"approve", "yank"} /\ "release" \in held[s]
    BY <1>1, <1>2, Requests DEF Holds, Checked, Places
  <2> QED
    BY <1>2, <2>1, Requests DEF IInv, Exclusive
<1>4. v = LatestOf(Seen(s))
  BY <1>1, <1>2, <1>3 DEF Checked, Selected, WroteProjection, After
<1>5. /\ v \in Version /\ Seen(s)[v] = "published"
      /\ \A w \in Version : Seen(s)[w] = "published" => w <= v
  BY <1>1, <1>2, <1>3, <1>4, SeenType
<1>6. status[v] = "published"
  BY <1>1, <1>3, <1>5 DEF Seen, TypeOK
<1>7. CASE req[s].kind = "approve"
  <2>1. \A w \in Version : status[w] = "published" => w <= v
    BY <1>1, <1>2, <1>3, <1>5, <1>7 DEF Seen, TypeOK, Checked, Admitted, Allowed, From
  <2>2. PICK b \in Nat : \A w \in Version : status[w] = "published" => w <= b
    BY <1>1 DEF Bounded
  <2>3. \/ \A w \in Version : status[w] # "published"
        \/ projection \in Version /\ status[projection] = "published"
           /\ \A w \in Version : status[w] = "published" => w <= projection
    BY <1>1, <2>2, LatestType
  <2>4. projection \in Version /\ v <= projection /\ projection <= v
    BY <1>5, <1>6, <2>1, <2>3, VersionAssumption
  <2>5. v \in Nat /\ projection \in Nat
    BY <1>5, <2>4, VersionAssumption
  <2>6. v = projection
    BY <2>4, <2>5
  <2> QED
    BY <1>2, <2>6
<1> QED
  BY <1>2, <1>3, <1>6, <1>7

\* However the requests overlap, a deadlock costs nobody a submission, a rejection
\* or the approval of a pending release: only the yanks of
\* #refreshPackageDiscoveryProjection wait for the key of another release.
THEOREM DeadlocksCostYanks == Spec => []OnlyYanksDeadlock
<1>1. ASSUME IInv, NEW t \in Txn, Deadlocked(t)
      PROVE  \/ req[t].kind = "yank"
             \/ req[t].kind = "approve" /\ status[req[t].version] # "pending"
  <2>1. PICK s \in Txn : Entangled(t, s) \/ Entangled(s, t)
    BY <1>1 DEF Deadlocked
  <2>2. CASE Entangled(s, t)
    BY <1>1, <2>2, OnlyYanksWaitForKeys
  <2>3. CASE Entangled(t, s)
    <3>1. status[req[t].version] = "published" /\ pc[t] = "package"
      BY <1>1, <2>3, OnlyYanksWaitForKeys DEF Entangled
    <3>2. Checked(t) /\ req[t] \in Request
      BY <1>1, <3>1 DEF IInv, TxnInv, Holds
    <3> QED
      BY <3>1, <3>2, Requests DEF Checked, Places
  <2> QED
    BY <2>1, <2>2, <2>3
<1>2. IInv => OnlyYanksDeadlock
  BY <1>1 DEF OnlyYanksDeadlock
<1> QED
  BY <1>2, Invariance, PTL

-----------------------------------------------------------------------------
(* The transactions implement requests handled one at a time.               *)

Approvals == [v \in Version |-> {u \in User : decision[v][u] = "approved"}]

\* The instance of ReleaseGovernance counts as this module does.
LEMMA SameCardinality == \A S : Governance!Cardinality(S) = Cardinality(S)
BY DEF Cardinality, Governance!Cardinality

\* A commit is the request of the transaction, taken at once.
LEMMA CommitImplements ==
  ASSUME IInv, NEW t \in Txn, Commit(t)
  PROVE  Governance!Next
<1>1. PICK v \in Version, u \in User, k \in {"submit", "approve", "reject", "yank"}, o \in State :
      /\ status[v] = From(k)
      /\ k \in {"approve", "reject"} => submitter[v] # u /\ decision[v][u] = "none"
      /\ status' = [status EXCEPT ![v] = o]
      /\ submitter' = [submitter EXCEPT ![v] = IF k = "submit" THEN u ELSE @]
      /\ k = "submit" => o = "pending"
      /\ k = "reject" => o = "rejected"
      /\ k = "yank" => o = "yanked"
      /\ k = "approve" =>
           \/ o = "published" /\ Cardinality(Approvers(v) \cup {u}) = 2
           \/ o = "pending" /\ Cardinality(Approvers(v) \cup {u}) < 2
      /\ \A w \in Version :
           Approvers(w)' = IF w = v /\ k = "approve" THEN Approvers(w) \cup {u} ELSE Approvers(w)
  <2> /\ req[t] \in Request /\ req[t].version \in Version /\ req[t].user \in User
      /\ req[t].kind \in {"submit", "approve", "reject", "yank"} /\ outcome[t] \in State
    BY CommitEffect, Requests DEF IInv, TypeOK
  <2> WITNESS req[t].version \in Version, req[t].user \in User,
              req[t].kind \in {"submit", "approve", "reject", "yank"}, outcome[t] \in State
  <2> QED
    BY CommitEffect DEF Admitted, Allowed, WithMine
<1>2. projection' = Governance!LatestOf(status')
  BY CommitProjects DEF LatestOf
<1>3. Governance!Enter(v, o)
  BY <1>1, <1>2 DEF Governance!Enter
<1>4. Approvals' = IF k = "approve" THEN [Approvals EXCEPT ![v] = @ \cup {u}] ELSE Approvals
  <2>1. \A w \in Version :
          Approvers(w)' = IF w = v /\ k = "approve" THEN Approvers(w) \cup {u} ELSE Approvers(w)
    BY <1>1
  <2>2. Approvals = [w \in Version |-> Approvers(w)] /\ Approvals' = [w \in Version |-> Approvers(w)']
    BY DEF Approvals, Approvers
  <2>3. CASE k = "approve"
    <3>1. Approvals' = [w \in Version |-> IF w = v THEN Approvers(w) \cup {u} ELSE Approvers(w)]
      BY <2>1, <2>2, <2>3
    <3> QED
      BY <2>2, <2>3, <3>1
  <2>4. CASE k # "approve"
    BY <2>1, <2>2, <2>4
  <2> QED
    BY <2>3, <2>4
<1>5. submitter \in [Version -> User \cup {NoUser}]
  BY DEF IInv, TypeOK
<1>6. CASE k = "submit"
  <2>1. o = "pending"
    BY <1>1, <1>6
  <2>2. Governance!Submit(v, u)
    BY <1>1, <1>3, <1>4, <1>6, <2>1 DEF From, Governance!Submit, Approvals
  <2> QED
    BY <1>1, <2>2 DEF Governance!Next
<1>7. CASE k = "approve"
  <2>1. submitter' = submitter
    BY <1>1, <1>5, <1>7
  <2>2. decision[v][u] = "none"
    BY <1>1, <1>7
  <2>3. u \notin Approvals[v]
    BY <1>1, <2>2 DEF Approvals
  <2>4. Approvals'[v] = Approvers(v) \cup {u}
    BY <1>1, <1>4, <1>7 DEF Approvals, Approvers
  <2>5. \/ o = "published" /\ Cardinality(Approvals'[v]) = 2
        \/ o = "pending" /\ Cardinality(Approvals'[v]) < 2
    BY <1>1, <1>7, <2>4
  <2>6. o = IF Cardinality(Approvals'[v]) = 2 THEN "published" ELSE "pending"
    BY <2>5
  <2>7. Governance!Approve(v, u)
    <3>1. Governance!Enter(v, IF Governance!Cardinality(Approvals'[v]) = 2 THEN "published" ELSE "pending")
      BY <1>1, <1>2, <2>6, SameCardinality DEF Governance!Enter
    <3>2. status[v] = "pending" /\ u # submitter[v]
      BY <1>1, <1>7 DEF From
    <3>3. Approvals' = [Approvals EXCEPT ![v] = @ \cup {u}]
      BY <1>4, <1>7
    <3> QED
      BY <2>1, <2>3, <3>1, <3>2, <3>3, Zenon DEF Governance!Approve, Approvals
  <2> QED
    BY <1>1, <2>7 DEF Governance!Next
<1>8. CASE k = "reject"
  <2>1. o = "rejected" /\ submitter' = submitter
    BY <1>1, <1>5, <1>8
  <2>2. Governance!Reject(v, u)
    BY <1>1, <1>3, <1>4, <1>8, <2>1 DEF From, Governance!Reject, Approvals
  <2> QED
    BY <1>1, <2>2 DEF Governance!Next
<1>9. CASE k = "yank"
  <2>1. o = "yanked" /\ submitter' = submitter
    BY <1>1, <1>5, <1>9
  <2>2. Governance!Yank(v)
    BY <1>1, <1>3, <1>4, <1>9, <2>1 DEF From, Governance!Yank, Approvals
  <2> QED
    BY <1>1, <2>2 DEF Governance!Next
<1> QED
  BY <1>1, <1>6, <1>7, <1>8, <1>9

\* Overlapping transactions have the effect of requests handled one at a time,
\* each at its commit: the atomic registry of src/registry-domain.ts, whose
\* releases move one step at a time and whose projection is always the latest
\* published release, is what the transactions of src/registry-postgres.ts show.
THEOREM StoreImplementsGovernance == Spec => ImplementsGovernance
<1>1. Init => Governance!Init
  <2> SUFFICES ASSUME Init PROVE Governance!Init
    OBVIOUS
  <2>1. Approvals = [v \in Version |-> {}]
    BY DEF Init, Approvals
  <2> QED
    BY <2>1 DEF Init, Governance!Init, Approvals
<1>2. IInv /\ [Next]_vars
        => [Governance!Next]_<<status, submitter, Approvals, projection>>
  <2> SUFFICES ASSUME IInv, [Next]_vars, ~Governance!Next
               PROVE  UNCHANGED <<status, submitter, Approvals, projection>>
    OBVIOUS
  <2>1. UNCHANGED stored
    <3>1. CASE UNCHANGED vars
      BY <3>1 DEF vars, stored
    <3>2. ASSUME NEW t \in Txn, Act(t) PROVE UNCHANGED stored
      BY <3>2, CommitImplements, OnlyCommitStores
    <3> QED
      BY <3>1, <3>2 DEF Next, Act, ChangeRole
  <2> QED
    BY <2>1 DEF stored, Approvals
<1> QED
  BY <1>1, <1>2, Invariance, PTL DEF Spec, ImplementsGovernance, Governance!Spec, Approvals

-----------------------------------------------------------------------------
(* The audit log.                                                           *)

Rejecters(v) == {u \in User : decision[v][u] = "rejected"}

\* The log has one publication and one yank of what was published and yanked.
LogInv(v) ==
  /\ status[v] = "absent" => submitter[v] = NoUser
  /\ Happened("submitted", v) = {submitter[v]} \ {NoUser}
  /\ Happened("approved", v) = Approvers(v)
  /\ Happened("rejected", v) = Rejecters(v)
  /\ IF status[v] \in {"published", "yanked"} THEN \E u \in User : Happened("published", v) = {u}
     ELSE Happened("published", v) = {}
  /\ IF status[v] = "yanked" THEN \E u \in User : Happened("yanked", v) = {u}
     ELSE Happened("yanked", v) = {}

Logged == \A v \in Version : LogInv(v)

\* Who t adds to the log as having done a with v.
Adds(t, a, v) == {u \in User : [action |-> a, version |-> v, actor |-> u] \in Events(t)}

\* What a transaction adds to the log of its own version, and of no other.
LEMMA CommitLogs ==
  ASSUME IInv, NEW t \in Txn, Commit(t)
  PROVE  LET r == req[t]
             adds(a) == CASE a = "submitted" -> r.kind = "submit"
                          [] a = "approved"  -> r.kind = "approve"
                          [] a = "published" -> r.kind = "approve" /\ outcome[t] = "published"
                          [] a = "rejected"  -> r.kind = "reject"
                          [] a = "yanked"    -> r.kind = "yank"
         IN  \A v \in Version, a \in {"submitted", "approved", "published", "rejected", "yanked"} :
               Happened(a, v)' = IF v = r.version /\ adds(a) THEN Happened(a, v) \cup {r.user}
                                 ELSE Happened(a, v)
<1>1. /\ req[t].version \in Version /\ req[t].user \in User
      /\ req[t].kind \in {"submit", "approve", "reject", "yank"}
  BY CommitEffect, Requests
<1>2. audit' = audit \cup Events(t)
  BY DEF Commit
<1>3. ASSUME NEW v \in Version, NEW u \in User
      PROVE  LET e(a) == [action |-> a, version |-> v, actor |-> u]
                 mine == v = req[t].version /\ u = req[t].user
             IN  /\ e("submitted") \in Events(t) <=> mine /\ req[t].kind = "submit"
                 /\ e("approved") \in Events(t) <=> mine /\ req[t].kind = "approve"
                 /\ e("published") \in Events(t)
                      <=> mine /\ req[t].kind = "approve" /\ outcome[t] = "published"
                 /\ e("rejected") \in Events(t) <=> mine /\ req[t].kind = "reject"
                 /\ e("yanked") \in Events(t) <=> mine /\ req[t].kind = "yank"
  BY <1>1 DEF Events
<1>4. \A a : \A v \in Version : Happened(a, v)' = Happened(a, v) \cup Adds(t, a, v)
  BY <1>2 DEF Happened, Adds
<1>5. ASSUME NEW v \in Version, v # req[t].version, NEW a
      PROVE  Adds(t, a, v) = {}
  <2>1. \A e \in Events(t) : e.version = req[t].version
    BY DEF Events
  <2>. QED  BY <1>5, <2>1 DEF Adds
<1>6. ASSUME NEW v \in Version, v = req[t].version
      PROVE  LET is(k) == IF req[t].kind = k THEN {req[t].user} ELSE {} IN
             /\ Adds(t, "submitted", v) = is("submit") /\ Adds(t, "approved", v) = is("approve")
             /\ Adds(t, "rejected", v) = is("reject") /\ Adds(t, "yanked", v) = is("yank")
             /\ Adds(t, "published", v) = IF req[t].kind = "approve" /\ outcome[t] = "published"
                                            THEN {req[t].user} ELSE {}
  <2>. DEFINE r == req[t]
  <2>1. ASSUME NEW a, NEW B \in BOOLEAN,
               \A u \in User : [action |-> a, version |-> v, actor |-> u] \in Events(t) <=> u = r.user /\ B
        PROVE  Adds(t, a, v) = IF B THEN {r.user} ELSE {}
    BY <1>1, <2>1 DEF Adds
  <2>2. \A u \in User :
          LET e(a) == [action |-> a, version |-> v, actor |-> u] IN
          /\ e("submitted") \in Events(t) <=> u = r.user /\ r.kind = "submit"
          /\ e("approved") \in Events(t) <=> u = r.user /\ r.kind = "approve"
          /\ e("published") \in Events(t) <=> u = r.user /\ (r.kind = "approve" /\ outcome[t] = "published")
          /\ e("rejected") \in Events(t) <=> u = r.user /\ r.kind = "reject"
          /\ e("yanked") \in Events(t) <=> u = r.user /\ r.kind = "yank"
    BY <1>3, <1>6
  <2>. HIDE DEF r
  <2>3. Adds(t, "submitted", v) = IF r.kind = "submit" THEN {r.user} ELSE {}
    BY <2>1, <2>2
  <2>4. Adds(t, "approved", v) = IF r.kind = "approve" THEN {r.user} ELSE {}
    BY <2>1, <2>2
  <2>5. Adds(t, "rejected", v) = IF r.kind = "reject" THEN {r.user} ELSE {}
    BY <2>1, <2>2
  <2>6. Adds(t, "yanked", v) = IF r.kind = "yank" THEN {r.user} ELSE {}
    BY <2>1, <2>2
  <2>7. Adds(t, "published", v) = IF r.kind = "approve" /\ outcome[t] = "published" THEN {r.user} ELSE {}
    BY <2>1, <2>2
  <2>. QED  BY <2>3, <2>4, <2>5, <2>6, <2>7 DEF r
<1>7. ASSUME NEW v \in Version, NEW a, Adds(t, a, v) = {}
      PROVE  Happened(a, v)' = Happened(a, v)
  BY <1>4, <1>7
<1>8. ASSUME NEW v \in Version, NEW a, Adds(t, a, v) = {req[t].user}
      PROVE  Happened(a, v)' = Happened(a, v) \cup {req[t].user}
  BY <1>4, <1>8
<1>9. ASSUME NEW v \in Version, v # req[t].version, NEW a
      PROVE  Happened(a, v)' = Happened(a, v)
  BY <1>5, <1>7, <1>9
<1>. QED  BY <1>6, <1>7, <1>8, <1>9

LEMMA CommitKeepsLog ==
  ASSUME IInv, Logged, NEW t \in Txn, Commit(t), NEW v \in Version
  PROVE  LogInv(v)'
<1>. DEFINE r == req[t]
<1>0. LogInv(v)
  BY DEF Logged
<1>1. CASE v # r.version
  <2>1. /\ status'[v] = status[v] /\ submitter'[v] = submitter[v] /\ decision'[v] = decision[v]
    BY <1>1, CommitEffect DEF IInv, TypeOK
  <2>2. \A a \in {"submitted", "approved", "published", "rejected", "yanked"} :
          Happened(a, v)' = Happened(a, v)
    BY <1>1, CommitLogs
  <2>3. Approvers(v)' = Approvers(v) /\ Rejecters(v)' = Rejecters(v)
    BY <2>1 DEF Approvers, Rejecters
  <2>. QED  BY <1>0, <2>1, <2>2, <2>3 DEF LogInv
<1>2. CASE v = r.version
  <2>1. /\ r.user \in User /\ r.user # NoUser
        /\ status[v] = From(r.kind) /\ status'[v] = outcome[t]
        /\ submitter'[v] = IF r.kind = "submit" THEN r.user ELSE submitter[v]
        /\ Approvers(v)' = IF r.kind = "approve" THEN Approvers(v) \cup {r.user} ELSE Approvers(v)
    <3>1. r.user \in User /\ Admitted(t) /\ status' = [status EXCEPT ![v] = outcome[t]]
      BY <1>2, CommitEffect
    <3>2. submitter' = [submitter EXCEPT ![v] = IF r.kind = "submit" THEN r.user ELSE @]
      BY <1>2, CommitEffect
    <3>3. Approvers(v)' = IF r.kind = "approve" THEN Approvers(v) \cup {r.user} ELSE Approvers(v)
      <4>1. \A w \in Version :
              Approvers(w)' = IF w = r.version /\ r.kind = "approve"
                                THEN Approvers(w) \cup {r.user} ELSE Approvers(w)
        BY CommitEffect
      <4>. QED  BY <1>2, <4>1
    <3>. QED  BY <1>2, <3>1, <3>2, <3>3, NoUserAssumption DEF IInv, TypeOK, Admitted, Allowed
  <2>2. Rejecters(v)' = IF r.kind = "reject" THEN Rejecters(v) \cup {r.user} ELSE Rejecters(v)
    <3>1. /\ decision' = [decision EXCEPT ![v][r.user] =
                            IF r.kind = "approve" THEN "approved"
                            ELSE IF r.kind = "reject" THEN "rejected" ELSE @]
      BY <1>2 DEF Commit
    <3>2. r.kind = "approve" => decision[v][r.user] = "none"
      BY <1>2, CommitEffect
    <3>. QED  BY <2>1, <3>1, <3>2 DEF Rejecters, IInv, TypeOK
  <2>3. CASE r.kind = "submit"
    <3>1. outcome[t] = "pending" /\ status[v] = "absent"
      BY <2>1, <2>3, CommitEffect DEF From
    <3>2. /\ Happened("submitted", v)' = Happened("submitted", v) \cup {r.user}
          /\ \A a \in {"approved", "published", "rejected", "yanked"} : Happened(a, v)' = Happened(a, v)
      BY <1>2, <2>3, CommitLogs
    <3>. QED  BY <1>0, <2>1, <2>2, <2>3, <3>1, <3>2 DEF LogInv
  <2>4. CASE r.kind = "approve"
    <3>1. outcome[t] \in {"pending", "published"} /\ status[v] = "pending"
      BY <2>1, <2>4, CommitEffect DEF From
    <3>2. /\ Happened("approved", v)' = Happened("approved", v) \cup {r.user}
          /\ Happened("published", v)' = IF outcome[t] = "published" THEN Happened("published", v) \cup {r.user}
                                         ELSE Happened("published", v)
          /\ \A a \in {"submitted", "rejected", "yanked"} : Happened(a, v)' = Happened(a, v)
      BY <1>2, <2>4, CommitLogs
    <3>. QED  BY <1>0, <2>1, <2>2, <2>4, <3>1, <3>2 DEF LogInv
  <2>5. CASE r.kind = "reject"
    <3>1. outcome[t] = "rejected" /\ status[v] = "pending"
      BY <2>1, <2>5, CommitEffect DEF From
    <3>2. /\ Happened("rejected", v)' = Happened("rejected", v) \cup {r.user}
          /\ \A a \in {"submitted", "approved", "published", "yanked"} : Happened(a, v)' = Happened(a, v)
      BY <1>2, <2>5, CommitLogs
    <3>. QED  BY <1>0, <2>1, <2>2, <2>5, <3>1, <3>2 DEF LogInv
  <2>6. CASE r.kind = "yank"
    <3>1. outcome[t] = "yanked" /\ status[v] = "published"
      BY <2>1, <2>6, CommitEffect DEF From
    <3>2. /\ Happened("yanked", v)' = Happened("yanked", v) \cup {r.user}
          /\ \A a \in {"submitted", "approved", "published", "rejected"} : Happened(a, v)' = Happened(a, v)
      BY <1>2, <2>6, CommitLogs
    <3>. QED  BY <1>0, <2>1, <2>2, <2>6, <3>1, <3>2 DEF LogInv
  <2>. QED  BY <2>3, <2>4, <2>5, <2>6, CommitEffect, Requests
<1>. QED  BY <1>1, <1>2

LEMMA LogIsKept == Spec => []Logged
<1>1. Init => Logged
  BY DEF Init, Logged, LogInv, Happened, Approvers, Rejecters
<1>2. ASSUME IInv, Logged, [Next]_vars
      PROVE  Logged'
  <2>1. CASE UNCHANGED stored
    BY <1>2, <2>1 DEF stored, Logged, LogInv, Happened, Approvers, Rejecters
  <2>2. ASSUME NEW t \in Txn, Commit(t)
        PROVE  Logged'
    BY <1>2, <2>2, CommitKeepsLog DEF Logged
  <2>. QED  BY <1>2, <2>1, <2>2, OnlyCommitStores DEF Next, Act, ChangeRole, vars, stored
<1>. QED  BY <1>1, <1>2, Invariance, PTL DEF Spec

\* Whatever transactions were lost or rolled back on the way, the audit log tells
\* what the tables say: who submitted and decided, and one publication and one
\* yank of what was published and yanked.
THEOREM LogTellsTheTables == Spec => []AuditAgrees
<1>1. Logged => AuditAgrees
  <2>1. Cardinality({}) = 0 /\ \A u : Cardinality({u}) = 1
    BY FS_Singleton, FS_EmptySet
  <2>2. ASSUME Logged, NEW v \in Version
        PROVE  /\ Cardinality(Happened("published", v)) = IF status[v] \in {"published", "yanked"} THEN 1 ELSE 0
               /\ Cardinality(Happened("yanked", v)) = IF status[v] = "yanked" THEN 1 ELSE 0
    BY <2>1, <2>2 DEF Logged, LogInv
  <2>. QED  BY <2>2 DEF Logged, LogInv, AuditAgrees, Rejecters
<1>. QED  BY <1>1, LogIsKept, PTL

=============================================================================
