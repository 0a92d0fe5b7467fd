-------------------------- MODULE OrganizationProofs --------------------------
(***************************************************************************)
(* Proofs about Organization, for any connections, people, plans, billing and *)
(* usage events: what a transaction decided under the organization's row still *)
(* holds when it commits, although bootstrap-token does not take the row.      *)
(***************************************************************************)
EXTENDS Organization, FiniteSetTheorems, TLAPS

\* Whoever is in a transaction has the organization's row, but bootstrap-token.
RowHeld ==
  \A t \in Txn : pc[t] # "idle" /\ req[t].kind # "bootstrap" => lock = t

\* Every month's events are those that are recorded.
RecordedOnce == \A k \in Key : reserved[k] = 0 <=> k \notin recorded

AgreedMember(t) ==
  /\ req[t].kind = "add" =>
       role[req[t].user] = "none" /\ Cardinality(Members) < MaxSeats[PlanNow]
  /\ req[t].kind \in {"update", "remove"} =>
       /\ role[req[t].user] # "none"
       /\ choice[t] \in User => choice[t] # req[t].user /\ role[choice[t]] = "owner"
       /\ choice[t] \notin User /\ req[t].user = owner =>
            req[t].kind = "update" /\ req[t].role = "owner"
  /\ req[t].kind = "issue" => Manages(req[t].actor)

AgreedWebhook(t) ==
  LET e == req[t].event IN
  req[t].kind = "webhook" =>
    /\ SameId(e) \subseteq {e}
    /\ choice[t] = TRUE <=> e \notin received /\ (subscription = NoEvent \/ Newer(e, subscription))

AgreedUsage(t) ==
  LET k == req[t].key
      period == req[t].period
  IN
  req[t].kind = "usage" =>
    \/ choice[t] = FALSE /\ k \in recorded
    \/ /\ choice[t] = TRUE /\ reserved[k] = 0 /\ k \notin recorded
       /\ UsedIn(period) + 1 <= MaxUsage[PlanNow]

\* What a transaction decided still holds when it is about to commit.
Agreed(t) ==
  /\ pc[t] = "insert" => req[t].kind = "bootstrap"
  /\ pc[t] = "commit" => AgreedMember(t) /\ AgreedWebhook(t) /\ AgreedUsage(t)

IInv ==
  /\ TypeOK /\ RowHeld
  /\ OwnerKept /\ TokensOfManagers /\ PlanFollowsNewest /\ RecordedOnce
  /\ \A t \in Txn : Agreed(t)

\* A step of t leaves what the others are at.
OnlyMoves(t) ==
  \A u \in Txn \ {t} : pc'[u] = pc[u] /\ req'[u] = req[u] /\ choice'[u] = choice[u]

-----------------------------------------------------------------------------
(* Types and places.                                                        *)

LEMMA RequestShape ==
  ASSUME NEW r \in Request
  PROVE  /\ r.kind \in {"add", "update", "remove", "revoke", "issue", "bootstrap", "webhook", "usage"}
         /\ r.kind \in {"add", "update"} => r.role \in Role
         /\ r.kind \in {"add", "update", "remove", "revoke"} => r.user \in User
         /\ r.kind \in {"add", "update", "remove", "revoke", "issue", "bootstrap"} => r.actor \in User
         /\ r.kind = "webhook" => r.event \in Event
         /\ r.kind = "usage" => r.key \in Key /\ r.period \in Period
BY DEF Request

\* A request that is under way is one that was sent.
LEMMA Sent ==
  ASSUME TypeOK, NEW t \in Txn, req[t].kind # "none"
  PROVE  req[t] \in Request
BY DEF TypeOK, NoRequest

LEMMA Choices == NoChoice \in BOOLEAN \cup User /\ NoChoice \notin User
BY NoneAssumption DEF NoChoice

LEMMA PlanKnown ==
  ASSUME TypeOK
  PROVE  PlanNow \in Plan /\ MaxSeats[PlanNow] \in Nat /\ MaxUsage[PlanNow] \in Nat
<1>1. subscription # NoEvent => subscription.plan \in Plan
  BY EventAssumption DEF TypeOK
<1>2. PlanNow \in Plan
  BY <1>1, PlanAssumption DEF PlanNow
<1>. QED  BY <1>2, PlanAssumption

LEMMA BeginMoves ==
  ASSUME TypeOK, NEW t \in Txn, NEW r \in Request, Begin(t, r)
  PROVE  /\ OnlyMoves(t) /\ UNCHANGED stored /\ pc'[t] = "decide" /\ req'[t] = r
         /\ lock' = IF r.kind = "bootstrap" THEN lock ELSE t
         /\ r.kind # "bootstrap" => lock = NoTxn
         /\ TypeOK'
BY DEF Begin, OnlyMoves, TypeOK, stored

LEMMA EndMoves ==
  ASSUME TypeOK, NEW t \in Txn, End(t)
  PROVE  /\ OnlyMoves(t) /\ pc'[t] = "idle"
         /\ lock' = IF lock = t THEN NoTxn ELSE lock
         /\ lock' \in Txn \cup {NoTxn}
         /\ pc' \in [Txn -> {"idle", "decide", "insert", "commit"}]
         /\ req' \in [Txn -> Request \cup {NoRequest}]
         /\ choice' \in [Txn -> BOOLEAN \cup User]
BY Choices DEF End, OnlyMoves, TypeOK

LEMMA DecidedMoves ==
  ASSUME TypeOK, NEW t \in Txn, NEW c \in BOOLEAN \cup User, Decided(t, c)
  PROVE  /\ OnlyMoves(t) /\ UNCHANGED <<stored, lock, req>>
         /\ pc'[t] = "commit" /\ choice'[t] = c
         /\ TypeOK'
BY DEF Decided, OnlyMoves, TypeOK, stored

\* Nothing but what t is at has changed, of what the invariant is about.
LEMMA OthersAgree ==
  ASSUME TypeOK, NEW t \in Txn, OnlyMoves(t), UNCHANGED stored,
         \A u \in Txn : Agreed(u)
  PROVE  \A u \in Txn \ {t} : Agreed(u)'
<1>. SUFFICES ASSUME NEW u \in Txn \ {t}, pc[u] = "commit"
              PROVE  (AgreedMember(u) /\ AgreedWebhook(u) /\ AgreedUsage(u))'
  BY DEF OnlyMoves, Agreed
<1>1. /\ pc'[u] = pc[u] /\ req'[u] = req[u] /\ choice'[u] = choice[u]
      /\ AgreedMember(u) /\ AgreedWebhook(u) /\ AgreedUsage(u)
  BY DEF OnlyMoves, Agreed
<1>2. UNCHANGED <<role, owner, tokens, subscription, received, reserved, recorded>>
  BY DEF stored
<1>3. AgreedMember(u)'
  BY <1>1, <1>2 DEF AgreedMember, Members, Manages, PlanNow
<1>4. AgreedWebhook(u)'
  BY <1>1, <1>2 DEF AgreedWebhook, SameId
<1>5. AgreedUsage(u)'
  BY <1>1, <1>2 DEF AgreedUsage, UsedIn, PlanNow
<1>. QED  BY <1>3, <1>4, <1>5

LEMMA StoredKept ==
  ASSUME UNCHANGED stored
  PROVE  /\ OwnerKept => OwnerKept'
         /\ TokensOfManagers => TokensOfManagers'
         /\ PlanFollowsNewest => PlanFollowsNewest'
         /\ RecordedOnce => RecordedOnce'
BY DEF stored, OwnerKept, TokensOfManagers, Manages, PlanFollowsNewest, RecordedOnce

-----------------------------------------------------------------------------
(* Decisions.                                                               *)

\* A step that stores nothing keeps the invariant, if what t agreed to holds.
LEMMA QuietStep ==
  ASSUME IInv, NEW t \in Txn, OnlyMoves(t), UNCHANGED stored,
         TypeOK', Agreed(t)', RowHeld'
  PROVE  IInv'
<1>1. \A u \in Txn : Agreed(u)'
  BY OthersAgree DEF IInv
<1>. QED  BY <1>1, StoredKept DEF IInv

LEMMA DecidedStep ==
  ASSUME IInv, NEW t \in Txn, NEW c \in BOOLEAN \cup User, Decided(t, c), pc[t] # "idle",
         AgreedMember(t)', AgreedWebhook(t)', AgreedUsage(t)'
  PROVE  IInv'
<1>1. /\ OnlyMoves(t) /\ UNCHANGED <<stored, lock, req>> /\ TypeOK' /\ pc'[t] = "commit"
  BY DecidedMoves DEF IInv
<1>2. RowHeld'
  BY <1>1 DEF IInv, RowHeld, OnlyMoves
<1>. QED  BY <1>1, <1>2, QuietStep DEF Agreed

LEMMA DecideAddStep ==
  ASSUME IInv, NEW t \in Txn, DecideAdd(t)
  PROVE  IInv'
<1>1. /\ pc[t] # "idle" /\ req[t].kind = "add" /\ Decided(t, NoChoice)
      /\ role[req[t].user] = "none" /\ Cardinality(Members) < MaxSeats[PlanNow]
  BY DEF DecideAdd, Deciding
<1>2. UNCHANGED <<role, owner, subscription, req>>
  BY <1>1, DecidedMoves, Choices DEF IInv, stored
<1>3. AgreedMember(t)'
  BY <1>1, <1>2 DEF AgreedMember, Members, PlanNow
<1>4. AgreedWebhook(t)' /\ AgreedUsage(t)'
  BY <1>1, <1>2 DEF AgreedWebhook, AgreedUsage
<1>. QED  BY <1>1, <1>3, <1>4, Choices, DecidedStep

\* A change of roles or a removal, with its successor.
LEMMA DecideChangeStep ==
  ASSUME IInv, NEW t \in Txn, DecideUpdate(t) \/ DecideRemove(t)
  PROVE  IInv'
<1>. DEFINE u == req[t].user
<1>1. /\ pc[t] # "idle" /\ req[t].kind \in {"update", "remove"} /\ role[u] # "none"
  BY DEF DecideUpdate, DecideRemove, Deciding
<1>2. PICK c \in BOOLEAN \cup User :
        /\ Decided(t, c)
        /\ c \in User => c # u /\ role[c] = "owner"
        /\ c \notin User /\ u = owner => req[t].kind = "update" /\ req[t].role = "owner"
  <2>1. CASE req[t].kind = "update" /\ req[t].role = "owner" /\ Decided(t, NoChoice)
    BY <2>1, Choices
  <2>2. CASE DecideSuccessor(t, u)
    <3>1. CASE Decided(t, NoChoice) /\ owner # u
      BY <3>1, Choices
    <3>2. CASE \E v \in User \ {u} : role[v] = "owner" /\ Decided(t, v)
      BY <3>2
    <3>3. role[owner] = "owner"
      BY DEF IInv, OwnerKept
    <3>. QED  BY <2>2, <3>1, <3>2, <3>3 DEF DecideSuccessor
  <2>. QED  BY <2>1, <2>2 DEF DecideUpdate, DecideRemove, Deciding
<1>3. UNCHANGED <<role, owner, req>> /\ choice'[t] = c
  BY <1>2, DecidedMoves DEF IInv, stored
<1>4. AgreedMember(t)'
  BY <1>1, <1>2, <1>3 DEF AgreedMember
<1>5. AgreedWebhook(t)' /\ AgreedUsage(t)'
  BY <1>1, <1>3 DEF AgreedWebhook, AgreedUsage
<1>. QED  BY <1>1, <1>2, <1>4, <1>5, DecidedStep

LEMMA DecideTokenStep ==
  ASSUME IInv, NEW t \in Txn, DecideToken(t) \/ DecideBootstrap(t) \/ InsertBootstrap(t)
  PROVE  IInv'
<1>1. CASE DecideToken(t)
  <2>1. /\ pc[t] # "idle" /\ req[t].kind \in {"issue", "revoke"} /\ Manages(req[t].actor)
        /\ Decided(t, NoChoice)
    BY <1>1 DEF DecideToken
  <2>2. UNCHANGED <<role, req>>
    BY <2>1, DecidedMoves, Choices DEF IInv, stored
  <2>3. AgreedMember(t)' /\ AgreedWebhook(t)' /\ AgreedUsage(t)'
    BY <2>1, <2>2 DEF AgreedMember, AgreedWebhook, AgreedUsage, Manages
  <2>. QED  BY <2>1, <2>3, Choices, DecidedStep
<1>2. CASE DecideBootstrap(t)
  <2>1. OnlyMoves(t) /\ UNCHANGED stored /\ TypeOK'
    BY <1>2 DEF DecideBootstrap, OnlyMoves, IInv, TypeOK, stored
  <2>2. RowHeld' /\ Agreed(t)'
    BY <1>2 DEF DecideBootstrap, Deciding, IInv, TypeOK, RowHeld, Agreed
  <2>. QED  BY <2>1, <2>2, QuietStep
<1>3. CASE InsertBootstrap(t)
  <2>1. req[t].kind = "bootstrap" /\ pc[t] # "idle" /\ Decided(t, NoChoice)
    BY <1>3 DEF InsertBootstrap, IInv, Agreed
  <2>2. UNCHANGED req
    BY <2>1, DecidedMoves, Choices DEF IInv
  <2>3. AgreedMember(t)' /\ AgreedWebhook(t)' /\ AgreedUsage(t)'
    BY <2>1, <2>2 DEF AgreedMember, AgreedWebhook, AgreedUsage
  <2>. QED  BY <2>1, <2>3, Choices, DecidedStep
<1>. QED  BY <1>1, <1>2, <1>3

LEMMA DecideWebhookStep ==
  ASSUME IInv, NEW t \in Txn, DecideWebhook(t)
  PROVE  IInv'
<1>. DEFINE e == req[t].event
            c == e \notin received /\ (subscription = NoEvent \/ Newer(e, subscription))
<1>1. /\ pc[t] # "idle" /\ req[t].kind = "webhook" /\ SameId(e) \subseteq {e} /\ Decided(t, c)
  BY DEF DecideWebhook, Deciding
<1>2. c \in BOOLEAN
  OBVIOUS
<1>3. UNCHANGED <<subscription, received, req>> /\ choice'[t] = c
  BY <1>1, <1>2, DecidedMoves DEF IInv, stored
<1>4. AgreedWebhook(t)'
  BY <1>1, <1>3 DEF AgreedWebhook, SameId
<1>5. AgreedMember(t)' /\ AgreedUsage(t)'
  BY <1>1, <1>3 DEF AgreedMember, AgreedUsage
<1>. QED  BY <1>1, <1>2, <1>4, <1>5, DecidedStep

LEMMA DecideUsageStep ==
  ASSUME IInv, NEW t \in Txn, DecideUsage(t)
  PROVE  IInv'
<1>. DEFINE k == req[t].key
            period == req[t].period
<1>1. pc[t] # "idle" /\ req[t].kind = "usage"
  BY DEF DecideUsage, Deciding
<1>2. PICK c \in BOOLEAN :
        /\ Decided(t, c)
        /\ \/ c = FALSE /\ k \in recorded
           \/ /\ c = TRUE /\ reserved[k] = 0 /\ k \notin recorded
              /\ UsedIn(period) + 1 <= MaxUsage[PlanNow]
  BY DEF DecideUsage
<1>3. UNCHANGED <<subscription, reserved, recorded, req>> /\ choice'[t] = c
  BY <1>2, DecidedMoves DEF IInv, stored
<1>4. AgreedUsage(t)'
  BY <1>1, <1>2, <1>3 DEF AgreedUsage, UsedIn, PlanNow
<1>5. AgreedMember(t)' /\ AgreedWebhook(t)'
  BY <1>1, <1>3 DEF AgreedMember, AgreedWebhook
<1>. QED  BY <1>1, <1>2, <1>4, <1>5, DecidedStep

LEMMA DecideStep ==
  ASSUME IInv, NEW t \in Txn, Decide(t)
  PROVE  IInv'
BY DecideAddStep, DecideChangeStep, DecideTokenStep, DecideWebhookStep, DecideUsageStep DEF Decide

LEMMA BeginStep ==
  ASSUME IInv, NEW t \in Txn, NEW r \in Request, Begin(t, r)
  PROVE  IInv'
<1>1. /\ OnlyMoves(t) /\ UNCHANGED stored /\ pc'[t] = "decide" /\ req'[t] = r
      /\ lock' = IF r.kind = "bootstrap" THEN lock ELSE t
      /\ r.kind # "bootstrap" => lock = NoTxn
      /\ TypeOK'
  BY BeginMoves DEF IInv
<1>2. RowHeld'
  BY <1>1, NoneAssumption DEF IInv, RowHeld, OnlyMoves
<1>. QED  BY <1>1, <1>2, QuietStep DEF Agreed

\* At its end a transaction gives back the row, if it is the one that has it.
LEMMA RowGivenBack ==
  ASSUME IInv, NEW t \in Txn, pc[t] # "idle", End(t)
  PROVE  RowHeld'
<1>1. /\ OnlyMoves(t) /\ pc'[t] = "idle"
      /\ lock' = IF lock = t THEN NoTxn ELSE lock
  BY EndMoves DEF IInv
<1>. QED  BY <1>1 DEF IInv, RowHeld, OnlyMoves

LEMMA FailStep ==
  ASSUME IInv, NEW t \in Txn, Fail(t)
  PROVE  IInv'
<1>1. pc[t] # "idle" /\ End(t) /\ UNCHANGED stored
  BY DEF Fail
<1>2. OnlyMoves(t) /\ pc'[t] = "idle" /\ TypeOK'
  BY <1>1, EndMoves DEF IInv, TypeOK, stored
<1>. QED  BY <1>1, <1>2, RowGivenBack, QuietStep DEF Agreed

-----------------------------------------------------------------------------
(* Commits.                                                                 *)

\* Beside a transaction with the row there are only ones of bootstrap-token.
LEMMA Alone ==
  ASSUME RowHeld, NEW t \in Txn, pc[t] # "idle", req[t].kind # "bootstrap",
         NEW u \in Txn \ {t}, pc[u] # "idle"
  PROVE  req[u].kind = "bootstrap"
BY DEF RowHeld

\* Whatever t commits: the others have nothing of it to agree to.
LEMMA CommitKeepsOthers ==
  ASSUME IInv, NEW t \in Txn, pc[t] = "commit", req[t].kind # "bootstrap", End(t)
  PROVE  RowHeld' /\ \A u \in Txn : Agreed(u)'
<1>1. OnlyMoves(t) /\ pc'[t] = "idle"
  BY EndMoves DEF IInv
<1>2. Agreed(t)'
  BY <1>1 DEF Agreed
<1>3. ASSUME NEW u \in Txn \ {t}
      PROVE  Agreed(u)'
  <2>1. pc'[u] = pc[u] /\ req'[u] = req[u]
    BY <1>1 DEF OnlyMoves
  <2>2. pc[u] # "idle" => req[u].kind = "bootstrap"
    BY Alone DEF IInv
  <2>. QED  BY <2>1, <2>2 DEF Agreed, AgreedMember, AgreedWebhook, AgreedUsage
<1>. QED  BY <1>2, <1>3, RowGivenBack

LEMMA CommitAddStep ==
  ASSUME IInv, NEW t \in Txn, pc[t] = "commit", CommitAdd(t), End(t)
  PROVE  IInv'
<1>1. /\ req[t].kind = "add" /\ req[t].user \in User /\ req[t].role \in Role
      /\ role[req[t].user] = "none"
      /\ role' = [role EXCEPT ![req[t].user] = req[t].role]
      /\ UNCHANGED <<owner, tokens, subscription, received, reserved, recorded>>
  BY Sent, RequestShape DEF IInv, CommitAdd, Agreed, AgreedMember, billing, usage
<1>2. TypeOK'
  BY <1>1, EndMoves DEF IInv, TypeOK
<1>3. OwnerKept' /\ TokensOfManagers'
  BY <1>1 DEF IInv, TypeOK, OwnerKept, TokensOfManagers, Manages, Managers
<1>4. PlanFollowsNewest' /\ RecordedOnce'
  BY <1>1 DEF IInv, PlanFollowsNewest, RecordedOnce
<1>. QED  BY <1>1, <1>2, <1>3, <1>4, CommitKeepsOthers DEF IInv

\* The owner that the row names afterwards has the role: the one before, or the
\* successor.
LEMMA CommitChangeStep ==
  ASSUME IInv, NEW t \in Txn, pc[t] = "commit", CommitUpdate(t) \/ CommitRemove(t), End(t)
  PROVE  IInv'
<1>. DEFINE u == req[t].user
<1>1. PICK r \in Role \cup {"none"} :
        /\ role' = [role EXCEPT ![u] = r]
        /\ r = IF req[t].kind = "update" THEN req[t].role ELSE "none"
  BY Sent, RequestShape DEF IInv, CommitUpdate, CommitRemove
<1>2. /\ req[t].kind \in {"update", "remove"} /\ u \in User
      /\ tokens' = [tokens EXCEPT ![u] = {}] /\ Succeed(t)
      /\ UNCHANGED <<subscription, received, reserved, recorded>>
  BY Sent, RequestShape DEF IInv, CommitUpdate, CommitRemove, billing, usage
<1>3. /\ choice[t] \in User => choice[t] # u /\ role[choice[t]] = "owner"
      /\ choice[t] \notin User /\ u = owner => req[t].kind = "update" /\ req[t].role = "owner"
  BY <1>2 DEF IInv, Agreed, AgreedMember
<1>4. owner' = IF choice[t] \in User THEN choice[t] ELSE owner
  BY <1>2 DEF Succeed
<1>5. TypeOK'
  BY <1>1, <1>2, <1>4, EndMoves DEF IInv, TypeOK
<1>6. OwnerKept'
  <2>1. CASE choice[t] \in User
    BY <1>1, <1>3, <1>4, <2>1 DEF IInv, TypeOK, OwnerKept
  <2>2. CASE choice[t] \notin User /\ u = owner
    BY <1>1, <1>2, <1>3, <1>4, <2>2 DEF IInv, TypeOK, OwnerKept
  <2>3. CASE choice[t] \notin User /\ u # owner
    BY <1>1, <1>4, <2>3 DEF IInv, TypeOK, OwnerKept
  <2>. QED  BY <2>1, <2>2, <2>3
<1>7. TokensOfManagers'
  BY <1>1, <1>2 DEF IInv, TypeOK, TokensOfManagers, Manages
<1>8. PlanFollowsNewest' /\ RecordedOnce'
  BY <1>2 DEF IInv, PlanFollowsNewest, RecordedOnce
<1>. QED  BY <1>2, <1>5, <1>6, <1>7, <1>8, CommitKeepsOthers DEF IInv

LEMMA CommitTokenStep ==
  ASSUME IInv, NEW t \in Txn, pc[t] = "commit", CommitIssue(t) \/ CommitRevoke(t), End(t)
  PROVE  IInv'
<1>1. /\ req[t].kind \in {"issue", "revoke"}
      /\ UNCHANGED <<role, owner, subscription, received, reserved, recorded>>
  BY DEF CommitIssue, CommitRevoke, billing, usage
<1>2. tokens' \in [User -> SUBSET TokenKind] /\ TokensOfManagers'
  <2>1. CASE CommitIssue(t)
    <3>1. req[t].kind = "issue" /\ req[t].actor \in User /\ Manages(req[t].actor)
      BY <2>1, Sent, RequestShape DEF IInv, CommitIssue, Agreed, AgreedMember
    <3>. QED  BY <1>1, <2>1, <3>1 DEF IInv, TypeOK, CommitIssue, TokenKind, TokensOfManagers, Manages
  <2>2. CASE CommitRevoke(t)
    <3>1. req[t].user \in User
      BY <2>2, Sent, RequestShape DEF IInv, CommitRevoke
    <3>2. PICK kinds : tokens' = [tokens EXCEPT ![req[t].user] = @ \cap kinds]
      BY <2>2 DEF CommitRevoke
    <3>. QED  BY <1>1, <3>1, <3>2 DEF IInv, TypeOK, TokensOfManagers, Manages
  <2>. QED  BY <2>1, <2>2
<1>3. TypeOK'
  BY <1>1, <1>2, EndMoves DEF IInv, TypeOK
<1>4. OwnerKept' /\ PlanFollowsNewest' /\ RecordedOnce'
  BY <1>1 DEF IInv, OwnerKept, PlanFollowsNewest, RecordedOnce
<1>. QED  BY <1>1, <1>2, <1>3, <1>4, CommitKeepsOthers DEF IInv

\* A token of bootstrap-token changes nothing that anybody agreed to.
LEMMA CommitBootstrapStep ==
  ASSUME IInv, NEW t \in Txn, pc[t] = "commit", CommitBootstrap(t), End(t)
  PROVE  IInv'
<1>1. /\ req[t].kind = "bootstrap" /\ req[t].actor \in User
      /\ tokens' = [tokens EXCEPT ![req[t].actor] = @ \cup {"bootstrap"}]
      /\ UNCHANGED <<role, owner, subscription, received, reserved, recorded>>
  BY Sent, RequestShape DEF IInv, CommitBootstrap, billing, usage
<1>2. TypeOK'
  BY <1>1, EndMoves DEF IInv, TypeOK, TokenKind
<1>3. OwnerKept' /\ PlanFollowsNewest' /\ RecordedOnce' /\ TokensOfManagers'
  BY <1>1 DEF IInv, TypeOK, OwnerKept, PlanFollowsNewest, RecordedOnce, TokensOfManagers, Manages
<1>4. \A u \in Txn : Agreed(u)'
  <2>. SUFFICES ASSUME NEW u \in Txn PROVE Agreed(u)'
    OBVIOUS
  <2>1. u = t => pc'[u] = "idle"
    BY EndMoves DEF IInv
  <2>2. u # t => pc'[u] = pc[u] /\ req'[u] = req[u] /\ choice'[u] = choice[u]
    BY EndMoves DEF IInv, OnlyMoves
  <2>3. u # t /\ AgreedMember(u) => AgreedMember(u)'
    BY <1>1, <2>2 DEF AgreedMember, Members, Manages, PlanNow
  <2>4. u # t /\ AgreedWebhook(u) => AgreedWebhook(u)'
    BY <1>1, <2>2 DEF AgreedWebhook, SameId
  <2>5. u # t /\ AgreedUsage(u) => AgreedUsage(u)'
    BY <1>1, <2>2 DEF AgreedUsage, UsedIn, PlanNow
  <2>6. Agreed(u)
    BY DEF IInv
  <2>. QED  BY <2>1, <2>2, <2>3, <2>4, <2>5, <2>6 DEF Agreed
<1>. QED  BY <1>2, <1>3, <1>4, RowGivenBack DEF IInv

LEMMA CommitWebhookStep ==
  ASSUME IInv, NEW t \in Txn, pc[t] = "commit", CommitWebhook(t), End(t)
  PROVE  IInv'
<1>. DEFINE e == req[t].event
<1>1. /\ req[t].kind = "webhook" /\ e \in Event
      /\ received' = received \cup {e}
      /\ subscription' = IF choice[t] = TRUE THEN e ELSE subscription
      /\ UNCHANGED <<role, owner, tokens, reserved, recorded>>
  BY Sent, RequestShape DEF IInv, CommitWebhook, members, usage
<1>2. /\ SameId(e) \subseteq {e}
      /\ choice[t] = TRUE <=> e \notin received /\ (subscription = NoEvent \/ Newer(e, subscription))
  BY <1>1 DEF IInv, Agreed, AgreedWebhook
<1>3. TypeOK'
  BY <1>1, EndMoves DEF IInv, TypeOK
<1>4. PlanFollowsNewest'
  <2>1. received \subseteq Event /\ \A f \in Event : f.id \in Nat /\ f.time \in Nat
    BY EventAssumption DEF IInv, TypeOK
  <2>2. PlanFollowsNewest
    BY DEF IInv
  <2>3. CASE e \in received
    <3>1. received' = received /\ subscription' = subscription
      BY <1>1, <1>2, <2>3
    <3>. QED  BY <2>2, <3>1 DEF PlanFollowsNewest
  <2>4. CASE e \notin received /\ subscription = NoEvent
    <3>1. received = {}
      BY <2>1, <2>2, <2>4, EventAssumption DEF PlanFollowsNewest
    <3>2. received' = {e} /\ subscription' = e
      BY <1>1, <1>2, <2>4, <3>1
    <3>. QED  BY <3>2 DEF PlanFollowsNewest
  <2>5. CASE e \notin received /\ subscription # NoEvent
    <3>1. /\ subscription \in received
          /\ \A f \in received \ {subscription} :
               f.time <= subscription.time /\ (f.time = subscription.time => f.id < subscription.id)
      BY <2>2, <2>5 DEF PlanFollowsNewest
    <3>2. e.id # subscription.id
      BY <1>2, <2>5, <3>1 DEF SameId
    <3>3. CASE Newer(e, subscription)
      <4>1. subscription' = e
        BY <1>1, <1>2, <2>5, <3>3
      <4>2. \A f \in received : f.time <= e.time /\ (f.time = e.time => f.id < e.id)
        BY <1>1, <2>1, <3>1, <3>3 DEF Newer
      <4>. QED  BY <1>1, <4>1, <4>2 DEF PlanFollowsNewest
    <3>4. CASE ~Newer(e, subscription)
      <4>1. subscription' = subscription
        BY <1>1, <1>2, <2>5, <3>4
      <4>2. e.time <= subscription.time /\ (e.time = subscription.time => e.id < subscription.id)
        BY <1>1, <2>1, <3>1, <3>2, <3>4 DEF Newer
      <4>. QED  BY <1>1, <3>1, <4>1, <4>2 DEF PlanFollowsNewest
    <3>. QED  BY <3>3, <3>4
  <2>. QED  BY <2>3, <2>4, <2>5
<1>5. OwnerKept' /\ TokensOfManagers' /\ RecordedOnce'
  BY <1>1 DEF IInv, OwnerKept, TokensOfManagers, Manages, RecordedOnce
<1>. QED  BY <1>1, <1>3, <1>4, <1>5, CommitKeepsOthers DEF IInv

LEMMA CommitUsageStep ==
  ASSUME IInv, NEW t \in Txn, pc[t] = "commit", CommitUsage(t), End(t)
  PROVE  IInv'
<1>. DEFINE k == req[t].key
<1>1. /\ req[t].kind = "usage" /\ k \in Key /\ req[t].period \in Period
      /\ reserved' = IF choice[t] = TRUE THEN [reserved EXCEPT ![k] = req[t].period] ELSE reserved
      /\ recorded' = recorded \cup {k}
      /\ UNCHANGED <<role, owner, tokens, subscription, received>>
  BY Sent, RequestShape DEF IInv, CommitUsage, members, billing
<1>2. \/ choice[t] = FALSE /\ k \in recorded
      \/ choice[t] = TRUE /\ reserved[k] = 0 /\ k \notin recorded
  BY <1>1 DEF IInv, Agreed, AgreedUsage
<1>3. TypeOK'
  BY <1>1, EndMoves DEF IInv, TypeOK
<1>4. RecordedOnce'
  BY <1>1, <1>2, PeriodAssumption DEF IInv, TypeOK, RecordedOnce
<1>5. OwnerKept' /\ TokensOfManagers' /\ PlanFollowsNewest'
  BY <1>1 DEF IInv, OwnerKept, TokensOfManagers, Manages, PlanFollowsNewest
<1>. QED  BY <1>1, <1>3, <1>4, <1>5, CommitKeepsOthers DEF IInv

LEMMA CommitStep ==
  ASSUME IInv, NEW t \in Txn, Commit(t)
  PROVE  IInv'
BY CommitAddStep, CommitChangeStep, CommitTokenStep, CommitBootstrapStep, CommitWebhookStep,
   CommitUsageStep DEF Commit

-----------------------------------------------------------------------------
(* The invariant.                                                           *)

LEMMA IInvInit == Init => IInv
<1>. SUFFICES ASSUME Init PROVE IInv
  OBVIOUS
<1>1. TypeOK
  BY Choices DEF Init, TypeOK, Role
<1>2. OwnerKept /\ TokensOfManagers /\ PlanFollowsNewest /\ RecordedOnce
  BY DEF Init, OwnerKept, TokensOfManagers, PlanFollowsNewest, RecordedOnce
<1>3. RowHeld /\ \A t \in Txn : Agreed(t)
  BY DEF Init, RowHeld, Agreed
<1>. QED  BY <1>1, <1>2, <1>3 DEF IInv

LEMMA IInvNext ==
  ASSUME IInv, [Next]_vars
  PROVE  IInv'
<1>1. ASSUME NEW t \in Txn, (\E r \in Request : Begin(t, r)) \/ Decide(t) \/ Commit(t) \/ Fail(t)
      PROVE  IInv'
  BY <1>1, BeginStep, DecideStep, CommitStep, FailStep
<1>2. CASE UNCHANGED vars
  <2>1. UNCHANGED stored /\ TypeOK' /\ RowHeld'
    BY <1>2 DEF vars, stored, IInv, TypeOK, RowHeld
  <2>2. \A t \in Txn : Agreed(t)'
    BY <1>2 DEF vars, IInv, Agreed, AgreedMember, AgreedWebhook, AgreedUsage, Members, Manages,
                PlanNow, SameId, UsedIn
  <2>. QED  BY <2>1, <2>2, StoredKept DEF IInv
<1>. QED  BY <1>1, <1>2 DEF Next

LEMMA IInvHolds == Spec => []IInv
BY IInvInit, IInvNext, PTL DEF Spec

\* For any connections, people, plans, billing and usage events, the rows and the
\* transactions stay well-typed.
THEOREM TypeCorrect == Spec => []TypeOK
BY IInvHolds, PTL DEF IInv

\* Whoever steps down, leaves or is changed by whom: the owner that the
\* organization names is a member with the owner's role.
THEOREM OwnerIsKept == Spec => []OwnerKept
BY IInvHolds, PTL DEF IInv

\* Nobody has a token that was issued under a manager's role and lost the role,
\* not even by a change that ran beside the issue.
THEOREM TokensFollowRoles == Spec => []TokensOfManagers
BY IInvHolds, PTL DEF IInv

\* In whichever order and however often billing events come, the subscription is
\* that of the newest.
THEOREM PlanIsNewest == Spec => []PlanFollowsNewest
BY IInvHolds, PTL DEF IInv

-----------------------------------------------------------------------------
(* What a step may do.                                                      *)

\* Only a commit changes what is stored.
LEMMA OnlyCommitsStore ==
  ASSUME [Next]_vars, ~UNCHANGED stored
  PROVE  \E t \in Txn : Commit(t)
<1>1. ASSUME NEW t \in Txn, \E r \in Request : Begin(t, r)
      PROVE  UNCHANGED stored
  BY <1>1 DEF Begin
<1>2. ASSUME NEW t \in Txn, Decide(t)
      PROVE  UNCHANGED stored
  BY <1>2 DEF Decide, DecideAdd, DecideUpdate, DecideRemove, DecideSuccessor, DecideToken,
              DecideBootstrap, InsertBootstrap, DecideWebhook, DecideUsage, Decided
<1>3. ASSUME NEW t \in Txn, Fail(t)
      PROVE  UNCHANGED stored
  BY <1>3 DEF Fail
<1>4. UNCHANGED vars => UNCHANGED stored
  BY DEF vars, stored
<1>. QED  BY <1>1, <1>2, <1>3, <1>4 DEF Next

\* Only a new usage event changes the reservations, and the one that it makes
\* is of its month and was not there.
LEMMA ReservationStep ==
  ASSUME IInv, [Next]_vars, reserved' # reserved
  PROVE  \E k \in Key, p \in Period :
           /\ reserved[k] = 0 /\ reserved' = [reserved EXCEPT ![k] = p]
           /\ UsedIn(p) + 1 <= MaxUsage[PlanNow]
<1>1. PICK t \in Txn : Commit(t)
  BY OnlyCommitsStore DEF stored
<1>2. pc[t] = "commit" /\ CommitUsage(t)
  BY <1>1 DEF Commit, CommitAdd, CommitUpdate, CommitRemove, CommitIssue, CommitRevoke,
              CommitBootstrap, CommitWebhook, usage
<1>3. /\ req[t].kind = "usage" /\ req[t].key \in Key /\ req[t].period \in Period
      /\ reserved' = IF choice[t] = TRUE THEN [reserved EXCEPT ![req[t].key] = req[t].period]
                     ELSE reserved
  BY <1>2, Sent, RequestShape DEF IInv, CommitUsage
<1>4. choice[t] = TRUE
  BY <1>3
<1>5. reserved[req[t].key] = 0 /\ UsedIn(req[t].period) + 1 <= MaxUsage[PlanNow]
  BY <1>2, <1>3, <1>4 DEF IInv, Agreed, AgreedUsage
<1>. QED  BY <1>3, <1>4, <1>5

\* Only a new member makes the members more, and there was a seat.
LEMMA SeatStep ==
  ASSUME IInv, [Next]_vars, ~(Members' \subseteq Members)
  PROVE  \E u \in User : Members' = Members \cup {u} /\ Cardinality(Members) < MaxSeats[PlanNow]
<1>1. PICK t \in Txn : Commit(t)
  BY OnlyCommitsStore DEF stored, Members
<1>2. role' # role
  BY DEF Members
<1>3. pc[t] = "commit" /\ (CommitAdd(t) \/ CommitUpdate(t) \/ CommitRemove(t))
  BY <1>1, <1>2 DEF Commit, CommitIssue, CommitRevoke, CommitBootstrap, CommitWebhook,
                    CommitUsage, members
<1>4. req[t].kind \in {"add", "update", "remove"} /\ req[t].user \in User
  BY <1>3, Sent, RequestShape DEF IInv, CommitAdd, CommitUpdate, CommitRemove
<1>5. role \in [User -> Role \cup {"none"}] /\ "none" \notin Role
  BY DEF IInv, TypeOK, Role
<1>6. CASE CommitAdd(t)
  <2>1. req[t].kind = "add" /\ role' = [role EXCEPT ![req[t].user] = req[t].role] /\ req[t].role \in Role
    BY <1>6, Sent, RequestShape DEF CommitAdd, IInv
  <2>2. Cardinality(Members) < MaxSeats[PlanNow]
    BY <1>3, <2>1 DEF IInv, Agreed, AgreedMember
  <2>3. Members' = Members \cup {req[t].user}
    BY <1>4, <1>5, <2>1 DEF Members
  <2>. QED  BY <1>4, <2>2, <2>3
<1>7. CASE CommitUpdate(t)
  <2>1. req[t].kind = "update" /\ role' = [role EXCEPT ![req[t].user] = req[t].role] /\ role[req[t].user] # "none"
    BY <1>3, <1>7 DEF CommitUpdate, IInv, Agreed, AgreedMember
  <2>2. Members' \subseteq Members
    BY <1>4, <1>5, <2>1 DEF Members
  <2>. QED  BY <2>2
<1>8. CASE CommitRemove(t)
  <2>1. Members' \subseteq Members
    BY <1>4, <1>5, <1>8 DEF CommitRemove, Members
  <2>. QED  BY <2>1
<1>. QED  BY <1>3, <1>6, <1>7, <1>8

\* The members that one more makes at most.
LEMMA OneMore ==
  ASSUME NEW S, NEW x, IsFiniteSet(S)
  PROVE  IsFiniteSet(S \cup {x}) /\ Cardinality(S) \in Nat /\ Cardinality(S \cup {x}) \in Nat
         /\ Cardinality(S \cup {x}) <= Cardinality(S) + 1
BY FS_AddElement, FS_CardinalityType

\* However many requests to add a member find a seat at once: the members only
\* grow up to the seats of the plan then in force.
THEOREM SeatsAreKept == Spec => SeatsKept
<1>1. ASSUME IInv, [Next]_vars, Cardinality(Members') > Cardinality(Members)
      PROVE  Cardinality(Members') <= MaxSeats[PlanNow]
  <2>1. IsFiniteSet(Members) /\ Cardinality(Members) \in Nat
    BY FiniteAssumption, FS_Subset, FS_CardinalityType DEF Members
  <2>2. ~(Members' \subseteq Members)
    <3>1. Members' \subseteq Members => Cardinality(Members') <= Cardinality(Members) /\ Cardinality(Members') \in Nat
      BY <2>1, FS_Subset, FS_CardinalityType
    <3>. QED  BY <1>1, <2>1, <3>1
  <2>3. PICK u \in User : Members' = Members \cup {u} /\ Cardinality(Members) < MaxSeats[PlanNow]
    BY <1>1, <2>2, SeatStep
  <2>4. MaxSeats[PlanNow] \in Nat
    BY <1>1, PlanKnown DEF IInv
  <2>5. Cardinality(Members \cup {u}) \in Nat /\ Cardinality(Members \cup {u}) <= Cardinality(Members) + 1
    BY <2>1, OneMore
  <2>. QED  BY <2>1, <2>3, <2>4, <2>5
<1>. QED  BY <1>1, IInvHolds, PTL DEF Spec, SeatsKept

\* However many usage events find room at once: what is used of a month only
\* grows up to what the plan then in force allows.
THEOREM QuotaIsKept == Spec => QuotaKept
<1>1. ASSUME IInv, [Next]_vars, NEW p \in Period, UsedIn(p)' > UsedIn(p)
      PROVE  UsedIn(p)' <= MaxUsage[PlanNow]
  <2>. DEFINE used == {k \in Key : reserved[k] = p}
  <2>1. IsFiniteSet(used) /\ Cardinality(used) \in Nat
    BY FiniteAssumption, FS_Subset, FS_CardinalityType
  <2>2. UsedIn(p) = Cardinality(used) /\ UsedIn(p)' = Cardinality(used')
    BY DEF UsedIn
  <2>3. reserved' # reserved
    BY <1>1, <2>1, <2>2
  <2>4. PICK k \in Key, q \in Period :
          /\ reserved[k] = 0 /\ reserved' = [reserved EXCEPT ![k] = q]
          /\ UsedIn(q) + 1 <= MaxUsage[PlanNow]
    BY <1>1, <2>3, ReservationStep
  <2>5. reserved \in [Key -> Period \cup {0}] /\ 0 \notin Period
    BY <1>1, PeriodAssumption DEF IInv, TypeOK
  <2>6. CASE q = p
    <3>1. used' = used \cup {k}
      BY <2>4, <2>5, <2>6
    <3>2. MaxUsage[PlanNow] \in Nat
      BY <1>1, PlanKnown DEF IInv
    <3>3. Cardinality(used \cup {k}) \in Nat /\ Cardinality(used \cup {k}) <= Cardinality(used) + 1
      BY <2>1, OneMore
    <3>. HIDE DEF used
    <3>. QED  BY <2>1, <2>2, <2>4, <2>6, <3>1, <3>2, <3>3
  <2>7. CASE q # p
    <3>1. used' = used
      BY <2>4, <2>5, <2>7
    <3>. QED  BY <1>1, <2>1, <2>2, <3>1
  <2>. QED  BY <2>6, <2>7
<1>2. IInv /\ [Next]_vars => \A p \in Period : UsedIn(p)' > UsedIn(p) => UsedIn(p)' <= MaxUsage[PlanNow]
  BY <1>1
<1>. QED  BY <1>2, IInvHolds, PTL DEF Spec, QuotaKept

\* Neither limit of a plan is passed by transactions that each found room.
THEOREM LimitsAreKept == Spec => LimitsKept
BY SeatsAreKept, QuotaIsKept DEF LimitsKept

\* An event is counted exactly when it is recorded, and stays in its month,
\* however often and in whichever month it is sent again.
THEOREM UsageIsCountedOnce == Spec => UsageCountsOnce
<1>1. ASSUME IInv, [Next]_vars, NEW k \in Key
      PROVE  /\ reserved[k] = 0 <=> k \notin recorded
             /\ reserved[k] # 0 => reserved'[k] = reserved[k]
  <2>1. reserved[k] = 0 <=> k \notin recorded
    BY <1>1 DEF IInv, RecordedOnce
  <2>2. reserved' # reserved /\ reserved[k] # 0 => reserved'[k] = reserved[k]
    BY <1>1, ReservationStep DEF IInv, TypeOK
  <2>. QED  BY <2>1, <2>2
<1>2. IInv /\ [Next]_vars =>
        \A k \in Key :
          /\ reserved[k] = 0 <=> k \notin recorded
          /\ reserved[k] # 0 => reserved'[k] = reserved[k]
  BY <1>1
<1>. QED  BY <1>2, IInvHolds, PTL DEF Spec, UsageCountsOnce

=============================================================================
