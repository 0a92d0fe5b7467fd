---------------------------- MODULE Organization ----------------------------
(***************************************************************************)
(* One organization of the PostgreSQL registry: its members and owner       *)
(* (src/registry-postgres-application.ts), their API tokens                 *)
(* (src/registry-token-service.ts), and its subscription and usage quota    *)
(* (src/registry-postgres-telemetry.ts), in enforced billing mode.          *)
(*                                                                         *)
(* Every one of these requests is a transaction that first selects the      *)
(* organization's row FOR UPDATE. A request that waits for the row has done *)
(* nothing but look at the clock, so it begins here when it gets the row. It *)
(* then reads and decides, writes, and commits. Billing events arrive in any *)
(* order, more than once, or never; usage events are sent again when an      *)
(* answer is lost. An operator may mint a token straight on the database     *)
(* (issuePostgresBootstrapToken in src/registry-runtime.ts), which does not   *)
(* select the row.                                                           *)
(***************************************************************************)
EXTENDS Naturals, FiniteSets

CONSTANTS
  Txn,       \* the connections of the registry's pool
  NoTxn,
  User,
  NoUser,
  Event,     \* billing events: [id, time, plan]
  NoEvent,
  Key,       \* ids of usage events
  Period,    \* the months that are looked at, as positive numbers
  MaxSeats,  \* MaxSeats[plan]: the members an organization may have
  MaxUsage   \* MaxUsage[plan]: the usage events it may send in a month

Plan == DOMAIN MaxSeats

ASSUME PlanAssumption ==
  /\ "free" \in Plan /\ DOMAIN MaxUsage = Plan
  /\ \A p \in Plan : MaxSeats[p] \in Nat /\ MaxUsage[p] \in Nat
ASSUME EventAssumption == Event \subseteq [id : Nat, time : Nat, plan : Plan] /\ NoEvent \notin Event
ASSUME PeriodAssumption == Period \subseteq Nat \ {0}
ASSUME NoneAssumption == NoTxn \notin Txn /\ NoUser \notin User /\ User \cap BOOLEAN = {}
ASSUME FiniteAssumption == IsFiniteSet(User) /\ IsFiniteSet(Key)

VARIABLES
  role,          \* role[u]: registry_memberships, "none" if there is no row
  owner,         \* registry_organizations.owner_user_id
  tokens,        \* tokens[u]: the kinds of u's tokens that are not revoked
  subscription,  \* the event that registry_subscriptions was last set by
  received,      \* registry_billing_webhook_events
  reserved,      \* reserved[k]: the month of k's row in registry_usage_reservations, or 0
  recorded,      \* registry_usage_events
  lock,          \* the transaction that holds the organization's row
  pc,            \* pc[t]: the next step of the transaction t
  req,           \* req[t]: the request it serves
  choice         \* choice[t]: what it has decided beyond the request itself

members == <<role, owner, tokens>>
billing == <<subscription, received>>
usage   == <<reserved, recorded>>
stored  == <<role, owner, tokens, subscription, received, reserved, recorded>>
vars    == <<role, owner, tokens, subscription, received, reserved, recorded,
             lock, pc, req, choice>>

\* "viewer" stands for publishers as well: neither manages anything here.
Role == {"viewer", "admin", "owner"}

\* A token that a manager issued, or that bootstrap-token minted.
TokenKind == {"issued", "bootstrap"}

Managers == {"admin", "owner"}

Members == {u \in User : role[u] # "none"}

\* The month of a usage event is that of the server's clock before it waits
\* for the row, so that requests of two months come in either order.
Request ==
  [kind : {"add", "update"}, actor : User, user : User, role : Role]
    \cup [kind : {"remove", "revoke"}, actor : User, user : User]
    \cup [kind : {"issue", "bootstrap"}, actor : User]
    \cup [kind : {"webhook"}, event : Event]
    \cup [kind : {"usage"}, key : Key, period : Period]

NoRequest == [kind |-> "none"]

\* A new owner, or whether a billing event or a usage event counts.
NoChoice == FALSE

TypeOK ==
  /\ role \in [User -> Role \cup {"none"}]
  /\ owner \in User
  /\ tokens \in [User -> SUBSET TokenKind]
  /\ subscription \in Event \cup {NoEvent}
  /\ received \subseteq Event
  /\ reserved \in [Key -> Period \cup {0}]
  /\ recorded \subseteq Key
  /\ lock \in Txn \cup {NoTxn}
  /\ pc \in [Txn -> {"idle", "decide", "insert", "commit"}]
  /\ req \in [Txn -> Request \cup {NoRequest}]
  /\ choice \in [Txn -> BOOLEAN \cup User]

\* What bootstrapPostgresRegistry leaves behind.
Init ==
  /\ owner \in User
  /\ role = [u \in User |-> IF u = owner THEN "owner" ELSE "none"]
  /\ tokens = [u \in User |-> {}]
  /\ subscription = NoEvent
  /\ received = {}
  /\ reserved = [k \in Key |-> 0]
  /\ recorded = {}
  /\ lock = NoTxn
  /\ pc = [t \in Txn |-> "idle"]
  /\ req = [t \in Txn |-> NoRequest]
  /\ choice = [t \in Txn |-> NoChoice]

-----------------------------------------------------------------------------
(* Transactions.                                                            *)

BeginUnlocked(t, r) ==
  /\ pc[t] = "idle"
  /\ pc' = [pc EXCEPT ![t] = "decide"]
  /\ req' = [req EXCEPT ![t] = r]
  /\ UNCHANGED <<stored, lock, choice>>

\* BEGIN; SELECT ... FROM registry_organizations ... FOR UPDATE, which
\* bootstrap-token leaves out.
Begin(t, r) ==
  /\ pc[t] = "idle"
  /\ IF r.kind = "bootstrap" THEN UNCHANGED lock ELSE lock = NoTxn /\ lock' = t
  /\ pc' = [pc EXCEPT ![t] = "decide"]
  /\ req' = [req EXCEPT ![t] = r]
  /\ UNCHANGED <<stored, choice>>

End(t) ==
  /\ lock' = IF lock = t THEN NoTxn ELSE lock
  /\ pc' = [pc EXCEPT ![t] = "idle"]
  /\ req' = [req EXCEPT ![t] = NoRequest]
  /\ choice' = [choice EXCEPT ![t] = NoChoice]

\* Refused, or the connection is lost: ROLLBACK.
Fail(t) ==
  /\ pc[t] # "idle"
  /\ End(t)
  /\ UNCHANGED stored

Decided(t, c) ==
  /\ pc' = [pc EXCEPT ![t] = "commit"]
  /\ choice' = [choice EXCEPT ![t] = c]
  /\ UNCHANGED <<stored, lock, req>>

Deciding(t, kind) == pc[t] = "decide" /\ req[t].kind = kind

-----------------------------------------------------------------------------
(* Members.                                                                 *)

PlanNow == IF subscription = NoEvent THEN "free" ELSE subscription.plan

Manages(u) == role[u] \in Managers

\* Only owners make, change or remove owners.
MayTouch(actor, roles) == Manages(actor) /\ ("owner" \in roles => role[actor] = "owner")

\* addMember: there must be a seat.
DecideAdd(t) ==
  /\ Deciding(t, "add")
  /\ MayTouch(req[t].actor, {req[t].role})
  /\ role[req[t].user] = "none"
  /\ Cardinality(Members) < MaxSeats[PlanNow]
  /\ Decided(t, NoChoice)

DecideWithoutTransfer(t, u) ==
  /\ role[u] = "owner" => \E v \in User \ {u} : role[v] = "owner"
  /\ Decided(t, NoChoice)

\* An owner who steps down or leaves is succeeded by another owner member, who
\* has to exist.
DecideSuccessor(t, u) ==
  IF role[u] = "owner"
    THEN \E v \in User \ {u} :
           role[v] = "owner" /\ Decided(t, IF owner = u THEN v ELSE NoChoice)
    ELSE Decided(t, NoChoice)

DecideUpdate(t) ==
  LET u == req[t].user IN
  /\ Deciding(t, "update")
  /\ role[u] \notin {"none", req[t].role}
  /\ MayTouch(req[t].actor, {role[u], req[t].role})
  /\ IF req[t].role = "owner" THEN Decided(t, NoChoice) ELSE DecideSuccessor(t, u)

DecideRemove(t) ==
  LET u == req[t].user IN
  /\ Deciding(t, "remove")
  /\ role[u] # "none"
  /\ MayTouch(req[t].actor, {role[u]})
  /\ DecideSuccessor(t, u)

SucceedAlways(t) == owner' = choice[t]

Succeed(t) == owner' = IF choice[t] \in User THEN choice[t] ELSE owner

CommitAdd(t) ==
  /\ req[t].kind = "add"
  /\ role' = [role EXCEPT ![req[t].user] = req[t].role]
  /\ UNCHANGED <<owner, tokens, billing, usage>>

CommitUpdateOnly(t) ==
  /\ req[t].kind = "update"
  /\ role' = [role EXCEPT ![req[t].user] = req[t].role]
  /\ Succeed(t)
  /\ UNCHANGED <<tokens, billing, usage>>

\* A new role revokes the tokens issued under the old one.
CommitUpdate(t) ==
  /\ req[t].kind = "update"
  /\ role' = [role EXCEPT ![req[t].user] = req[t].role]
  /\ tokens' = [tokens EXCEPT ![req[t].user] = {}]
  /\ Succeed(t)
  /\ UNCHANGED <<billing, usage>>

CommitRemove(t) ==
  /\ req[t].kind = "remove"
  /\ role' = [role EXCEPT ![req[t].user] = "none"]
  /\ tokens' = [tokens EXCEPT ![req[t].user] = {}]
  /\ Succeed(t)
  /\ UNCHANGED <<billing, usage>>

-----------------------------------------------------------------------------
(* Tokens.                                                                  *)

\* assertCurrentPostgresActor: the actor's role is looked up again.
DecideToken(t) ==
  /\ pc[t] = "decide" /\ req[t].kind \in {"issue", "revoke"}
  /\ Manages(req[t].actor)
  /\ Decided(t, NoChoice)

\* Tokens are issued to the actor.
CommitIssue(t) ==
  /\ req[t].kind = "issue"
  /\ tokens' = [tokens EXCEPT ![req[t].actor] = @ \cup {"issued"}]
  /\ UNCHANGED <<role, owner, billing, usage>>

\* revokeForSubject, or revoke of a user's last token of a kind.
CommitRevoke(t) ==
  /\ req[t].kind = "revoke"
  /\ \E kinds \in {{}} \cup {TokenKind \ {k} : k \in TokenKind} :
       tokens' = [tokens EXCEPT ![req[t].user] = @ \cap kinds]
  /\ UNCHANGED <<role, owner, billing, usage>>

\* issuePostgresBootstrapToken: only for the current owner.
DecideBootstrap(t) ==
  /\ Deciding(t, "bootstrap")
  /\ role[req[t].actor] = "owner" /\ owner = req[t].actor
  /\ pc' = [pc EXCEPT ![t] = "insert"]
  /\ UNCHANGED <<stored, lock, req, choice>>

\* insertApiToken: INSERT ... SELECT ... FROM registry_memberships.
InsertBootstrap(t) ==
  /\ pc[t] = "insert"
  /\ role[req[t].actor] # "none"
  /\ Decided(t, NoChoice)

\* The foreign key locks the organization's row FOR KEY SHARE, and waits for a
\* transaction that has it FOR UPDATE.
CommitBootstrap(t) ==
  /\ req[t].kind = "bootstrap"
  /\ lock = NoTxn
  /\ tokens' = [tokens EXCEPT ![req[t].actor] = @ \cup {"bootstrap"}]
  /\ UNCHANGED <<role, owner, billing, usage>>

-----------------------------------------------------------------------------
(* Billing events.                                                          *)

NewerByTime(e, f) == e.time > f.time

\* isBillingEventNewer: by time, then by id.
Newer(e, f) == e.time > f.time \/ (e.time = f.time /\ e.id > f.id)

SameId(e) == {f \in received : f.id = e.id}

\* PostgresBillingWebhookHandler.handle: an id that was received before is not
\* applied again, and refused if it comes with other data.
DecideWebhook(t) ==
  LET e == req[t].event IN
  /\ Deciding(t, "webhook")
  /\ SameId(e) \subseteq {e}
  /\ Decided(t, e \notin received
                  /\ (subscription = NoEvent \/ Newer(e, subscription)))

CommitWebhook(t) ==
  /\ req[t].kind = "webhook"
  /\ received' = received \cup {req[t].event}
  /\ subscription' = IF choice[t] = TRUE THEN req[t].event ELSE subscription
  /\ UNCHANGED <<members, usage>>

-----------------------------------------------------------------------------
(* Usage.                                                                   *)

UsedIn(p) == Cardinality({k \in Key : reserved[k] = p})

DecideUsageByMonth(t) ==
  /\ Deciding(t, "usage")
  /\ \/ reserved[req[t].key] = req[t].period /\ Decided(t, FALSE)
     \/ /\ reserved[req[t].key] # req[t].period
        /\ UsedIn(req[t].period) + 1 <= MaxUsage[PlanNow]
        /\ Decided(t, TRUE)

\* recordWithQuota: reserveQuota for the request's month, then the event itself.
\* An event that was reserved already counts once, and belongs to its month.
DecideUsage(t) ==
  LET k == req[t].key
      period == req[t].period
  IN
  /\ Deciding(t, "usage")
  /\ \/ reserved[k] = period /\ k \in recorded /\ Decided(t, FALSE)
     \/ /\ reserved[k] = 0 /\ k \notin recorded
        /\ UsedIn(period) + 1 <= MaxUsage[PlanNow]
        /\ Decided(t, TRUE)

CommitUsage(t) ==
  /\ req[t].kind = "usage"
  /\ reserved' = IF choice[t] = TRUE THEN [reserved EXCEPT ![req[t].key] = req[t].period] ELSE reserved
  /\ recorded' = recorded \cup {req[t].key}
  /\ UNCHANGED <<members, billing>>

-----------------------------------------------------------------------------

Decide(t) ==
  \/ DecideAdd(t) \/ DecideUpdate(t) \/ DecideRemove(t) \/ DecideToken(t)
  \/ DecideBootstrap(t) \/ InsertBootstrap(t) \/ DecideWebhook(t) \/ DecideUsage(t)

Commit(t) ==
  /\ pc[t] = "commit"
  /\ \/ CommitAdd(t) \/ CommitUpdate(t) \/ CommitRemove(t)
     \/ CommitIssue(t) \/ CommitRevoke(t) \/ CommitBootstrap(t)
     \/ CommitWebhook(t) \/ CommitUsage(t)
  /\ End(t)

Next ==
  \E t \in Txn :
    \/ \E r \in Request : Begin(t, r)
    \/ Decide(t) \/ Commit(t) \/ Fail(t)

Spec == Init /\ [][Next]_vars

-----------------------------------------------------------------------------
(* Properties.                                                              *)

\* updateMemberRole, removeMember and transferOrganizationOwner: the owner that
\* the organization's row names is always a member with the owner's role, so
\* that somebody can manage it.
OwnerKept == role[owner] = "owner"

\* Nobody keeps a token that was issued to a manager after having lost the role
\* it was issued under: not even one that was being issued meanwhile.
TokensOfManagers == \A u \in User : "issued" \in tokens[u] => Manages(u)

\* #assertSeatAvailable: the members only grow up to the seats of the plan that
\* is in force when they do. A plan that shrinks sends nobody away.
SeatsKept ==
  [][Cardinality(Members') > Cardinality(Members)
       => Cardinality(Members') <= MaxSeats[PlanNow]]_vars

\* PostgresBillingWebhookHandler: the subscription is that of the newest event
\* that was ever received, in whichever order and however often they came; of
\* two events with the same time, the one with the higher id.
PlanFollowsNewest ==
  IF received = {} THEN subscription = NoEvent
  ELSE /\ subscription \in received
       /\ \A e \in received \ {subscription} :
            e.time <= subscription.time /\ (e.time = subscription.time => e.id < subscription.id)

\* reserveQuota: what is used of a month only grows up to what the plan that is
\* in force then allows.
QuotaKept ==
  [][\A p \in Period : UsedIn(p)' > UsedIn(p) => UsedIn(p)' <= MaxUsage[PlanNow]]_vars

\* Neither limit of a plan is passed by two transactions that each found room.
LimitsKept == SeatsKept /\ QuotaKept

\* recordWithQuota: an event counts against the quota exactly when it is
\* recorded, and stays in the month it first counted in, however often and in
\* whichever month it is sent again.
UsageCountsOnce ==
  [][\A k \in Key :
       /\ reserved[k] = 0 <=> k \notin recorded
       /\ reserved[k] # 0 => reserved'[k] = reserved[k]]_vars

\* issuePostgresBootstrapToken: "only for the organization's current owner".
BootstrapForOwner ==
  [][\A u \in User :
       "bootstrap" \in tokens'[u] \ tokens[u] => owner = u]_vars

=============================================================================
