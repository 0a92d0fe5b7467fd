--------------------------- MODULE RegistryServer ---------------------------
(***************************************************************************)
(* The HTTP registry over the in-memory services: the routes of               *)
(* src/registry-server.ts, who may call them (src/registry-auth.ts), API       *)
(* tokens (src/registry-token-service.ts), plans, quota and usage              *)
(* (src/registry-telemetry.ts), and the domain of RegistryDomain.              *)
(*                                                                         *)
(* One Node process serves all requests and changes requests at an await        *)
(* only: what a route does between two awaits is one step here, and pc says      *)
(* which one comes next. A request that is turned down ends where it is.        *)
(***************************************************************************)
EXTENDS RegistryDomain

CONSTANTS
  Conn,      \* requests in flight at the same time
  NoConn,
  Token,     \* ids of API tokens
  Key,       \* ids of usage events
  Data,      \* what a usage event can say beside its id
  NoData,
  Period,    \* months, as positive numbers
  Event,     \* billing events: [id, time, plan]
  NoEvent,
  Seats,     \* Seats[plan], Quota[plan]: members, and usage events a month
  Quota,
  Private,   \* the plans that allow private packages
  Traffic    \* Traffic[m]: the requests and billing events that are sent in the mix m

Plans == {"free"} \cup {e.plan : e \in Event}

\* A request names a release, a usage event, a token or a member that there can be,
\* and all but the public ones are somebody's.
ASSUME TrafficAssumption ==
  \A m \in DOMAIN Traffic : \A r \in Traffic[m] \ Event :
    /\ r.kind \notin {"public", "diff"} => r.by \in User
    /\ r.kind = "create" => r.visibility \in {"public", "private"}
    /\ r.kind = "revoke" => r.token \in Token
    /\ r.kind \in {"submit", "approve", "reject", "yank", "download", "public", "diff", "usage"} =>
         r.version \in Version
    /\ r.kind = "submit" => r.content \in Content
    /\ r.kind = "diff" => r.to \in Version
    /\ r.kind = "usage" => r.key \in Key /\ r.data \in Data
    /\ r.kind \in {"add", "setRole", "remove"} => r.user \in User
    /\ r.kind \in {"add", "setRole"} => r.role \in Role

ASSUME PlansAssumption == \A p \in Plans : Seats[p] \in Nat \ {0} /\ Quota[p] \in Nat

ASSUME PeopleAssumption == IsFiniteSet(User)

ASSUME MonthsAssumption == IsFiniteSet(Key) /\ Period \subseteq Nat \ {0}

ASSUME NothingAssumption ==
  NoContent \notin Content /\ NoData \notin Data /\ NoEvent \notin Event /\ NoConn \notin Conn

VARIABLES
  token,        \* token[i]: [state, of]
  billed,       \* the billing events seen
  subscription, \* the billing event that set the plan
  reserved,     \* reserved[k]: the month that the usage event k was charged to, or 0
  recorded,     \* recorded[k]: what the usage ledger keeps of the event k
  served,       \* what downloads and diffs have told: <<version, artifact>>
  queued,       \* memberMutationLocks: the last to wait for the members, or NoConn
  behind,       \* behind[c]: whom c waits for before it may look at the members
  pc,
  req,
  actor,        \* actor[c]: the role that requireActor found, or "service"
  seats,        \* seats[c]: the number of members that c found room for
  mix         \* which traffic there is

billing == <<billed, subscription>>
usage   == <<reserved, recorded>>
waiting == <<queued, behind, seats>>
vars    == <<domain, token, billing, usage, served, waiting, pc, req, actor, mix>>

NoRequest == [kind |-> "none"]

Live(i) == token[i].state = "live"

plan == IF subscription = NoEvent THEN "free" ELSE subscription.plan

\* Free of a wait, or the one it waited for has finished.
Resolved(c) == behind[c] = NoConn

TypeOK ==
  /\ DomainTypeOK
  /\ token \in [Token -> [state : {"unused", "live", "revoked"}, of : User \cup {NoUser}]]
  /\ billed \subseteq Event /\ subscription \in Event \cup {NoEvent}
  /\ reserved \in [Key -> Period \cup {0}]
  /\ recorded \in [Key -> Data \cup {NoData}]
  /\ served \subseteq Version \X Content
  /\ queued \in Conn \cup {NoConn}
  /\ behind \in [Conn -> Conn \cup {NoConn}]
  /\ \A c \in Conn : behind[c] # c
  /\ pc \in [Conn -> {"idle", "package", "entitled", "act", "put", "enqueue", "list", "seats",
                      "insert", "release", "fetch", "charge", "record", "revoke"}]
  /\ req \in [Conn -> Traffic[mix] \cup {NoRequest}]
  /\ actor \in [Conn -> Role \cup {"none", "service"}]
  /\ seats \in [Conn -> 0 .. Cardinality(User)]
  /\ mix \in DOMAIN Traffic

\* A server that has just started, with the organization that a setup created.
Fresh ==
  /\ token = [i \in Token |-> [state |-> "unused", of |-> NoUser]]
  /\ billed = {} /\ subscription = NoEvent
  /\ reserved = [k \in Key |-> 0]
  /\ recorded = [k \in Key |-> NoData]
  /\ served = {}
  /\ queued = NoConn
  /\ behind = [c \in Conn |-> NoConn]
  /\ pc = [c \in Conn |-> "idle"]
  /\ req = [c \in Conn |-> NoRequest]
  /\ actor = [c \in Conn |-> "none"]
  /\ seats = [c \in Conn |-> 0]

Init == Fresh /\ mix \in DOMAIN Traffic /\ \E u \in User : CreateOrganization(u)

-----------------------------------------------------------------------------
(* Authorization, and the way of a request through its route.               *)

VIEWER_PERMISSIONS == {"pack:read"}
PUBLISHER_PERMISSIONS == VIEWER_PERMISSIONS \cup {"pack:publish"}
ADMIN_PERMISSIONS ==
  PUBLISHER_PERMISSIONS \cup
    {"pack:deprecate", "member:manage", "token:issue", "token:revoke"}

ROLE_PERMISSIONS ==
  [none |-> {}, viewer |-> VIEWER_PERMISSIONS, publisher |-> PUBLISHER_PERMISSIONS,
   admin |-> ADMIN_PERMISSIONS, owner |-> ADMIN_PERMISSIONS]

SERVICE_ACTOR_PERMISSIONS == PUBLISHER_PERMISSIONS

\* What each route passes to requireActor.
Permission ==
  [create |-> "pack:publish", submit |-> "pack:publish",
   approve |-> "pack:deprecate", reject |-> "pack:deprecate", yank |-> "pack:deprecate",
   add |-> "member:manage", setRole |-> "member:manage", remove |-> "member:manage",
   issue |-> "token:issue", revoke |-> "token:revoke",
   download |-> "pack:read", usage |-> "pack:read"]

\* Where a route goes on once it knows its actor.
FirstStep(r) ==
  CASE r.kind \in {"submit", "approve"} -> "package"
    [] r.kind = "create" /\ r.visibility = "private" -> "entitled"
    [] r.kind = "add" -> "enqueue"
    [] r.kind \in {"download", "public", "diff", "usage"} -> "release"
    [] OTHER -> "act"

Start(c, r, as) ==
  /\ pc[c] = "idle"
  /\ pc' = [pc EXCEPT ![c] = FirstStep(r)]
  /\ req' = [req EXCEPT ![c] = r]
  /\ actor' = [actor EXCEPT ![c] = as]
  /\ UNCHANGED <<domain, token, billing, usage, served, waiting, mix>>

\* A member who proves an identity: the role is the one of this moment.
AuthorizeHuman(c, r) ==
  /\ r.kind \in DOMAIN Permission
  /\ Permission[r.kind] \in ROLE_PERMISSIONS[role[r.by]]
  /\ Start(c, r, role[r.by])

\* A token acts for whoever issued it, in the scopes of a service.
AuthorizeToken(c, r) ==
  /\ r.kind \in DOMAIN Permission
  /\ \E i \in Token : Live(i) /\ token[i].of = r.by
  /\ Permission[r.kind] \in SERVICE_ACTOR_PERMISSIONS
  /\ Start(c, r, "service")

\* The public routes ask for no actor.
Admit(c, r) == r.kind \in {"public", "diff"} /\ Start(c, r, "none")

At(c, step, kinds) == pc[c] = step /\ req[c].kind \in kinds

Goto(c, step) == pc' = [pc EXCEPT ![c] = step] /\ UNCHANGED <<req, actor>>

End(c) ==
  /\ pc' = [pc EXCEPT ![c] = "idle"]
  /\ req' = [req EXCEPT ![c] = NoRequest]
  /\ actor' = [actor EXCEPT ![c] = "none"]

\* requireEntitledRegistryPackage, as its first half.
GetPackage(c) ==
  /\ pc[c] = "package"
  /\ IF MayGetPackage(req[c].by)
     THEN Goto(c, IF package = "private" THEN "entitled" ELSE "act")
     ELSE End(c)
  /\ UNCHANGED <<domain, token, billing, usage, served, waiting, mix>>

\* A private package needs a plan with private packages.
CheckEntitled(c) ==
  /\ pc[c] = "entitled"
  /\ IF plan \in Private THEN Goto(c, "act") ELSE End(c)
  /\ UNCHANGED <<domain, token, billing, usage, served, waiting, mix>>

-----------------------------------------------------------------------------
(* Packages, releases, downloads.                                           *)

CreatePackageRoute(c) ==
  /\ At(c, "act", {"create"})
  /\ IF MayCreatePackage(req[c].by) THEN CreatePackage(req[c].visibility) ELSE UNCHANGED package
  /\ End(c)
  /\ UNCHANGED <<role, releases, content, artifact, token, billing, usage, served, waiting, mix>>

\* The artifact is stored after the release, which only one submission gets.
SubmitRoute(c) ==
  /\ At(c, "act", {"submit"})
  /\ LET r == req[c] IN
     IF Compatible(r.version, r.content) /\ MaySubmitRelease(r.by, r.version)
     THEN SubmitRelease(r.by, r.version, r.content) /\ Goto(c, "put")
     ELSE End(c) /\ UNCHANGED <<releases, content>>
  /\ UNCHANGED <<role, package, artifact, token, billing, usage, served, waiting, mix>>

\* Mutation: a release that was decided on in the meantime is not stored.
StoreArtifactIfPending(c) ==
  /\ pc[c] = "put"
  /\ IF status[req[c].version] = "pending"
     THEN PutArtifact(req[c].version, req[c].content) ELSE UNCHANGED artifact
  /\ End(c)
  /\ UNCHANGED <<role, package, releases, content, token, billing, usage, served, waiting, mix>>

StoreArtifact(c) ==
  /\ pc[c] = "put"
  /\ PutArtifact(req[c].version, req[c].content)
  /\ End(c)
  /\ UNCHANGED <<role, package, releases, content, token, billing, usage, served, waiting, mix>>

ApproveRoute(c) ==
  /\ At(c, "act", {"approve"})
  /\ IF MayApproveRelease(req[c].by, req[c].version)
     THEN ApproveRelease(req[c].by, req[c].version) ELSE UNCHANGED releases
  /\ End(c)
  /\ UNCHANGED <<role, package, content, artifact, token, billing, usage, served, waiting, mix>>

RejectRoute(c) ==
  /\ At(c, "act", {"reject"})
  /\ IF MayRejectRelease(req[c].by, req[c].version)
     THEN RejectRelease(req[c].by, req[c].version) ELSE UNCHANGED releases
  /\ End(c)
  /\ UNCHANGED <<role, package, content, artifact, token, billing, usage, served, waiting, mix>>

YankRoute(c) ==
  /\ At(c, "act", {"yank"})
  /\ IF MayYankRelease(req[c].by, req[c].version)
     THEN YankRelease(req[c].version) ELSE UNCHANGED releases
  /\ End(c)
  /\ UNCHANGED <<role, package, content, artifact, token, billing, usage, served, waiting, mix>>

\* Mutation: only yanked releases are turned down.
GetReleaseUnlessYanked(c) ==
  /\ At(c, "release", {"download"})
  /\ LET r == req[c] IN
     IF MayGetRelease(r.by, r.version) /\ status[r.version] # "yanked"
     THEN Goto(c, "fetch") ELSE End(c)
  /\ UNCHANGED <<domain, token, billing, usage, served, waiting, mix>>

\* getRelease of a member; a pending or rejected release cannot be downloaded.
GetRelease(c) ==
  /\ At(c, "release", {"download"})
  /\ LET r == req[c] IN
     IF MayGetRelease(r.by, r.version) /\ status[r.version] = "published"
     THEN Goto(c, "fetch") ELSE End(c)
  /\ UNCHANGED <<domain, token, billing, usage, served, waiting, mix>>

GetPublicRelease(c) ==
  /\ At(c, "release", {"public"})
  /\ LET v == req[c].version IN
     IF MayGetPublicRelease(v) /\ status[v] # "yanked" THEN Goto(c, "fetch") ELSE End(c)
  /\ UNCHANGED <<domain, token, billing, usage, served, waiting, mix>>

\* A download is recorded before it is answered.
Fetch(c) ==
  /\ At(c, "fetch", {"download", "public"})
  /\ LET v == req[c].version IN
     served' = IF artifact[v] = NoContent THEN served ELSE served \cup {<<v, artifact[v]>>}
  /\ End(c)
  /\ UNCHANGED <<domain, token, billing, usage, waiting, mix>>

\* Two versions are compared if anybody may see both of them.
GetComparedReleases(c) ==
  /\ At(c, "release", {"diff"})
  /\ IF MayGetPublicRelease(req[c].version) /\ MayGetPublicRelease(req[c].to)
     THEN Goto(c, "fetch") ELSE End(c)
  /\ UNCHANGED <<domain, token, billing, usage, served, waiting, mix>>

\* The answer tells both artifacts, if they are the ones of the releases.
Compare(c) ==
  /\ At(c, "fetch", {"diff"})
  /\ LET compared == {req[c].version, req[c].to} IN
     served' = IF \A v \in compared : artifact[v] # NoContent /\ artifact[v] = content[v]
               THEN served \cup {<<v, artifact[v]>> : v \in compared} ELSE served
  /\ End(c)
  /\ UNCHANGED <<domain, token, billing, usage, waiting, mix>>

-----------------------------------------------------------------------------
(* Members and tokens.                                                      *)

\* Only a human owner grants the owner role: what the route knows of its actor.
MayGrant(c) == req[c].role = "owner" => actor[c] = "owner"

\* Mutation: the request is made the last one before it looks whom to wait for.
EnqueueBehindItself(c) ==
  /\ pc[c] = "enqueue"
  /\ IF MayGrant(c)
     THEN /\ queued' = c
          /\ behind' = [behind EXCEPT ![c] = queued']
          /\ Goto(c, "list")
     ELSE End(c) /\ UNCHANGED <<queued, behind>>
  /\ UNCHANGED <<domain, token, billing, usage, served, seats, mix>>

\* withKeyedMutationLock: who comes last is the one that the next waits for.
Enqueue(c) ==
  /\ pc[c] = "enqueue"
  /\ IF MayGrant(c)
     THEN /\ behind' = [behind EXCEPT ![c] = queued]
          /\ queued' = c
          /\ Goto(c, "list")
     ELSE End(c) /\ UNCHANGED <<queued, behind>>
  /\ UNCHANGED <<domain, token, billing, usage, served, seats, mix>>

\* Mutation: the lock is forgotten although another request waits.
ReleaseAlways(c) ==
  /\ behind' = [d \in Conn |-> IF behind[d] = c THEN NoConn ELSE behind[d]]
  /\ queued' = NoConn

\* release(): whoever waits goes on, and the last one leaves no lock behind.
Release(c) ==
  /\ behind' = [d \in Conn |-> IF behind[d] = c THEN NoConn ELSE behind[d]]
  /\ queued' = IF queued = c THEN NoConn ELSE queued

ListMembers(c) ==
  /\ pc[c] = "list" /\ Resolved(c)
  /\ LET r == req[c] IN
     IF role[r.by] \in Managers
     THEN /\ seats' = [seats EXCEPT ![c] = Cardinality(Members)]
          /\ Goto(c, IF r.user \in Members THEN "insert" ELSE "seats")
          /\ UNCHANGED <<queued, behind>>
     ELSE Release(c) /\ End(c) /\ UNCHANGED seats
  /\ UNCHANGED <<domain, token, billing, usage, served, mix>>

AssertSeats(c) ==
  /\ pc[c] = "seats"
  /\ IF seats[c] + 1 <= Seats[plan]
     THEN Goto(c, "insert") /\ seats' = [seats EXCEPT ![c] = seats[c] + 1] /\ UNCHANGED <<queued, behind>>
     ELSE Release(c) /\ End(c) /\ seats' = [seats EXCEPT ![c] = 0]
  /\ UNCHANGED <<domain, token, billing, usage, served, mix>>

AddMemberRoute(c) ==
  /\ pc[c] = "insert"
  /\ LET r == req[c] IN
     IF MayAddMember(r.by, r.user, r.role) THEN AddMember(r.user, r.role) ELSE UNCHANGED role
  /\ Release(c) /\ End(c)
  /\ seats' = [seats EXCEPT ![c] = 0]
  /\ UNCHANGED <<package, releases, content, artifact, token, billing, usage, served, mix>>

UpdateMemberRoleRoute(c) ==
  /\ At(c, "act", {"setRole"})
  /\ LET r == req[c] IN
     IF MayGrant(c) /\ MayUpdateMemberRole(r.by, r.user, r.role)
     THEN UpdateMemberRole(r.user, r.role) /\ Goto(c, "revoke")
     ELSE End(c) /\ UNCHANGED role
  /\ UNCHANGED <<package, releases, content, artifact, token, billing, usage, served, waiting, mix>>

RemoveMemberRoute(c) ==
  /\ At(c, "act", {"remove"})
  /\ IF MayRemoveMember(req[c].by, req[c].user)
     THEN RemoveMember(req[c].user) /\ Goto(c, "revoke")
     ELSE End(c) /\ UNCHANGED role
  /\ UNCHANGED <<package, releases, content, artifact, token, billing, usage, served, waiting, mix>>

RevokeForSubject(c) ==
  /\ pc[c] = "revoke"
  /\ token' = [i \in Token |-> IF Live(i) /\ token[i].of = req[c].user
                               THEN [token[i] EXCEPT !.state = "revoked"] ELSE token[i]]
  /\ End(c)
  /\ UNCHANGED <<domain, billing, usage, served, waiting, mix>>

\* The token service trusts the actor that requireActor found. Bound: Token.
IssueRoute(c) ==
  /\ At(c, "act", {"issue"})
  /\ LET unused == {i \in Token : token[i].state = "unused"} IN
     IF unused = {} THEN UNCHANGED token
     ELSE \E i \in unused : token' = [token EXCEPT ![i] = [state |-> "live", of |-> req[c].by]]
  /\ End(c)
  /\ UNCHANGED <<domain, billing, usage, served, waiting, mix>>

RevokeRoute(c) ==
  /\ At(c, "act", {"revoke"})
  /\ LET i == req[c].token IN
     token' = IF Live(i) THEN [token EXCEPT ![i].state = "revoked"] ELSE token
  /\ End(c)
  /\ UNCHANGED <<domain, billing, usage, served, waiting, mix>>

-----------------------------------------------------------------------------
(* Usage and billing.                                                       *)

\* Usage is reported of releases that were published.
GetUsedRelease(c) ==
  /\ At(c, "release", {"usage"})
  /\ LET r == req[c] IN
     IF MayGetRelease(r.by, r.version) /\ status[r.version] \in {"published", "yanked"}
     THEN Goto(c, "charge") ELSE End(c)
  /\ UNCHANGED <<domain, token, billing, usage, served, waiting, mix>>

Charged(p) == {k \in Key : reserved[k] = p}

\* Mutation: the quota is compared with what was used before this event.
ConsumeOneMore(c, p) ==
  /\ pc[c] = "charge"
  /\ LET k == req[c].key IN
     \/ reserved[k] = p /\ Goto(c, "record") /\ UNCHANGED reserved
     \/ reserved[k] \notin {0, p} /\ End(c) /\ UNCHANGED reserved
     \/ /\ reserved[k] = 0
        /\ IF Cardinality(Charged(p)) <= Quota[plan]
           THEN reserved' = [reserved EXCEPT ![k] = p] /\ Goto(c, "record")
           ELSE End(c) /\ UNCHANGED reserved
  /\ UNCHANGED <<domain, token, billing, recorded, served, waiting, mix>>

\* consume: an id is charged once, to the month of the clock.
Consume(c, p) ==
  /\ pc[c] = "charge"
  /\ LET k == req[c].key IN
     \/ reserved[k] = p /\ Goto(c, "record") /\ UNCHANGED reserved
     \/ reserved[k] \notin {0, p} /\ End(c) /\ UNCHANGED reserved
     \/ /\ reserved[k] = 0
        /\ IF Cardinality(Charged(p)) + 1 <= Quota[plan]
           THEN reserved' = [reserved EXCEPT ![k] = p] /\ Goto(c, "record")
           ELSE End(c) /\ UNCHANGED reserved
  /\ UNCHANGED <<domain, token, billing, recorded, served, waiting, mix>>

\* record: the same event again is no error, another one of the same id is.
Record(c) ==
  /\ pc[c] = "record"
  /\ LET r == req[c] IN
     recorded' = IF recorded[r.key] = NoData THEN [recorded EXCEPT ![r.key] = r.data] ELSE recorded
  /\ End(c)
  /\ UNCHANGED <<domain, token, billing, reserved, served, waiting, mix>>

isBillingEventNewer(e) ==
  \/ subscription = NoEvent
  \/ e.time > subscription.time
  \/ e.time = subscription.time /\ e.id > subscription.id

Webhook(e) ==
  /\ e \in Traffic[mix]
  /\ \A seen \in billed : seen.id # e.id
  /\ billed' = billed \cup {e}
  /\ subscription' = IF isBillingEventNewer(e) THEN e ELSE subscription
  /\ UNCHANGED <<domain, token, usage, served, waiting, pc, req, actor, mix>>

-----------------------------------------------------------------------------

ReleaseStep(c) ==
  \/ CreatePackageRoute(c) \/ SubmitRoute(c) \/ StoreArtifact(c)
  \/ ApproveRoute(c) \/ RejectRoute(c) \/ YankRoute(c)
  \/ GetRelease(c) \/ GetPublicRelease(c) \/ Fetch(c)
  \/ GetComparedReleases(c) \/ Compare(c)

MemberStep(c) ==
  \/ Enqueue(c) \/ ListMembers(c) \/ AssertSeats(c) \/ AddMemberRoute(c)
  \/ UpdateMemberRoleRoute(c) \/ RemoveMemberRoute(c)
  \/ RevokeForSubject(c) \/ IssueRoute(c) \/ RevokeRoute(c)

UsageStep(c) == GetUsedRelease(c) \/ (\E p \in Period : Consume(c, p)) \/ Record(c)

Step(c) == GetPackage(c) \/ CheckEntitled(c) \/ ReleaseStep(c) \/ MemberStep(c) \/ UsageStep(c)

Requests == Traffic[mix] \ Event

Next ==
  \/ \E c \in Conn : Step(c)
  \/ \E c \in Conn, r \in Requests : AuthorizeHuman(c, r) \/ AuthorizeToken(c, r) \/ Admit(c, r)
  \/ \E e \in Event : Webhook(e)

Spec == Init /\ [][Next]_vars

-----------------------------------------------------------------------------
(* Properties.                                                              *)

\* The organization never has more members than a plan it once had allows:
\* additions count and add under one lock, so that two of them never both
\* take the last seat. Members who were there before a downgrade stay.
SeatsKept ==
  \E p \in {"free"} \cup {e.plan : e \in billed} : Cardinality(Members) <= Seats[p]

\* Whatever role a request was let in with, and by a token or by a human: a
\* change is made by somebody who has the role for it at that moment.
RoleStillHeld ==
  [][/\ releases' # releases \/ package' # package =>
          \E c \in Conn :
            /\ pc[c] = "act" /\ pc'[c] # "act"
            /\ role[req[c].by] \in
                 IF req[c].kind \in {"create", "submit"} THEN Publishers ELSE Managers
     /\ role' # role =>
          \E c \in Conn :
            /\ pc[c] \in {"act", "insert"} /\ pc'[c] # pc[c]
            /\ role[req[c].by] \in Managers]_vars

\* What was downloaded is what two people approved, although the artifact is
\* stored after the release was submitted, and several submissions of one
\* version are checked before any of them is stored.
ServedIsApproved ==
  \A s \in served :
    /\ status[s[1]] \in {"published", "yanked"}
    /\ content[s[1]] = s[2]

\* A release has its artifact, unless the request that submitted it is just
\* about to store it.
ReleaseBacked ==
  \A v \in Version :
    status[v] # "absent" =>
      \/ artifact[v] = content[v]
      \/ \E c \in Conn : pc[c] = "put" /\ req[c].version = v /\ req[c].content = content[v]

\* The ledger has no event that was not charged, and no month has more events
\* charged than a plan that the organization once had allows.
UsageIsPaid ==
  /\ \A k \in Key : recorded[k] # NoData => reserved[k] # 0
  /\ \A p \in Period :
       \E q \in {"free"} \cup {e.plan : e \in billed} : Cardinality(Charged(p)) <= Quota[q]

=============================================================================
