-------------------------- MODULE MCRegistryServer --------------------------
(* RegistryServer with two requests in flight and three people. A behaviour     *)
(* has one of three kinds of traffic, and starts with what an earlier part of    *)
(* the same server's life leaves behind.                                         *)
EXTENDS RegistryServer, TLC

CONSTANTS c1, c2, u1, u2, u3, i1, i2, x, y

ConnSymmetry == Permutations({c1, c2})

Events ==
  { [id |-> 1, time |-> 1, plan |-> "team"],
    [id |-> 2, time |-> 1, plan |-> "free"] }

SeatsOf == [free |-> 2, team |-> 3]
QuotaOf == [free |-> 0, team |-> 1]

Of(kind, people) == [kind : {kind}, by : people]
On(kind, people) == [kind : {kind}, by : people, version : {1}]

MemberTraffic ==
  [kind : {"add"}, by : {u1, u2}, user : {u2, u3}, role : {"admin"}]
    \cup [kind : {"add"}, by : {u1, u2}, user : {u3}, role : {"owner"}]
    \cup [kind : {"setRole"}, by : {u1}, user : {u2}, role : {"owner"}]
    \cup [kind : {"setRole"}, by : {u1, u2}, user : {u1}, role : {"viewer"}]
    \cup [kind : {"remove"}, by : {u1, u2}, user : {u2, u3}]
    \cup [kind : {"remove"}, by : {u3}, user : {u1, u3}]
    \cup Of("issue", {u2})
    \cup [kind : {"revoke"}, by : {u1}, token : {i1}]
    \cup Event

ReleaseTraffic ==
  [kind : {"create"}, by : {u1}, visibility : {"public", "private"}]
    \cup [kind : {"submit"}, by : {u1, u2}, version : {1}, content : {x, y}]
    \cup On("approve", {u1, u2, u3}) \cup On("reject", {u3}) \cup On("yank", {u1})
    \cup On("download", {u3}) \cup [kind : {"public"}, version : {1}]
    \cup [kind : {"setRole"}, by : {u1}, user : {u2}, role : {"viewer"}]
    \cup [kind : {"remove"}, by : {u1}, user : {u3}]
    \cup [id : {1}, time : {1}, plan : {"team"}]

UsageTraffic ==
  [kind : {"usage"}, by : {u2}, version : {1}, key : {1}, data : Data]
    \cup [kind : {"usage"}, by : {u2}, version : {1}, key : {2}, data : {x}]
    \cup [kind : {"diff"}, version : {1}, to : {2}]
    \cup On("yank", {u1})
    \cup [kind : {"remove"}, by : {u1}, user : {u2}]
    \cup Event

Traffics == [members |-> MemberTraffic, releases |-> ReleaseTraffic, usage |-> UsageTraffic]

\* Three members, one of them with a token.
Staffed ==
  /\ role = [u \in User |-> IF u = u1 THEN "owner" ELSE "admin"]
  /\ token = [i \in Token |-> IF i = i1 THEN [state |-> "live", of |-> u2]
                              ELSE [state |-> "unused", of |-> NoUser]]

Unbilled == billed = {} /\ subscription = NoEvent

Upgraded ==
  /\ billed = {e \in Event : e.plan = "team"}
  /\ subscription \in billed

Idle ==
  /\ reserved = [k \in Key |-> 0] /\ recorded = [k \in Key |-> NoData]
  /\ served = {}
  /\ queued = NoConn /\ behind = [c \in Conn |-> NoConn] /\ seats = [c \in Conn |-> 0]
  /\ pc = [c \in Conn |-> "idle"] /\ req = [c \in Conn |-> NoRequest]
  /\ actor = [c \in Conn |-> "none"]

NoPackage ==
  /\ package = "none" /\ Releases!Init
  /\ content = [v \in Version |-> NoContent] /\ artifact = content

\* Two published releases.
Published ==
  /\ package = "public"
  /\ status = [v \in Version |-> "published"] /\ latest = 2
  /\ submitter = [v \in Version |-> u1] /\ approvals = [v \in Version |-> {u2, u3}]
  /\ content = [v \in Version |-> x] /\ artifact = content

MCInit ==
  \/ mix = "members" /\ Fresh /\ CreateOrganization(u1)
  \/ mix = "releases" /\ Staffed /\ Upgraded /\ Idle /\ NoPackage
  \/ mix = "usage" /\ Staffed /\ Upgraded /\ Idle /\ Published

MCSpec == MCInit /\ [][Next]_vars

=============================================================================
