--------------------------- MODULE RegistryDomain ---------------------------
(***************************************************************************)
(* The in-memory registry of one organization: its members and its package  *)
(* (src/registry-domain.ts), the package's releases as ReleaseGovernance     *)
(* describes them, and the artifacts (src/registry-artifact.ts). The service  *)
(* runs each operation to its end without an await, so an operation is one    *)
(* action here; it looks up the actor's membership itself, whatever its       *)
(* caller checked before. May... is what an operation demands, and the         *)
(* operation of that name is its effect.                                      *)
(*                                                                         *)
(* The audit event that every operation appends in the same step is left out.  *)
(***************************************************************************)
EXTENDS Naturals, FiniteSets

CONSTANTS
  User,
  NoUser,
  Version,   \* the versions of the package, as numbers in semver order
  Content,   \* what an artifact of a release can contain
  NoContent

ASSUME VersionAssumption == Version \subseteq Nat \ {0}

VARIABLES
  role,       \* role[u]: the membership of u, "none" if there is no membership
  package,    \* the visibility of the package, "none" before it is created
  status,     \* status, submitter, approvals, latest: see ReleaseGovernance
  submitter,
  approvals,
  latest,
  content,    \* content[v]: the integrity that release v was submitted with
  artifact    \* artifact[v]: what the artifact store keeps for v

Releases == INSTANCE ReleaseGovernance

releases == <<status, submitter, approvals, latest>>
domain   == <<role, package, releases, content, artifact>>

Role == {"viewer", "publisher", "admin", "owner"}
Publishers == {"publisher", "admin", "owner"}
Managers == {"admin", "owner"}

Members == {u \in User : role[u] # "none"}
Owners == {u \in User : role[u] = "owner"}

DomainTypeOK ==
  /\ role \in [User -> Role \cup {"none"}]
  /\ package \in {"none", "public", "private"}
  /\ Releases!TypeOK
  /\ content \in [Version -> Content \cup {NoContent}]
  /\ artifact \in [Version -> Content \cup {NoContent}]

\* An organization with the user who created it.
CreateOrganization(creator) ==
  /\ role = [u \in User |-> IF u = creator THEN "owner" ELSE "none"]
  /\ package = "none"
  /\ Releases!Init
  /\ content = [v \in Version |-> NoContent]
  /\ artifact = [v \in Version |-> NoContent]

-----------------------------------------------------------------------------
(* Members.                                                                 *)

MayAddMember(a, u, r) ==
  /\ role[a] \in Managers
  /\ r = "owner" => role[a] = "owner"
  /\ role[u] = "none"

AddMember(u, r) == role' = [role EXCEPT ![u] = r]

\* Only owners manage owners, and the last of them stays one.
MayUpdateMemberRole(a, u, r) ==
  /\ role[a] \in Managers
  /\ role[u] \notin {"none", r}
  /\ "owner" \in {role[u], r} => role[a] = "owner"
  /\ role[u] = "owner" => Owners # {u}

UpdateMemberRole(u, r) == role' = [role EXCEPT ![u] = r]

MayRemoveMember(a, u) ==
  /\ role[a] \in Managers
  /\ role[u] # "none"
  /\ role[u] = "owner" => role[a] = "owner" /\ Owners # {u}

RemoveMember(u) == role' = [role EXCEPT ![u] = "none"]

-----------------------------------------------------------------------------
(* The package and its releases.                                            *)

MayCreatePackage(a) == role[a] \in Publishers /\ package = "none"

CreatePackage(visibility) == package' = visibility

MayGetPackage(a) == role[a] # "none" /\ package # "none"

MayGetRelease(a, v) == role[a] # "none" /\ status[v] # "absent"

\* getPublicRelease: what anybody sees of a public package.
MayGetPublicRelease(v) == package = "public" /\ status[v] \in {"published", "yanked"}

MaySubmitRelease(a, v) ==
  role[a] \in Publishers /\ package # "none" /\ status[v] = "absent"

SubmitRelease(a, v, x) ==
  /\ Releases!Submit(v, a)
  /\ content' = [content EXCEPT ![v] = x]

\* Mutation: the role is left to the authorization of the request.
MayApproveReleaseOnceAuthorized(a, v) ==
  status[v] = "pending" /\ a # submitter[v] /\ a \notin approvals[v]

MayApproveRelease(a, v) ==
  /\ role[a] \in Managers
  /\ status[v] = "pending"
  /\ a # submitter[v] /\ a \notin approvals[v]

ApproveRelease(a, v) == Releases!Approve(v, a)

MayRejectRelease(a, v) ==
  role[a] \in Managers /\ status[v] = "pending" /\ a # submitter[v]

RejectRelease(a, v) == Releases!Reject(v, a)

MayYankRelease(a, v) == role[a] \in Managers /\ status[v] = "published"

YankRelease(v) == Releases!Yank(v)

-----------------------------------------------------------------------------
(* The artifact store.                                                      *)

\* assertCompatible: an artifact is never replaced by another one.
Compatible(v, x) == artifact[v] \in {x, NoContent}

PutArtifact(v, x) ==
  artifact' = IF Compatible(v, x) THEN [artifact EXCEPT ![v] = x] ELSE artifact

=============================================================================
