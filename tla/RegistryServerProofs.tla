------------------------ MODULE RegistryServerProofs ------------------------
(***************************************************************************)
(* Proofs about RegistryServer for any requests that change places at their   *)
(* awaits: a release has its artifact, what is served is what two people       *)
(* approved, usage is paid, the line of the additions keeps the seats, and     *)
(* whoever changes something has the role for it.                              *)
(***************************************************************************)
EXTENDS RegistryServer, Sequences, FiniteSetTheorems, WellFoundedInduction, TLAPS

Places ==
  {"idle", "package", "entitled", "act", "put", "enqueue", "list", "seats", "insert", "release",
   "fetch", "charge", "record", "revoke"}

\* What is known of a request is known of the program's places.
Typed ==
  /\ mix \in DOMAIN Traffic
  /\ pc \in [Conn -> Places]
  /\ req \in [Conn -> Requests \cup {NoRequest}]
  /\ status \in [Version -> Releases!State]
  /\ content \in [Version -> Content \cup {NoContent}]
  /\ artifact \in [Version -> Content \cup {NoContent}]

WasPublished(v) == v \in Version /\ status[v] \in {"published", "yanked"}

\* The artifact store has nothing but what was submitted.
Stored ==
  \A v \in Version :
    artifact[v] # NoContent => status[v] # "absent" /\ artifact[v] = content[v]

\* A request that is about to store an artifact has submitted its release.
Submitted(c) ==
  pc[c] = "put" =>
    /\ req[c].version \in Version /\ req[c].content \in Content
    /\ status[req[c].version] # "absent" /\ content[req[c].version] = req[c].content

\* A request that is about to serve releases has found them published.
Found(c) ==
  pc[c] = "fetch" =>
    /\ WasPublished(req[c].version)
    /\ req[c].kind = "diff" => WasPublished(req[c].to)

ReleaseInv ==
  /\ served \subseteq Version \X Content
  /\ Stored /\ ReleaseBacked /\ ServedIsApproved
  /\ \A c \in Conn : Submitted(c) /\ Found(c)

\* Nothing but the place of c, and its request, is another one.
OnlyMoves(c) ==
  \A d \in Conn \ {c} : pc'[d] = pc[d] /\ req'[d] = req[d]

-----------------------------------------------------------------------------
(* Types and places.                                                        *)

LEMMA RequestShape ==
  ASSUME Typed, NEW r \in Requests
  PROVE  /\ r.kind \in {"submit", "approve", "reject", "yank", "download", "public", "diff", "usage"} =>
              r.version \in Version
         /\ r.kind = "submit" => r.content \in Content
         /\ r.kind = "diff" => r.to \in Version
         /\ r.kind = "usage" => r.key \in Key /\ r.data \in Data
         /\ r.kind \in {"add", "setRole", "remove"} => r.user \in User
         /\ r.kind \in {"add", "setRole"} => r.role \in Role
         /\ r.kind \notin {"public", "diff"} => r.by \in User
         /\ r.kind = "create" => r.visibility \in {"public", "private"}
         /\ r.kind = "revoke" => r.token \in Token
BY TrafficAssumption DEF Typed, Requests

\* A request that is under way is one that was sent.
LEMMA Sent ==
  ASSUME Typed, NEW c \in Conn, req[c].kind # "none"
  PROVE  req[c] \in Requests
BY DEF Typed, NoRequest

LEMMA GotoMoves ==
  ASSUME Typed, NEW c \in Conn, NEW s \in Places, Goto(c, s)
  PROVE  /\ pc' \in [Conn -> Places] /\ pc'[c] = s /\ req' = req
         /\ OnlyMoves(c)
BY DEF Typed, Goto, OnlyMoves

LEMMA EndMoves ==
  ASSUME Typed, NEW c \in Conn, End(c)
  PROVE  /\ pc' \in [Conn -> Places] /\ pc'[c] = "idle"
         /\ req' \in [Conn -> Requests \cup {NoRequest}]
         /\ OnlyMoves(c)
BY DEF Typed, End, OnlyMoves, Places

LEMMA StartMoves ==
  ASSUME Typed, NEW c \in Conn, NEW r \in Requests, NEW as, Start(c, r, as)
  PROVE  /\ pc' \in [Conn -> Places] /\ pc[c] = "idle" /\ pc'[c] = FirstStep(r)
         /\ pc'[c] \in {"package", "entitled", "enqueue", "release", "act"}
         /\ req' \in [Conn -> Requests \cup {NoRequest}] /\ req'[c] = r
         /\ OnlyMoves(c)
<1>1. FirstStep(r) \in {"package", "entitled", "enqueue", "release", "act"}
  <2>1. CASE r.kind \in {"submit", "approve"}
    BY <2>1 DEF FirstStep
  <2>2. CASE r.kind = "create" /\ r.visibility = "private"
    BY <2>2 DEF FirstStep
  <2>3. CASE r.kind = "add"
    BY <2>3 DEF FirstStep
  <2>4. CASE r.kind \in {"download", "public", "diff", "usage"}
    BY <2>4 DEF FirstStep
  <2>5. CASE /\ r.kind \notin {"submit", "approve", "add", "download", "public", "diff", "usage"}
             /\ ~(r.kind = "create" /\ r.visibility = "private")
    BY <2>5 DEF FirstStep
  <2>. QED  BY <2>1, <2>2, <2>3, <2>4, <2>5
<1>. QED  BY <1>1 DEF Typed, Start, OnlyMoves, Places

-----------------------------------------------------------------------------
(* Releases and their artifacts.                                            *)

\* A step that changes no release keeps the invariant, unless its request stores
\* an artifact or goes on to serve one.
LEMMA Quiet ==
  ASSUME Typed, ReleaseInv, NEW c \in Conn, OnlyMoves(c),
         pc[c] # "put", pc'[c] \notin {"put", "fetch"},
         UNCHANGED <<status, content, artifact, served>>
  PROVE  ReleaseInv'
<1>1. Stored' /\ ServedIsApproved'
  BY DEF ReleaseInv, Stored, ServedIsApproved
<1>2. \A d \in Conn : d # c => (pc'[d] = pc[d] /\ req'[d] = req[d])
  BY DEF OnlyMoves
<1>3. ReleaseBacked'
  BY <1>2 DEF ReleaseInv, ReleaseBacked
<1>4. \A d \in Conn : Submitted(d)' /\ Found(d)'
  BY <1>2 DEF ReleaseInv, Submitted, Found, WasPublished
<1>. QED  BY <1>1, <1>3, <1>4 DEF ReleaseInv

\* A release that there is goes to another state, and back from none.
LEMMA Decided ==
  ASSUME Typed, ReleaseInv, NEW c \in Conn, OnlyMoves(c),
         pc[c] # "put", pc'[c] \notin {"put", "fetch"},
         NEW v \in Version, NEW s \in {"pending", "published", "rejected", "yanked"},
         status[v] \in {"pending", "published"},
         status[v] = "published" => s = "yanked",
         status' = [status EXCEPT ![v] = s],
         UNCHANGED <<content, artifact, served>>
  PROVE  ReleaseInv'
<1>1. \A w \in Version : /\ status[w] # "absent" <=> status'[w] # "absent"
                         /\ WasPublished(w) => WasPublished(w)'
  BY DEF Typed, WasPublished
<1>2. \A d \in Conn : d # c => (pc'[d] = pc[d] /\ req'[d] = req[d])
  BY DEF OnlyMoves
<1>3. Stored'
  BY <1>1 DEF ReleaseInv, Stored
<1>4. ServedIsApproved'
  BY <1>1 DEF ReleaseInv, ServedIsApproved, WasPublished
<1>5. ReleaseBacked'
  BY <1>1, <1>2 DEF ReleaseInv, ReleaseBacked
<1>6. \A d \in Conn : Submitted(d)' /\ Found(d)'
  BY <1>1, <1>2 DEF ReleaseInv, Submitted, Found, WasPublished
<1>. QED  BY <1>3, <1>4, <1>5, <1>6 DEF ReleaseInv

\* A request has found a release, or two, that anybody may have.
LEMMA Finds ==
  ASSUME Typed, ReleaseInv, NEW c \in Conn, OnlyMoves(c),
         pc[c] # "put", pc'[c] = "fetch", req' = req,
         WasPublished(req[c].version), req[c].kind = "diff" => WasPublished(req[c].to),
         UNCHANGED <<status, content, artifact, served>>
  PROVE  ReleaseInv'
<1>1. Stored' /\ ServedIsApproved' /\ served' \subseteq Version \X Content
  BY DEF ReleaseInv, Stored, ServedIsApproved
<1>2. \A d \in Conn : d # c => (pc'[d] = pc[d] /\ req'[d] = req[d])
  BY DEF OnlyMoves
<1>3. ReleaseBacked'
  BY <1>2 DEF ReleaseInv, ReleaseBacked
<1>4. \A d \in Conn : Submitted(d)' /\ Found(d)'
  BY <1>2 DEF ReleaseInv, Submitted, Found, WasPublished
<1>. QED  BY <1>1, <1>3, <1>4 DEF ReleaseInv

\* What is served is of releases that were found.
LEMMA Serves ==
  ASSUME Typed, ReleaseInv, NEW c \in Conn, OnlyMoves(c),
         pc[c] = "fetch", pc'[c] = "idle",
         NEW V \in SUBSET Version,
         \A v \in V : WasPublished(v) /\ artifact[v] # NoContent,
         served' = served \cup {<<v, artifact[v]>> : v \in V},
         UNCHANGED <<status, content, artifact>>
  PROVE  ReleaseInv'
<1>1. Stored'
  BY DEF ReleaseInv, Stored
<1>2. \A v \in V : artifact[v] \in Content /\ artifact[v] = content[v]
  BY DEF Typed, ReleaseInv, Stored
<1>3. served' \subseteq Version \X Content
  BY <1>2 DEF ReleaseInv
<1>4. ServedIsApproved'
  BY <1>2 DEF ReleaseInv, ServedIsApproved, WasPublished
<1>5. \A d \in Conn : d # c => (pc'[d] = pc[d] /\ req'[d] = req[d])
  BY DEF OnlyMoves
<1>6. ReleaseBacked'
  BY <1>5 DEF ReleaseInv, ReleaseBacked
<1>7. \A d \in Conn : Submitted(d)' /\ Found(d)'
  BY <1>5 DEF ReleaseInv, Submitted, Found, WasPublished
<1>. QED  BY <1>1, <1>3, <1>4, <1>6, <1>7 DEF ReleaseInv

\* A release is submitted: nothing is in the artifact store for it.
LEMMA Submits ==
  ASSUME Typed, ReleaseInv, NEW c \in Conn, OnlyMoves(c),
         pc[c] = "act", pc'[c] = "put", req' = req,
         req[c].version \in Version, req[c].content \in Content,
         status[req[c].version] = "absent",
         status' = [status EXCEPT ![req[c].version] = "pending"],
         content' = [content EXCEPT ![req[c].version] = req[c].content],
         UNCHANGED <<artifact, served>>
  PROVE  ReleaseInv'
<1>. DEFINE v == req[c].version
<1>1. artifact[v] = NoContent
  BY DEF ReleaseInv, Stored
<1>2. \A w \in Version \ {v} : status'[w] = status[w] /\ content'[w] = content[w]
  BY DEF Typed
<1>3. status'[v] = "pending" /\ content'[v] = req[c].content
  BY DEF Typed
<1>4. \A w \in Version : WasPublished(w) => w # v /\ WasPublished(w)'
  BY <1>2 DEF WasPublished
<1>5. \A d \in Conn : d # c => (pc'[d] = pc[d] /\ req'[d] = req[d])
  BY DEF OnlyMoves
<1>6. Stored'
  BY <1>1, <1>2, <1>3 DEF ReleaseInv, Stored
<1>7. ServedIsApproved' /\ served' \subseteq Version \X Content
  <2>1. \A t \in served : t[1] \in Version /\ WasPublished(t[1]) /\ content[t[1]] = t[2]
    BY DEF ReleaseInv, ServedIsApproved, WasPublished
  <2>2. \A t \in served : WasPublished(t[1])' /\ content'[t[1]] = t[2]
    BY <2>1, <1>2, <1>4
  <2>. QED  BY <2>2 DEF ReleaseInv, ServedIsApproved, WasPublished
<1>8. ReleaseBacked'
  <2>1. pc'[c] = "put" /\ req'[c].version = v /\ req'[c].content = content'[v]
    BY <1>3
  <2>2. \A w \in Version \ {v} : status'[w] # "absent" =>
          \/ artifact'[w] = content'[w]
          \/ \E d \in Conn : pc'[d] = "put" /\ req'[d].version = w /\ req'[d].content = content'[w]
    BY <1>2, <1>5 DEF ReleaseInv, ReleaseBacked
  <2>. QED  BY <2>1, <2>2 DEF ReleaseBacked
<1>9. \A d \in Conn : Submitted(d)' /\ Found(d)'
  <2>. SUFFICES ASSUME NEW d \in Conn PROVE Submitted(d)' /\ Found(d)'
    OBVIOUS
  <2>1. CASE d = c
    BY <2>1, <1>3 DEF Submitted, Found
  <2>2. CASE d # c
    <3>1. Submitted(d) /\ Found(d)
      BY DEF ReleaseInv
    <3>2. Submitted(d)'
      BY <2>2, <3>1, <1>2, <1>5 DEF Submitted
    <3>3. Found(d)'
      BY <2>2, <3>1, <1>4, <1>5 DEF Found, WasPublished
    <3>. QED  BY <3>2, <3>3
  <2>. QED  BY <2>1, <2>2
<1>. QED  BY <1>6, <1>7, <1>8, <1>9 DEF ReleaseInv

\* The artifact of the release is stored: nothing else has been, for it.
LEMMA Stores ==
  ASSUME Typed, ReleaseInv, NEW c \in Conn, OnlyMoves(c),
         pc[c] = "put", pc'[c] = "idle",
         PutArtifact(req[c].version, req[c].content),
         UNCHANGED <<status, content, served>>
  PROVE  ReleaseInv' /\ artifact' \in [Version -> Content \cup {NoContent}]
<1>. DEFINE v == req[c].version
<1>1. /\ v \in Version /\ req[c].content \in Content
      /\ status[v] # "absent" /\ content[v] = req[c].content
  BY DEF ReleaseInv, Submitted
<1>2. artifact' = [artifact EXCEPT ![v] = content[v]]
  BY <1>1 DEF Typed, ReleaseInv, Stored, PutArtifact, Compatible
<1>3. artifact' \in [Version -> Content \cup {NoContent}]
  BY <1>1, <1>2 DEF Typed
<1>4. Stored'
  BY <1>1, <1>2 DEF Typed, ReleaseInv, Stored
<1>5. ServedIsApproved' /\ served' \subseteq Version \X Content
  BY DEF ReleaseInv, ServedIsApproved
<1>6. \A d \in Conn : d # c => (pc'[d] = pc[d] /\ req'[d] = req[d])
  BY DEF OnlyMoves
<1>7. ReleaseBacked'
  <2>1. artifact'[v] = content'[v]
    BY <1>1, <1>2 DEF Typed
  <2>2. \A w \in Version \ {v} : artifact'[w] = artifact[w]
    BY <1>2 DEF Typed
  <2>. QED  BY <2>1, <2>2, <1>6 DEF ReleaseInv, ReleaseBacked
<1>8. \A d \in Conn : Submitted(d)' /\ Found(d)'
  BY <1>6 DEF ReleaseInv, Submitted, Found, WasPublished
<1>. QED  BY <1>3, <1>4, <1>5, <1>7, <1>8 DEF ReleaseInv

-----------------------------------------------------------------------------
(* One step of the server.                                                  *)

Inv == Typed /\ ReleaseInv

\* A request goes on, or ends, and leaves the releases as they are.
LEMMA QuietStep ==
  ASSUME Inv, NEW c \in Conn, pc[c] # "put",
         (\E s \in Places \ {"put", "fetch"} : Goto(c, s)) \/ End(c),
         UNCHANGED <<status, content, artifact, served, mix>>
  PROVE  Inv'
<1>1. /\ pc' \in [Conn -> Places] /\ pc'[c] \notin {"put", "fetch"}
      /\ req' \in [Conn -> Requests \cup {NoRequest}]
      /\ OnlyMoves(c)
  BY GotoMoves, EndMoves DEF Inv, Typed
<1>2. ReleaseInv'
  BY <1>1, Quiet DEF Inv
<1>. QED  BY <1>1, <1>2 DEF Inv, Typed, Requests

LEMMA StartStep ==
  ASSUME Inv, NEW c \in Conn, NEW r \in Requests,
         AuthorizeHuman(c, r) \/ AuthorizeToken(c, r) \/ Admit(c, r)
  PROVE  Inv'
<1>1. PICK as : Start(c, r, as)
  BY DEF AuthorizeHuman, AuthorizeToken, Admit
<1>2. /\ pc' \in [Conn -> Places] /\ pc[c] = "idle" /\ pc'[c] \notin {"put", "fetch"}
      /\ req' \in [Conn -> Requests \cup {NoRequest}]
      /\ OnlyMoves(c)
  BY <1>1, StartMoves DEF Inv
<1>3. UNCHANGED <<status, content, artifact, served, mix>>
  BY <1>1 DEF Start, domain, releases
<1>4. ReleaseInv'
  BY <1>2, <1>3, Quiet DEF Inv
<1>. QED  BY <1>2, <1>3, <1>4 DEF Inv, Typed, Requests

\* The steps of a route that only look.
LEMMA LookStep ==
  ASSUME Inv, NEW c \in Conn,
         GetPackage(c) \/ CheckEntitled(c) \/ CreatePackageRoute(c)
  PROVE  Inv'
<1>1. CASE GetPackage(c)
  BY <1>1, QuietStep DEF GetPackage, Places, domain, releases
<1>2. CASE CheckEntitled(c)
  BY <1>2, QuietStep DEF CheckEntitled, Places, domain, releases
<1>3. CASE CreatePackageRoute(c)
  BY <1>3, QuietStep DEF CreatePackageRoute, At, releases
<1>. QED  BY <1>1, <1>2, <1>3

LEMMA MemberKeeps ==
  ASSUME Inv, NEW c \in Conn, MemberStep(c)
  PROVE  Inv'
<1>1. CASE Enqueue(c)
  BY <1>1, QuietStep DEF Enqueue, Places, domain, releases
<1>2. CASE ListMembers(c)
  BY <1>2, QuietStep DEF ListMembers, Places, domain, releases
<1>3. CASE AssertSeats(c)
  BY <1>3, QuietStep DEF AssertSeats, Places, domain, releases
<1>4. CASE AddMemberRoute(c)
  BY <1>4, QuietStep DEF AddMemberRoute, releases
<1>5. CASE UpdateMemberRoleRoute(c)
  BY <1>5, QuietStep DEF UpdateMemberRoleRoute, At, Places, releases
<1>6. CASE RemoveMemberRoute(c)
  BY <1>6, QuietStep DEF RemoveMemberRoute, At, Places, releases
<1>7. CASE RevokeForSubject(c)
  BY <1>7, QuietStep DEF RevokeForSubject, domain, releases
<1>8. CASE IssueRoute(c)
  BY <1>8, QuietStep DEF IssueRoute, At, domain, releases
<1>9. CASE RevokeRoute(c)
  BY <1>9, QuietStep DEF RevokeRoute, At, domain, releases
<1>. QED  BY <1>1, <1>2, <1>3, <1>4, <1>5, <1>6, <1>7, <1>8, <1>9 DEF MemberStep

LEMMA UsageKeeps ==
  ASSUME Inv, NEW c \in Conn, UsageStep(c)
  PROVE  Inv'
<1>1. CASE GetUsedRelease(c)
  BY <1>1, QuietStep DEF GetUsedRelease, At, Places, domain, releases
<1>2. ASSUME NEW p \in Period, Consume(c, p)
      PROVE  Inv'
  BY <1>2, QuietStep DEF Consume, Places, domain, releases
<1>3. CASE Record(c)
  BY <1>3, QuietStep DEF Record, domain, releases
<1>. QED  BY <1>1, <1>2, <1>3 DEF UsageStep

\* A decision on a release ends its request.
LEMMA DecisionStep ==
  ASSUME Inv, NEW c \in Conn, ApproveRoute(c) \/ RejectRoute(c) \/ YankRoute(c)
  PROVE  Inv'
<1>. DEFINE v == req[c].version
<1>1. /\ pc[c] = "act" /\ End(c) /\ req[c].kind \in {"approve", "reject", "yank"}
      /\ UNCHANGED <<content, artifact, served, mix>>
  BY DEF ApproveRoute, RejectRoute, YankRoute, At
<1>2. v \in Version
  BY <1>1, Sent, RequestShape DEF Inv
<1>3. CASE UNCHANGED status
  BY <1>1, <1>3, QuietStep
<1>4. CASE \E s \in {"pending", "published", "rejected", "yanked"} :
             /\ status[v] \in {"pending", "published"}
             /\ status[v] = "published" => s = "yanked"
             /\ status' = [status EXCEPT ![v] = s]
  <2>1. ReleaseInv'
    BY <1>1, <1>2, <1>4, EndMoves, Decided DEF Inv
  <2>2. status' \in [Version -> Releases!State]
    BY <1>2, <1>4 DEF Inv, Typed, Releases!State
  <2>. QED  BY <1>1, <2>1, <2>2, EndMoves DEF Inv, Typed, Requests
<1>5. CASE ApproveRoute(c)
  BY <1>3, <1>4, <1>5 DEF ApproveRoute, ApproveRelease, Releases!Approve, Releases!Enter, releases
<1>6. CASE RejectRoute(c)
  BY <1>3, <1>4, <1>6 DEF RejectRoute, RejectRelease, Releases!Reject, Releases!Enter, releases
<1>7. CASE YankRoute(c)
  BY <1>3, <1>4, <1>7 DEF YankRoute, YankRelease, Releases!Yank, Releases!Enter, releases
<1>. QED  BY <1>5, <1>6, <1>7

LEMMA SubmitStep ==
  ASSUME Inv, NEW c \in Conn, SubmitRoute(c)
  PROVE  Inv'
<1>. DEFINE r == req[c]
<1>1. /\ pc[c] = "act" /\ r.kind = "submit"
      /\ UNCHANGED <<artifact, served, mix>>
  BY DEF SubmitRoute, At
<1>2. r.version \in Version /\ r.content \in Content
  BY <1>1, Sent, RequestShape DEF Inv
<1>3. CASE End(c) /\ UNCHANGED <<releases, content>>
  BY <1>1, <1>3, QuietStep DEF releases
<1>4. CASE SubmitRelease(r.by, r.version, r.content) /\ Goto(c, "put")
  <2>1. /\ status[r.version] = "absent"
        /\ status' = [status EXCEPT ![r.version] = "pending"]
        /\ content' = [content EXCEPT ![r.version] = r.content]
    BY <1>4 DEF SubmitRelease, Releases!Submit, Releases!Enter
  <2>2. pc' \in [Conn -> Places] /\ pc'[c] = "put" /\ req' = req /\ OnlyMoves(c)
    BY <1>4, GotoMoves DEF Inv, Places
  <2>3. ReleaseInv'
    BY <1>1, <1>2, <2>1, <2>2, Submits DEF Inv
  <2>4. /\ status' \in [Version -> Releases!State]
        /\ content' \in [Version -> Content \cup {NoContent}]
    BY <1>2, <2>1 DEF Inv, Typed, Releases!State
  <2>. QED  BY <1>1, <2>2, <2>3, <2>4 DEF Inv, Typed, Requests
<1>. QED  BY <1>3, <1>4 DEF SubmitRoute

LEMMA StoreStep ==
  ASSUME Inv, NEW c \in Conn, StoreArtifact(c)
  PROVE  Inv'
<1>1. UNCHANGED <<status, content, served, mix>>
  BY DEF StoreArtifact, releases
<1>2. ReleaseInv' /\ artifact' \in [Version -> Content \cup {NoContent}]
  BY <1>1, EndMoves, Stores DEF Inv, StoreArtifact
<1>. QED  BY <1>1, <1>2, EndMoves DEF Inv, Typed, Requests, StoreArtifact

\* A download or a comparison looks its releases up.
LEMMA FindStep ==
  ASSUME Inv, NEW c \in Conn,
         GetRelease(c) \/ GetPublicRelease(c) \/ GetComparedReleases(c)
  PROVE  Inv'
<1>. DEFINE r == req[c]
<1>1. /\ pc[c] = "release" /\ r.kind \in {"download", "public", "diff"}
      /\ UNCHANGED <<status, content, artifact, served, mix>>
  BY DEF GetRelease, GetPublicRelease, GetComparedReleases, At, domain, releases
<1>2. r.version \in Version /\ (r.kind = "diff" => r.to \in Version)
  BY <1>1, Sent, RequestShape DEF Inv
<1>3. CASE End(c)
  BY <1>1, <1>3, QuietStep
<1>4. CASE Goto(c, "fetch") /\ WasPublished(r.version) /\ (r.kind = "diff" => WasPublished(r.to))
  <2>1. pc' \in [Conn -> Places] /\ pc'[c] = "fetch" /\ req' = req /\ OnlyMoves(c)
    BY <1>4, GotoMoves DEF Inv, Places
  <2>2. ReleaseInv'
    BY <1>1, <1>4, <2>1, Finds DEF Inv
  <2>. QED  BY <1>1, <2>1, <2>2 DEF Inv, Typed, Requests
<1>5. CASE GetRelease(c)
  BY <1>2, <1>3, <1>4, <1>5 DEF GetRelease, At, WasPublished
<1>6. CASE GetPublicRelease(c)
  BY <1>2, <1>3, <1>4, <1>6 DEF GetPublicRelease, MayGetPublicRelease, At, WasPublished
<1>7. CASE GetComparedReleases(c)
  BY <1>1, <1>2, <1>3, <1>4, <1>7 DEF GetComparedReleases, MayGetPublicRelease, At, WasPublished
<1>. QED  BY <1>5, <1>6, <1>7

LEMMA ServeStep ==
  ASSUME Inv, NEW c \in Conn, Fetch(c) \/ Compare(c)
  PROVE  Inv'
<1>. DEFINE r == req[c]
<1>1. /\ pc[c] = "fetch" /\ r.kind \in {"download", "public", "diff"} /\ End(c)
      /\ UNCHANGED <<status, content, artifact, mix>>
  BY DEF Fetch, Compare, At, domain, releases
<1>2. WasPublished(r.version) /\ (r.kind = "diff" => WasPublished(r.to))
  BY <1>1 DEF Inv, ReleaseInv, Found
<1>3. PICK V \in SUBSET Version :
         /\ \A v \in V : WasPublished(v) /\ artifact[v] # NoContent
         /\ served' = served \cup {<<v, artifact[v]>> : v \in V}
  <2>1. CASE served' = served
    <3>1. served' = served \cup {<<v, artifact[v]>> : v \in {}}
      BY <2>1
    <3>. QED  BY <3>1
  <2>2. CASE Fetch(c) /\ served' # served
    <3>1. /\ artifact[r.version] # NoContent
          /\ served' = served \cup {<<v, artifact[v]>> : v \in {r.version}}
      BY <2>2 DEF Fetch
    <3>. QED  BY <1>2, <3>1 DEF WasPublished
  <2>3. CASE Compare(c) /\ served' # served
    <3>1. /\ r.kind = "diff"
          /\ \A v \in {r.version, r.to} : artifact[v] # NoContent
          /\ served' = served \cup {<<v, artifact[v]>> : v \in {r.version, r.to}}
      BY <2>3 DEF Compare, At
    <3>. QED  BY <1>2, <3>1 DEF WasPublished
  <2>. QED  BY <2>1, <2>2, <2>3
<1>4. ReleaseInv'
  BY <1>1, <1>3, EndMoves, Serves DEF Inv
<1>. QED  BY <1>1, <1>4, EndMoves DEF Inv, Typed, Requests

LEMMA InvNext ==
  ASSUME Inv, [Next]_vars
  PROVE  Inv'
<1>1. ASSUME NEW c \in Conn, Step(c)
      PROVE  Inv'
  BY <1>1, LookStep, SubmitStep, StoreStep, DecisionStep, FindStep, ServeStep, MemberKeeps,
     UsageKeeps DEF Step, ReleaseStep
<1>2. ASSUME NEW c \in Conn, NEW r \in Requests,
             AuthorizeHuman(c, r) \/ AuthorizeToken(c, r) \/ Admit(c, r)
      PROVE  Inv'
  BY <1>2, StartStep
<1>3. CASE UNCHANGED <<status, content, artifact, served, pc, req, mix>>
  BY <1>3 DEF Inv, Typed, ReleaseInv, Stored, ReleaseBacked, ServedIsApproved, Submitted, Found,
              WasPublished, Requests
<1>4. ASSUME NEW e \in Event, Webhook(e)
      PROVE  Inv'
  BY <1>3, <1>4 DEF Webhook, domain, releases
<1>5. CASE UNCHANGED vars
  BY <1>3, <1>5 DEF vars, domain, releases
<1>. QED  BY <1>1, <1>2, <1>4, <1>5 DEF Next

LEMMA InvInit == Init => Inv
<1>. SUFFICES ASSUME Init PROVE Inv
  OBVIOUS
<1>1. Typed
  BY DEF Init, Fresh, CreateOrganization, Releases!Init, Releases!State, Typed, Places
<1>2. /\ pc = [c \in Conn |-> "idle"] /\ served = {}
      /\ status = [v \in Version |-> "absent"] /\ artifact = [v \in Version |-> NoContent]
  BY DEF Init, Fresh, CreateOrganization, Releases!Init
<1>3. ReleaseInv
  BY <1>2 DEF ReleaseInv, Stored, ReleaseBacked, ServedIsApproved, Submitted, Found
<1>. QED  BY <1>1, <1>3 DEF Inv

LEMMA InvHolds == Spec => []Inv
BY InvInit, InvNext, PTL DEF Spec

\* A release always has its artifact, or a request that is about to store it,
\* for any requests that change places between the two.
THEOREM ReleasesAreBacked == Spec => []ReleaseBacked
BY InvHolds, PTL DEF Inv, ReleaseInv

\* Downloads and comparisons only ever tell artifacts of releases that were
\* published, and the ones that they were approved with.
THEOREM DownloadsAreApproved == Spec => []ServedIsApproved
BY InvHolds, PTL DEF Inv, ReleaseInv

-----------------------------------------------------------------------------
(* Usage: what is recorded was charged, and no month beyond a plan.         *)

\* c goes on at one of the places S, or its request ends.
Going(c, S) == (\E s \in S : Goto(c, s)) \/ End(c)

LEMMA GoingMoves ==
  ASSUME Typed, NEW c \in Conn, NEW S \in SUBSET Places, Going(c, S)
  PROVE  /\ pc' \in [Conn -> Places] /\ OnlyMoves(c)
         /\ \/ pc'[c] \in S /\ req' = req
            \/ pc'[c] = "idle"
<1>1. CASE \E s \in S : Goto(c, s)
  BY <1>1, GotoMoves
<1>2. CASE End(c)
  BY <1>2, EndMoves
<1>. QED  BY <1>1, <1>2 DEF Going

\* What the steps of each group leave alone, and where they go.
LEMMA ReleaseSteps ==
  ASSUME NEW c \in Conn, GetPackage(c) \/ CheckEntitled(c) \/ ReleaseStep(c)
  PROVE  /\ pc[c] \in {"package", "entitled", "act", "put", "release", "fetch"}
         /\ Going(c, {"entitled", "act", "put", "fetch"})
         /\ UNCHANGED <<role, billing, usage, waiting>>
<1>1. CASE GetPackage(c) \/ CheckEntitled(c)
  BY <1>1 DEF GetPackage, CheckEntitled, Going, domain
<1>2. CASE CreatePackageRoute(c) \/ SubmitRoute(c) \/ StoreArtifact(c)
  BY <1>2 DEF CreatePackageRoute, SubmitRoute, StoreArtifact, At, Going
<1>3. CASE ApproveRoute(c) \/ RejectRoute(c) \/ YankRoute(c)
  BY <1>3 DEF ApproveRoute, RejectRoute, YankRoute, At, Going
<1>4. CASE GetRelease(c) \/ GetPublicRelease(c) \/ GetComparedReleases(c)
  BY <1>4 DEF GetRelease, GetPublicRelease, GetComparedReleases, At, Going, domain
<1>5. CASE Fetch(c) \/ Compare(c)
  BY <1>5 DEF Fetch, Compare, At, Going, domain
<1>. QED  BY <1>1, <1>2, <1>3, <1>4, <1>5 DEF ReleaseStep

LineStep(c) == Enqueue(c) \/ ListMembers(c) \/ AssertSeats(c) \/ AddMemberRoute(c)

LEMMA LineSteps ==
  ASSUME NEW c \in Conn, LineStep(c)
  PROVE  /\ pc[c] \in {"enqueue", "list", "seats", "insert"}
         /\ Going(c, {"list", "seats", "insert"})
         /\ UNCHANGED <<billing, usage>>
<1>1. CASE Enqueue(c)
  BY <1>1 DEF Enqueue, Going
<1>2. CASE ListMembers(c)
  BY <1>2 DEF ListMembers, Going
<1>3. CASE AssertSeats(c)
  BY <1>3 DEF AssertSeats, Going
<1>4. CASE AddMemberRoute(c)
  BY <1>4 DEF AddMemberRoute, Going
<1>. QED  BY <1>1, <1>2, <1>3, <1>4 DEF LineStep

LEMMA RoleSteps ==
  ASSUME NEW c \in Conn, MemberStep(c), ~LineStep(c)
  PROVE  /\ pc[c] \in {"act", "revoke"} /\ Going(c, {"revoke"})
         /\ UNCHANGED <<billing, usage, waiting>>
<1>1. CASE UpdateMemberRoleRoute(c)
  BY <1>1 DEF UpdateMemberRoleRoute, At, Going
<1>2. CASE RemoveMemberRoute(c)
  BY <1>2 DEF RemoveMemberRoute, At, Going
<1>3. CASE RevokeForSubject(c) \/ IssueRoute(c) \/ RevokeRoute(c)
  BY <1>3 DEF RevokeForSubject, IssueRoute, RevokeRoute, At, Going
<1>. QED  BY <1>1, <1>2, <1>3 DEF MemberStep, LineStep

LEMMA UsageSteps ==
  ASSUME NEW c \in Conn, UsageStep(c)
  PROVE  /\ pc[c] \in {"release", "charge", "record"} /\ Going(c, {"charge", "record"})
         /\ UNCHANGED <<role, billing, waiting>>
<1>1. CASE GetUsedRelease(c)
  BY <1>1 DEF GetUsedRelease, At, Going, domain
<1>2. ASSUME NEW p \in Period, Consume(c, p)
      PROVE  /\ pc[c] = "charge" /\ Going(c, {"charge", "record"})
             /\ UNCHANGED <<role, billing, waiting>>
  BY <1>2 DEF Consume, Going, domain
<1>3. CASE Record(c)
  BY <1>3 DEF Record, Going, domain
<1>. QED  BY <1>1, <1>2, <1>3 DEF UsageStep

\* The plan is one that the organization was billed for.
Billed ==
  /\ billed \subseteq Event
  /\ subscription \in billed \cup {NoEvent}

HadPlans == {"free"} \cup {e.plan : e \in billed}

LEMMA PlanWasHad ==
  ASSUME Billed
  PROVE  plan \in HadPlans /\ HadPlans \subseteq Plans
BY DEF Billed, plan, HadPlans, Plans

\* An event that is about to be recorded was charged.
Charging(c) ==
  /\ pc[c] \in {"charge", "record"} => req[c].kind = "usage"
  /\ pc[c] = "record" => reserved[req[c].key] # 0

UsageInv ==
  /\ Billed
  /\ reserved \in [Key -> Period \cup {0}]
  /\ recorded \in [Key -> Data \cup {NoData}]
  /\ UsageIsPaid
  /\ \A c \in Conn : Charging(c)

LEMMA UsageQuiet ==
  ASSUME UsageInv, NEW c \in Conn, OnlyMoves(c), pc'[c] \notin {"charge", "record"},
         UNCHANGED <<billing, usage>>
  PROVE  UsageInv'
<1>1. \A d \in Conn : d # c => (pc'[d] = pc[d] /\ req'[d] = req[d])
  BY DEF OnlyMoves
<1>2. \A d \in Conn : Charging(d)'
  BY <1>1 DEF UsageInv, Charging, usage
<1>. QED  BY <1>2 DEF UsageInv, UsageIsPaid, Billed, Charged, billing, usage

\* A new event is charged to the month p: the month has one more event then.
LEMMA OneMore ==
  ASSUME UsageInv, NEW k \in Key, NEW p \in Period, reserved[k] = 0,
         Cardinality(Charged(p)) + 1 <= Quota[plan],
         reserved' = [reserved EXCEPT ![k] = p], UNCHANGED <<billing, recorded>>
  PROVE  UsageIsPaid'
<1>1. /\ Charged(p)' = Charged(p) \cup {k} /\ k \notin Charged(p)
      /\ \A q \in Period \ {p} : Charged(q)' = Charged(q)
  BY MonthsAssumption DEF UsageInv, Charged
<1>2. Cardinality(Charged(p)') = Cardinality(Charged(p)) + 1
  <2>1. IsFiniteSet(Charged(p))
    BY MonthsAssumption, FS_Subset DEF Charged
  <2>. QED  BY <1>1, <2>1, FS_AddElement
<1>3. Cardinality(Charged(p)') <= Quota[plan] /\ plan \in HadPlans
  BY <1>2, PlanWasHad DEF UsageInv
<1>4. HadPlans' = HadPlans
  BY DEF HadPlans, billing
<1>5. \A q \in Period : \E h \in HadPlans : Cardinality(Charged(q)') <= Quota[h]
  BY <1>1, <1>3 DEF UsageInv, UsageIsPaid, HadPlans
<1>6. \A j \in Key : recorded[j] # NoData => reserved'[j] # 0
  BY MonthsAssumption DEF UsageInv, UsageIsPaid
<1>. QED  BY <1>4, <1>5, <1>6 DEF UsageIsPaid, HadPlans

LEMMA UsageStepKeeps ==
  ASSUME Typed, UsageInv, NEW c \in Conn, UsageStep(c)
  PROVE  UsageInv'
<1>. DEFINE k == req[c].key
<1>1. /\ UNCHANGED billing
      /\ pc' \in [Conn -> Places] /\ OnlyMoves(c)
      /\ \/ pc'[c] \in {"charge", "record"} /\ req' = req
         \/ pc'[c] = "idle"
  BY UsageSteps, GoingMoves DEF Places
<1>2. \A d \in Conn : d # c => (pc'[d] = pc[d] /\ req'[d] = req[d])
  BY <1>1 DEF OnlyMoves
<1>3. CASE GetUsedRelease(c)
  <2>1. req[c].kind = "usage" /\ pc'[c] # "record" /\ UNCHANGED usage
    BY <1>3 DEF GetUsedRelease, At, Typed, Goto, End, NoRequest
  <2>2. \A d \in Conn : Charging(d)'
    BY <1>1, <1>2, <2>1 DEF UsageInv, Charging, usage
  <2>. QED  BY <1>1, <2>1, <2>2 DEF UsageInv, UsageIsPaid, Billed, Charged, billing, usage
<1>4. ASSUME NEW p \in Period, Consume(c, p)
      PROVE  UsageInv'
  <2>1. pc[c] = "charge" /\ req[c].kind = "usage" /\ k \in Key
    BY <1>4, Sent, RequestShape DEF Consume, UsageInv, Charging
  <2>2. CASE UNCHANGED reserved /\ (pc'[c] = "record" => reserved[k] # 0)
    <3>1. UNCHANGED usage
      BY <1>4, <2>2 DEF Consume, usage
    <3>2. \A d \in Conn : Charging(d)'
      BY <1>1, <1>2, <2>1, <2>2, <3>1 DEF UsageInv, Charging, usage
    <3>. QED  BY <1>1, <3>1, <3>2 DEF UsageInv, UsageIsPaid, Billed, Charged, billing, usage
  <2>3. CASE /\ reserved[k] = 0 /\ Cardinality(Charged(p)) + 1 <= Quota[plan]
             /\ reserved' = [reserved EXCEPT ![k] = p] /\ Goto(c, "record")
    <3>1. UNCHANGED recorded
      BY <1>4 DEF Consume
    <3>2. UsageIsPaid'
      BY <1>1, <2>1, <2>3, <3>1, OneMore
    <3>3. /\ reserved' \in [Key -> Period \cup {0}]
          /\ \A j \in Key : reserved[j] # 0 => reserved'[j] # 0
          /\ reserved'[k] # 0
      BY <2>1, <2>3, MonthsAssumption DEF UsageInv
    <3>4. \A d \in Conn : pc[d] = "record" => req[d].key \in Key
      BY Sent, RequestShape DEF UsageInv, Charging
    <3>5. \A d \in Conn : Charging(d)'
      BY <1>1, <1>2, <2>1, <2>3, <3>3, <3>4 DEF UsageInv, Charging, Goto
    <3>. QED  BY <1>1, <3>1, <3>2, <3>3, <3>5 DEF UsageInv, Billed, billing
  <2>4. End(c) => pc'[c] = "idle"
    BY EndMoves
  <2>. QED  BY <1>4, <2>2, <2>3, <2>4, MonthsAssumption DEF Consume
<1>5. CASE Record(c)
  <2>1. pc[c] = "record" /\ req[c].kind = "usage" /\ k \in Key /\ reserved[k] # 0
    BY <1>5, Sent, RequestShape DEF Record, UsageInv, Charging
  <2>2. req[c].data \in Data /\ UNCHANGED reserved /\ pc'[c] = "idle"
    BY <1>5, <2>1, Sent, RequestShape, EndMoves DEF Record
  <2>3. /\ recorded' \in [Key -> Data \cup {NoData}]
        /\ \A j \in Key \ {k} : recorded'[j] = recorded[j]
    BY <1>5, <2>1, <2>2 DEF Record, UsageInv
  <2>4. UsageIsPaid'
    BY <1>1, <2>1, <2>2, <2>3 DEF UsageInv, UsageIsPaid, Charged, billing
  <2>5. \A d \in Conn : Charging(d)'
    BY <1>1, <1>2, <2>2 DEF UsageInv, Charging
  <2>. QED  BY <1>1, <2>2, <2>3, <2>4, <2>5 DEF UsageInv, Billed, billing
<1>. QED  BY <1>3, <1>4, <1>5 DEF UsageStep

LEMMA WebhookKeeps ==
  ASSUME UsageInv, NEW e \in Event, Webhook(e)
  PROVE  UsageInv'
<1>1. /\ billed' = billed \cup {e} /\ subscription' \in {e, subscription}
      /\ UNCHANGED <<reserved, recorded, pc, req>>
  BY DEF Webhook, usage
<1>2. Billed'
  BY <1>1 DEF UsageInv, Billed
<1>3. UsageIsPaid'
  BY <1>1 DEF UsageInv, UsageIsPaid, Charged
<1>4. \A c \in Conn : Charging(c)'
  BY <1>1 DEF UsageInv, Charging
<1>. QED  BY <1>1, <1>2, <1>3, <1>4 DEF UsageInv

LEMMA UsageNext ==
  ASSUME Typed, UsageInv, [Next]_vars
  PROVE  UsageInv'
<1>1. ASSUME NEW c \in Conn, Step(c), ~UsageStep(c)
      PROVE  UsageInv'
  <2>1. /\ Going(c, {"entitled", "act", "put", "fetch", "list", "seats", "insert", "revoke"})
        /\ UNCHANGED <<billing, usage>>
    BY <1>1, ReleaseSteps, LineSteps, RoleSteps DEF Step, Going
  <2>2. OnlyMoves(c) /\ pc'[c] \notin {"charge", "record"}
    BY <2>1, GoingMoves DEF Places
  <2>. QED  BY <2>1, <2>2, UsageQuiet
<1>2. ASSUME NEW c \in Conn, NEW r \in Requests,
             AuthorizeHuman(c, r) \/ AuthorizeToken(c, r) \/ Admit(c, r)
      PROVE  UsageInv'
  <2>1. PICK as : Start(c, r, as)
    BY <1>2 DEF AuthorizeHuman, AuthorizeToken, Admit
  <2>2. OnlyMoves(c) /\ pc'[c] \notin {"charge", "record"}
    BY <2>1, StartMoves
  <2>. QED  BY <2>1, <2>2, UsageQuiet DEF Start
<1>3. CASE UNCHANGED vars
  BY <1>3 DEF vars, UsageInv, UsageIsPaid, Billed, Charged, Charging, billing, usage
<1>. QED  BY <1>1, <1>2, <1>3, UsageStepKeeps, WebhookKeeps DEF Next

LEMMA UsageInit == Init => UsageInv
<1>. SUFFICES ASSUME Init PROVE UsageInv
  OBVIOUS
<1>1. /\ billed = {} /\ subscription = NoEvent /\ reserved = [k \in Key |-> 0]
      /\ recorded = [k \in Key |-> NoData] /\ pc = [c \in Conn |-> "idle"]
  BY DEF Init, Fresh
<1>2. \A p \in Period : Charged(p) = {}
  BY <1>1, MonthsAssumption DEF Charged
<1>3. UsageIsPaid
  <2>1. Cardinality({}) <= Quota["free"]
    BY PlansAssumption, FS_EmptySet DEF Plans
  <2>. QED  BY <1>1, <1>2, <2>1 DEF UsageIsPaid
<1>. QED  BY <1>1, <1>3 DEF UsageInv, Billed, Charging

\* The ledger has no event that was not charged, and no month is charged beyond
\* a plan that the organization had, for any events sent again and again, in any
\* months, while the plan changes.
THEOREM RecordedUsageIsPaid == Spec => []UsageIsPaid
<1>1. Init => Inv /\ UsageInv
  BY InvInit, UsageInit
<1>2. Inv /\ UsageInv /\ [Next]_vars => (Inv /\ UsageInv)'
  BY InvNext, UsageNext DEF Inv
<1>3. UsageInv => UsageIsPaid
  BY DEF UsageInv
<1>. QED  BY <1>1, <1>2, <1>3, PTL DEF Spec

-----------------------------------------------------------------------------
(* Seats: additions wait in a line, and only the first of it counts and adds. *)

InLine == {c \in Conn : pc[c] \in {"list", "seats", "insert"}}

\* s has the additions that wait, in their order: the lock is this line.
LinedUp(s) ==
  /\ \A i \in 1 .. Len(s) : s[i] \in InLine
  /\ \A c \in InLine : \E i \in 1 .. Len(s) : s[i] = c
  /\ \A i, j \in 1 .. Len(s) : s[i] = s[j] => i = j
  /\ \A i \in 1 .. Len(s) : behind[s[i]] = IF i = 1 THEN NoConn ELSE s[i - 1]
  /\ \A i \in 2 .. Len(s) : pc[s[i]] = "list"
  /\ queued = IF Len(s) = 0 THEN NoConn ELSE s[Len(s)]

\* What an addition has counted is still true of the members when it uses it.
Counted(c) ==
  /\ pc[c] \in {"enqueue", "list", "seats", "insert"} => req[c].kind = "add"
  /\ pc[c] = "seats" => Cardinality(Members) <= seats[c]
  /\ pc[c] = "insert" =>
       \E q \in HadPlans : Cardinality(Members \cup {req[c].user}) <= Seats[q]

SeatInv ==
  /\ role \in [User -> Role \cup {"none"}]
  /\ behind \in [Conn -> Conn \cup {NoConn}]
  /\ seats \in [Conn -> Nat]
  /\ \E s \in Seq(Conn) : LinedUp(s)
  /\ SeatsKept
  /\ \A c \in Conn : Counted(c)

\* Whoever waits for nobody is the first one, and nobody else is past the line.
LEMMA First ==
  ASSUME NEW s \in Seq(Conn), LinedUp(s), NEW c \in InLine, Resolved(c)
  PROVE  /\ Len(s) > 0 /\ s[1] = c
         /\ \A d \in InLine \ {c} : pc[d] = "list"
<1>1. PICK i \in 1 .. Len(s) : s[i] = c
  BY DEF LinedUp
<1>2. i = 1
  <2>1. CASE i # 1
    <3>1. behind[c] = s[i - 1] /\ s[i - 1] \in Conn
      BY <1>1, <2>1 DEF LinedUp, InLine
    <3>. QED  BY <3>1, NothingAssumption DEF Resolved
  <2>. QED  BY <2>1
<1>3. ASSUME NEW d \in InLine \ {c}
      PROVE  pc[d] = "list"
  <2>1. PICK j \in 1 .. Len(s) : s[j] = d
    BY DEF LinedUp
  <2>2. j \in 2 .. Len(s)
    BY <1>1, <1>2, <2>1
  <2>. QED  BY <2>1, <2>2 DEF LinedUp
<1>. QED  BY <1>1, <1>2, <1>3

\* The first one leaves: whoever comes next is the first one of the others.
LEMMA FirstLeaves ==
  ASSUME SeatInv, NEW s \in Seq(Conn), LinedUp(s), NEW c \in InLine, Resolved(c),
         OnlyMoves(c), pc'[c] = "idle", Release(c)
  PROVE  /\ Tail(s) \in Seq(Conn) /\ LinedUp(Tail(s))'
         /\ behind' \in [Conn -> Conn \cup {NoConn}]
<1>. DEFINE t == Tail(s)
<1>1. Len(s) > 0 /\ s[1] = c
  BY First
<1>2. /\ t \in Seq(Conn) /\ Len(t) = Len(s) - 1
      /\ \A i \in 1 .. Len(t) : /\ t[i] = s[i + 1] /\ i + 1 # 1 /\ (i + 1) - 1 = i
                                /\ i + 1 \in 1 .. Len(s) /\ i + 1 \in 2 .. Len(s)
  BY <1>1
<1>. HIDE DEF t
<1>3. \A d \in Conn : d # c => pc'[d] = pc[d]
  BY DEF OnlyMoves
<1>4. InLine' = InLine \ {c}
  BY <1>3 DEF InLine
<1>5. \A i \in 1 .. Len(t) : t[i] \in InLine /\ t[i] # c
  <2>1. 1 \in 1 .. Len(s)
    BY <1>1
  <2>2. \A i \in 1 .. Len(s) : s[i] \in InLine /\ (s[i] = s[1] => i = 1)
    BY <2>1 DEF LinedUp
  <2>. QED  BY <1>1, <1>2, <2>2
<1>6. \A d \in InLine \ {c} : \E i \in 1 .. Len(t) : t[i] = d
  <2>. SUFFICES ASSUME NEW d \in InLine \ {c} PROVE \E i \in 1 .. Len(t) : t[i] = d
    OBVIOUS
  <2>1. PICK i \in 1 .. Len(s) : s[i] = d
    BY DEF LinedUp
  <2>2. i # 1 /\ i - 1 \in 1 .. Len(t) /\ t[i - 1] = s[i]
    BY <1>1, <1>2, <2>1
  <2>. QED  BY <2>1, <2>2
<1>7. \A i, j \in 1 .. Len(t) : t[i] = t[j] => i = j
  <2>1. \A i, j \in 1 .. Len(s) : s[i] = s[j] => i = j
    BY DEF LinedUp
  <2>. SUFFICES ASSUME NEW i \in 1 .. Len(t), NEW j \in 1 .. Len(t), t[i] = t[j]
                PROVE  i = j
    OBVIOUS
  <2>2. i + 1 \in 1 .. Len(s) /\ j + 1 \in 1 .. Len(s) /\ s[i + 1] = s[j + 1]
    BY <1>2
  <2>3. i + 1 = j + 1
    BY <2>1, <2>2
  <2>. QED  BY <2>3
<1>8. \A i \in 1 .. Len(t) : behind'[t[i]] = IF i = 1 THEN NoConn ELSE t[i - 1]
  <2>. SUFFICES ASSUME NEW i \in 1 .. Len(t)
                PROVE  behind'[t[i]] = IF i = 1 THEN NoConn ELSE t[i - 1]
    OBVIOUS
  <2>1. behind[t[i]] = s[i] /\ t[i] \in Conn
    <3>1. \A j \in 1 .. Len(s) : j # 1 => behind[s[j]] = s[j - 1]
      BY DEF LinedUp
    <3>2. behind[s[i + 1]] = s[(i + 1) - 1]
      BY <1>2, <3>1
    <3>. QED  BY <1>2, <1>5, <3>2 DEF InLine
  <2>2. behind'[t[i]] = IF s[i] = c THEN NoConn ELSE s[i]
    BY <2>1 DEF Release
  <2>3. CASE i = 1
    BY <1>1, <2>2, <2>3
  <2>4. CASE i # 1
    <3>1. i - 1 \in 1 .. Len(t) /\ (i - 1) + 1 = i
      BY <1>2, <2>4
    <3>2. t[i - 1] = s[(i - 1) + 1]
      BY <1>2, <3>1
    <3>3. s[i] = t[i - 1]
      BY <3>1, <3>2
    <3>4. s[i] # c
      BY <1>5, <3>1, <3>3
    <3>. QED  BY <2>2, <2>4, <3>3, <3>4
  <2>. QED  BY <2>3, <2>4
<1>9. \A i \in 1 .. Len(t) : pc'[t[i]] = "list"
  BY <1>2, <1>3, <1>5 DEF LinedUp, InLine
<1>10. queued' = IF Len(t) = 0 THEN NoConn ELSE t[Len(t)]
  <2>1. queued = s[Len(s)] /\ (queued = c <=> Len(s) = 1)
    <3>1. Len(s) \in 1 .. Len(s) /\ 1 \in 1 .. Len(s)
      BY <1>1
    <3>2. queued = s[Len(s)]
      BY <1>1 DEF LinedUp
    <3>3. \A i, j \in 1 .. Len(s) : s[i] = s[j] => i = j
      BY DEF LinedUp
    <3>. QED  BY <1>1, <3>1, <3>2, <3>3
  <2>2. Len(t) # 0 => t[Len(t)] = s[Len(s)]
    BY <1>2
  <2>. QED  BY <1>2, <2>1, <2>2 DEF Release
<1>11. LinedUp(t)'
  BY <1>2, <1>4, <1>5, <1>6, <1>7, <1>8, <1>9, <1>10 DEF LinedUp
<1>12. behind' \in [Conn -> Conn \cup {NoConn}]
  BY DEF Release, SeatInv
<1>. QED  BY <1>2, <1>11, <1>12 DEF t

\* Another addition comes last.
LEMMA LastComes ==
  ASSUME Typed, SeatInv, NEW s \in Seq(Conn), LinedUp(s), NEW c \in Conn, pc[c] = "enqueue",
         OnlyMoves(c), pc'[c] = "list",
         behind' = [behind EXCEPT ![c] = queued], queued' = c
  PROVE  Append(s, c) \in Seq(Conn) /\ LinedUp(Append(s, c))'
<1>. DEFINE t == Append(s, c)
<1>1. /\ t \in Seq(Conn) /\ Len(t) = Len(s) + 1 /\ t[Len(t)] = c
      /\ \A i \in 1 .. Len(s) : t[i] = s[i] /\ i \in 1 .. Len(t)
  OBVIOUS
<1>. HIDE DEF t
<1>2. \A d \in Conn : d # c => pc'[d] = pc[d]
  BY DEF OnlyMoves
<1>3. c \notin InLine /\ InLine' = InLine \cup {c}
  BY <1>2 DEF InLine
<1>4. \A i \in 1 .. Len(t) : (i \in 1 .. Len(s) /\ t[i] = s[i] /\ s[i] \in InLine) \/ (i = Len(t) /\ t[i] = c)
  BY <1>1 DEF LinedUp
<1>5. \A d \in InLine' : \E i \in 1 .. Len(t) : t[i] = d
  BY <1>1, <1>3 DEF LinedUp
<1>6. \A i, j \in 1 .. Len(t) : t[i] = t[j] => i = j
  BY <1>1, <1>3, <1>4 DEF LinedUp
<1>7. \A i \in 1 .. Len(t) : behind'[t[i]] = IF i = 1 THEN NoConn ELSE t[i - 1]
  <2>. SUFFICES ASSUME NEW i \in 1 .. Len(t)
                PROVE  behind'[t[i]] = IF i = 1 THEN NoConn ELSE t[i - 1]
    OBVIOUS
  <2>1. CASE i \in 1 .. Len(s) /\ t[i] = s[i] /\ s[i] \in InLine
    <3>1. behind'[t[i]] = behind[s[i]]
      BY <1>3, <2>1 DEF SeatInv, InLine
    <3>2. i # 1 => t[i - 1] = s[i - 1]
      BY <1>1, <2>1
    <3>. QED  BY <2>1, <3>1, <3>2 DEF LinedUp
  <2>2. CASE i = Len(t) /\ t[i] = c
    <3>1. behind'[t[i]] = queued
      BY <2>2 DEF SeatInv
    <3>2. Len(s) # 0 => t[i - 1] = s[Len(s)] /\ i # 1
      BY <1>1, <2>2
    <3>. QED  BY <1>1, <2>2, <3>1, <3>2 DEF LinedUp
  <2>. QED  BY <1>4, <2>1, <2>2
<1>8. ASSUME NEW i \in 2 .. Len(t)
      PROVE  pc'[t[i]] = "list"
  <2>1. CASE i \in 1 .. Len(s) /\ t[i] = s[i] /\ s[i] \in InLine
    <3>1. i \in 2 .. Len(s) /\ s[i] \in Conn /\ s[i] # c
      BY <1>3, <2>1 DEF InLine
    <3>. QED  BY <1>2, <2>1, <3>1 DEF LinedUp
  <2>2. i \in 1 .. Len(t)
    OBVIOUS
  <2>. QED  BY <1>4, <2>1, <2>2
<1>9. LinedUp(t)'
  BY <1>1, <1>3, <1>4, <1>5, <1>6, <1>7, <1>8 DEF LinedUp
<1>. QED  BY <1>1, <1>9 DEF t

\* Whoever is in the line stays there, the first one with another place.
LEMMA LineStays ==
  ASSUME Typed, NEW s \in Seq(Conn), LinedUp(s), NEW c \in InLine, Resolved(c),
         OnlyMoves(c), pc'[c] \in {"seats", "insert"}, UNCHANGED <<behind, queued>>
  PROVE  LinedUp(s)'
<1>1. \A d \in Conn : d # c => pc'[d] = pc[d]
  BY DEF OnlyMoves
<1>2. InLine' = InLine
  BY <1>1 DEF InLine
<1>3. \A i \in 2 .. Len(s) : s[i] # c /\ s[i] \in Conn
  <2>1. s[1] = c /\ \A i \in 1 .. Len(s) : s[i] \in InLine /\ (s[i] = s[1] => i = 1)
    BY First DEF LinedUp
  <2>2. \A i \in 2 .. Len(s) : i \in 1 .. Len(s) /\ i # 1
    OBVIOUS
  <2>. QED  BY <2>1, <2>2 DEF InLine
<1>. QED  BY <1>1, <1>2, <1>3 DEF LinedUp

LEMMA LineUntouched ==
  ASSUME NEW s \in Seq(Conn), LinedUp(s), UNCHANGED <<behind, queued>>,
         \A d \in Conn : pc'[d] = pc[d] \/ {pc[d], pc'[d]} \cap {"list", "seats", "insert"} = {}
  PROVE  LinedUp(s)'
<1>1. InLine' = InLine /\ \A d \in InLine : pc'[d] = pc[d]
  BY DEF InLine
<1>2. \A i \in 2 .. Len(s) : s[i] \in InLine
  BY DEF LinedUp
<1>. QED  BY <1>1, <1>2 DEF LinedUp

LEMMA Finite ==
  ASSUME NEW M \in SUBSET User, NEW N \in SUBSET M
  PROVE  Cardinality(M) \in Nat /\ Cardinality(N) \in Nat /\ Cardinality(N) <= Cardinality(M)
BY PeopleAssumption, FS_Subset, FS_CardinalityType

LEMMA SeatsOf ==
  ASSUME Billed, NEW q \in HadPlans
  PROVE  Seats[q] \in Nat \ {0}
BY PlanWasHad, PlansAssumption

\* Who asks to be added is somebody.
LEMMA Added ==
  ASSUME Typed, SeatInv, NEW c \in Conn, pc[c] \in {"enqueue", "list", "seats", "insert"}
  PROVE  req[c].user \in User /\ req[c].role \in Role
BY Sent, RequestShape DEF SeatInv, Counted

\* With fewer members, and more plans, what was counted is still true.
LEMMA Fewer ==
  ASSUME Typed, SeatInv, Billed, Members' \subseteq Members, billed \subseteq billed'
  PROVE  /\ SeatsKept'
         /\ \A c \in Conn : pc'[c] = pc[c] /\ req'[c] = req[c] /\ seats'[c] = seats[c] => Counted(c)'
<1>1. HadPlans \subseteq HadPlans' /\ Members \subseteq User
  BY DEF HadPlans, Members
<1>2. Cardinality(Members) \in Nat /\ Cardinality(Members') \in Nat
      /\ Cardinality(Members') <= Cardinality(Members)
  BY <1>1, Finite
<1>3. SeatsKept'
  <2>1. PICK q \in HadPlans : Cardinality(Members) <= Seats[q]
    BY DEF SeatInv, SeatsKept, HadPlans
  <2>2. q \in HadPlans' /\ Cardinality(Members') <= Seats[q]
    BY <1>1, <1>2, <2>1, SeatsOf
  <2>. QED  BY <2>2 DEF SeatsKept, HadPlans
<1>4. ASSUME NEW c \in Conn, pc'[c] = pc[c], req'[c] = req[c], seats'[c] = seats[c]
      PROVE  Counted(c)'
  <2>1. Counted(c) /\ seats[c] \in Nat
    BY DEF SeatInv
  <2>2. CASE pc[c] = "insert"
    <3>1. PICK q \in HadPlans : Cardinality(Members \cup {req[c].user}) <= Seats[q]
      BY <2>1, <2>2 DEF Counted
    <3>2. Members \cup {req[c].user} \in SUBSET User
      BY <1>1, <2>2, Added
    <3>3. Cardinality(Members' \cup {req[c].user}) <= Seats[q]
      <4>1. /\ Cardinality(Members' \cup {req[c].user}) \in Nat
            /\ Cardinality(Members \cup {req[c].user}) \in Nat
            /\ Cardinality(Members' \cup {req[c].user}) <= Cardinality(Members \cup {req[c].user})
        BY <3>2, Finite
      <4>. QED  BY <3>1, <4>1, SeatsOf
    <3>. QED  BY <1>1, <1>4, <2>1, <2>2, <3>3 DEF Counted
  <2>3. CASE pc[c] # "insert"
    BY <1>2, <1>4, <2>1, <2>3 DEF Counted
  <2>. QED  BY <2>2, <2>3
<1>. QED  BY <1>3, <1>4

\* A step outside of the line by which nobody becomes a member.
LEMMA SeatQuiet ==
  ASSUME Typed, SeatInv, Billed, NEW c \in Conn, OnlyMoves(c),
         {pc[c], pc'[c]} \cap {"list", "seats", "insert"} = {},
         pc'[c] = "enqueue" => req'[c].kind = "add",
         role' \in [User -> Role \cup {"none"}], Members' \subseteq Members,
         billed' = billed, UNCHANGED waiting
  PROVE  SeatInv'
<1>1. \A d \in Conn : d # c => (pc'[d] = pc[d] /\ req'[d] = req[d])
  BY DEF OnlyMoves
<1>2. UNCHANGED <<queued, behind, seats>>
  BY DEF waiting
<1>3. \E s \in Seq(Conn) : LinedUp(s)'
  BY <1>1, <1>2, LineUntouched DEF SeatInv
<1>4. SeatsKept' /\ \A d \in Conn : d # c => Counted(d)'
  BY <1>1, <1>2, Fewer
<1>5. Counted(c)'
  BY DEF Counted
<1>. QED  BY <1>2, <1>3, <1>4, <1>5 DEF SeatInv

\* The first one leaves, and nobody is a member who was not counted.
LEMMA LeaveStep ==
  ASSUME Typed, SeatInv, Billed, NEW c \in InLine, Resolved(c), End(c), Release(c),
         role' \in [User -> Role \cup {"none"}], SeatsKept',
         \A d \in Conn \ {c} : Counted(d)',
         seats' \in [Conn -> Nat]
  PROVE  SeatInv'
<1>1. OnlyMoves(c) /\ pc'[c] = "idle"
  BY EndMoves DEF InLine
<1>2. PICK s \in Seq(Conn) : LinedUp(s)
  BY DEF SeatInv
<1>3. /\ Tail(s) \in Seq(Conn) /\ LinedUp(Tail(s))'
      /\ behind' \in [Conn -> Conn \cup {NoConn}]
  BY <1>1, <1>2, FirstLeaves
<1>4. Counted(c)'
  BY <1>1 DEF Counted
<1>. QED  BY <1>3, <1>4 DEF SeatInv

\* The first one has counted, and goes on.
LEMMA CountStep ==
  ASSUME Typed, SeatInv, Billed, NEW c \in InLine, Resolved(c),
         OnlyMoves(c), req' = req, pc'[c] \in {"seats", "insert"},
         UNCHANGED <<role, billed, behind, queued>>,
         seats' \in [Conn -> Nat], \A d \in Conn \ {c} : seats'[d] = seats[d],
         Counted(c)'
  PROVE  SeatInv'
<1>1. PICK s \in Seq(Conn) : LinedUp(s)
  BY DEF SeatInv
<1>2. LinedUp(s)'
  BY <1>1, LineStays
<1>3. SeatsKept' /\ \A d \in Conn : d # c => Counted(d)'
  BY Fewer DEF Members, OnlyMoves
<1>. QED  BY <1>2, <1>3 DEF SeatInv

LEMMA EnqueueKeeps ==
  ASSUME Typed, SeatInv, Billed, NEW c \in Conn, Enqueue(c)
  PROVE  SeatInv'
<1>1. /\ pc[c] = "enqueue" /\ UNCHANGED <<role, billed, seats>>
  BY DEF Enqueue, domain, billing
<1>2. CASE End(c) /\ UNCHANGED <<queued, behind>>
  <2>1. OnlyMoves(c) /\ pc'[c] = "idle"
    BY <1>2, EndMoves
  <2>. QED  BY <1>1, <1>2, <2>1, SeatQuiet DEF waiting, Members, SeatInv
<1>3. CASE Goto(c, "list") /\ behind' = [behind EXCEPT ![c] = queued] /\ queued' = c
  <2>1. OnlyMoves(c) /\ pc'[c] = "list" /\ req' = req
    BY <1>3, GotoMoves DEF Places
  <2>2. PICK s \in Seq(Conn) : LinedUp(s)
    BY DEF SeatInv
  <2>3. Append(s, c) \in Seq(Conn) /\ LinedUp(Append(s, c))'
    BY <1>1, <1>3, <2>1, <2>2, LastComes
  <2>4. queued \in Conn \cup {NoConn}
    BY <2>2 DEF LinedUp, InLine
  <2>5. behind' \in [Conn -> Conn \cup {NoConn}]
    BY <1>3, <2>4 DEF SeatInv
  <2>6. SeatsKept' /\ \A d \in Conn : d # c => Counted(d)'
    BY <1>1, <2>1, Fewer DEF Members, OnlyMoves
  <2>7. Counted(c)'
    BY <1>1, <2>1 DEF Counted, SeatInv
  <2>. QED  BY <1>1, <2>3, <2>5, <2>6, <2>7 DEF SeatInv
<1>. QED  BY <1>2, <1>3 DEF Enqueue

LEMMA ListKeeps ==
  ASSUME Typed, SeatInv, Billed, NEW c \in Conn, ListMembers(c)
  PROVE  SeatInv'
<1>1. /\ c \in InLine /\ pc[c] = "list" /\ Resolved(c) /\ UNCHANGED <<role, billed>>
  BY DEF ListMembers, domain, billing, InLine
<1>2. Members \subseteq User /\ Cardinality(Members) \in Nat /\ Members' = Members /\ HadPlans' = HadPlans
  BY <1>1, Finite DEF Members, HadPlans
<1>3. CASE Release(c) /\ End(c) /\ UNCHANGED seats
  <2>1. OnlyMoves(c)
    BY <1>3, EndMoves
  <2>2. SeatsKept' /\ \A d \in Conn \ {c} : Counted(d)'
    BY <1>1, <1>2, <1>3, <2>1, Fewer DEF OnlyMoves
  <2>. QED  BY <1>1, <1>3, <2>2, LeaveStep DEF SeatInv
<1>4. CASE /\ seats' = [seats EXCEPT ![c] = Cardinality(Members)]
           /\ Goto(c, IF req[c].user \in Members THEN "insert" ELSE "seats")
           /\ UNCHANGED <<queued, behind>>
  <2>1. /\ OnlyMoves(c) /\ req' = req
        /\ pc'[c] = IF req[c].user \in Members THEN "insert" ELSE "seats"
    BY <1>4, GotoMoves DEF Places
  <2>2. seats' \in [Conn -> Nat] /\ seats'[c] = Cardinality(Members)
        /\ \A d \in Conn \ {c} : seats'[d] = seats[d]
    BY <1>2, <1>4 DEF SeatInv
  <2>3. req[c].kind = "add"
    BY <1>1 DEF SeatInv, Counted
  <2>4. CASE req[c].user \in Members
    <3>1. PICK q \in HadPlans : Cardinality(Members) <= Seats[q]
      BY DEF SeatInv, SeatsKept, HadPlans
    <3>2. Members \cup {req[c].user} = Members
      BY <2>4
    <3>3. Counted(c)'
      BY <1>2, <2>1, <2>3, <2>4, <3>1, <3>2 DEF Counted
    <3>. QED  BY <1>1, <1>4, <2>1, <2>2, <2>4, <3>3, CountStep
  <2>5. CASE req[c].user \notin Members
    <3>1. Counted(c)'
      BY <1>2, <2>1, <2>2, <2>3, <2>5 DEF Counted
    <3>. QED  BY <1>1, <1>4, <2>1, <2>2, <2>5, <3>1, CountStep
  <2>. QED  BY <2>4, <2>5
<1>. QED  BY <1>3, <1>4 DEF ListMembers

\* Whoever has counted is the first one.
LEMMA CountedIsFirst ==
  ASSUME SeatInv, NEW c \in Conn, pc[c] \in {"seats", "insert"}
  PROVE  c \in InLine /\ Resolved(c) /\ \A d \in InLine \ {c} : pc[d] = "list"
<1>1. PICK s \in Seq(Conn) : LinedUp(s)
  BY DEF SeatInv
<1>2. c \in InLine
  BY DEF InLine
<1>3. PICK i \in 1 .. Len(s) : s[i] = c
  BY <1>1, <1>2 DEF LinedUp
<1>4. i = 1
  <2>1. i \in 2 .. Len(s) => pc[c] = "list"
    BY <1>1, <1>3 DEF LinedUp
  <2>. QED  BY <2>1
<1>5. Resolved(c)
  BY <1>1, <1>3, <1>4 DEF LinedUp, Resolved
<1>. QED  BY <1>1, <1>2, <1>5, First

LEMMA AssertKeeps ==
  ASSUME Typed, SeatInv, Billed, NEW c \in Conn, AssertSeats(c)
  PROVE  SeatInv'
<1>1. pc[c] = "seats" /\ UNCHANGED <<role, billed>>
  BY DEF AssertSeats, domain, billing
<1>2. c \in InLine /\ Resolved(c)
  BY <1>1, CountedIsFirst
<1>3. /\ Members \subseteq User /\ Members' = Members /\ HadPlans' = HadPlans
      /\ req[c].user \in User /\ req[c].kind = "add"
      /\ Cardinality(Members) <= seats[c]
  BY <1>1, Added DEF Members, HadPlans, SeatInv, Counted
<1>4. CASE Release(c) /\ End(c) /\ seats' = [seats EXCEPT ![c] = 0]
  <2>1. OnlyMoves(c)
    BY <1>4, EndMoves
  <2>2. seats' \in [Conn -> Nat] /\ \A d \in Conn \ {c} : seats'[d] = seats[d]
    BY <1>4 DEF SeatInv
  <2>3. SeatsKept' /\ \A d \in Conn \ {c} : Counted(d)'
    BY <1>1, <1>3, <2>1, <2>2, Fewer DEF OnlyMoves
  <2>. QED  BY <1>1, <1>2, <1>4, <2>2, <2>3, LeaveStep DEF SeatInv
<1>5. CASE /\ seats[c] + 1 <= Seats[plan] /\ Goto(c, "insert")
           /\ seats' = [seats EXCEPT ![c] = seats[c] + 1] /\ UNCHANGED <<queued, behind>>
  <2>1. OnlyMoves(c) /\ req' = req /\ pc'[c] = "insert"
    BY <1>5, GotoMoves DEF Places
  <2>2. seats' \in [Conn -> Nat] /\ \A d \in Conn \ {c} : seats'[d] = seats[d]
    BY <1>5 DEF SeatInv
  <2>3. Cardinality(Members \cup {req[c].user}) <= seats[c] + 1
    <3>1. IsFiniteSet(Members) /\ Cardinality(Members) \in Nat /\ seats[c] \in Nat
      BY <1>3, PeopleAssumption, FS_Subset, FS_CardinalityType DEF SeatInv
    <3>2. \/ Cardinality(Members \cup {req[c].user}) = Cardinality(Members)
          \/ Cardinality(Members \cup {req[c].user}) = Cardinality(Members) + 1
      BY <3>1, FS_AddElement
    <3>. QED  BY <1>3, <3>1, <3>2
  <2>4. Cardinality(Members \cup {req[c].user}) \in Nat /\ seats[c] \in Nat
    BY <1>3, Finite DEF SeatInv
  <2>5. plan \in HadPlans /\ Cardinality(Members \cup {req[c].user}) <= Seats[plan]
    BY <1>5, <2>3, <2>4, PlanWasHad, SeatsOf
  <2>6. Counted(c)'
    BY <1>3, <2>1, <2>5 DEF Counted
  <2>. QED  BY <1>1, <1>2, <1>5, <2>1, <2>2, <2>6, CountStep
<1>. QED  BY <1>4, <1>5 DEF AssertSeats

LEMMA AddKeeps ==
  ASSUME Typed, SeatInv, Billed, NEW c \in Conn, AddMemberRoute(c)
  PROVE  SeatInv'
<1>. DEFINE r == req[c]
<1>1. /\ pc[c] = "insert" /\ Release(c) /\ End(c) /\ UNCHANGED billed
      /\ seats' = [seats EXCEPT ![c] = 0]
  BY DEF AddMemberRoute, billing
<1>2. /\ c \in InLine /\ Resolved(c) /\ \A d \in InLine \ {c} : pc[d] = "list"
      /\ r.user \in User /\ r.role \in Role
  BY <1>1, CountedIsFirst, Added
<1>3. /\ role' \in [User -> Role \cup {"none"}]
      /\ Members' \subseteq Members \cup {r.user}
  BY <1>2 DEF AddMemberRoute, AddMember, Members, SeatInv
<1>4. SeatsKept'
  <2>1. PICK q \in HadPlans : Cardinality(Members \cup {r.user}) <= Seats[q]
    BY <1>1 DEF SeatInv, Counted
  <2>2. /\ Cardinality(Members') \in Nat /\ Cardinality(Members \cup {r.user}) \in Nat
        /\ Cardinality(Members') <= Cardinality(Members \cup {r.user})
    <3>1. Members \cup {r.user} \in SUBSET User
      BY <1>2 DEF Members
    <3>. QED  BY <1>3, <3>1, Finite
  <2>3. q \in HadPlans' /\ Cardinality(Members') <= Seats[q]
    BY <1>1, <2>1, <2>2, SeatsOf DEF HadPlans
  <2>. QED  BY <2>3 DEF SeatsKept, HadPlans
<1>5. OnlyMoves(c)
  BY <1>1, EndMoves
<1>6. \A d \in Conn \ {c} : Counted(d)'
  <2>1. \A d \in Conn \ {c} : pc'[d] = pc[d] /\ req'[d] = req[d] /\ pc[d] \notin {"seats", "insert"}
    BY <1>2, <1>5 DEF OnlyMoves, InLine
  <2>2. \A d \in Conn \ {c} : pc[d] \in {"enqueue", "list"} => req[d].kind = "add"
    BY DEF SeatInv, Counted
  <2>. QED  BY <2>1, <2>2 DEF Counted
<1>7. seats' \in [Conn -> Nat]
  BY <1>1 DEF SeatInv
<1>. QED  BY <1>1, <1>2, <1>3, <1>4, <1>6, <1>7, LeaveStep

\* A change of roles, or a removal, makes nobody a member.
LEMMA RolesOnlyFall ==
  ASSUME Typed, SeatInv, NEW c \in Conn, MemberStep(c), ~LineStep(c)
  PROVE  role' \in [User -> Role \cup {"none"}] /\ Members' \subseteq Members
<1>. DEFINE r == req[c]
<1>1. CASE UpdateMemberRoleRoute(c)
  <2>1. r.user \in User /\ r.role \in Role
    BY <1>1, Sent, RequestShape DEF UpdateMemberRoleRoute, At
  <2>2. CASE UNCHANGED role
    BY <2>2 DEF SeatInv, Members
  <2>3. CASE role[r.user] # "none" /\ role' = [role EXCEPT ![r.user] = r.role]
    BY <2>1, <2>3 DEF SeatInv, Members
  <2>. QED  BY <1>1, <2>2, <2>3
            DEF UpdateMemberRoleRoute, MayUpdateMemberRole, UpdateMemberRole
<1>2. CASE RemoveMemberRoute(c)
  <2>1. r.user \in User
    BY <1>2, Sent, RequestShape DEF RemoveMemberRoute, At
  <2>. QED  BY <1>2, <2>1 DEF RemoveMemberRoute, RemoveMember, SeatInv, Members
<1>3. CASE RevokeForSubject(c) \/ IssueRoute(c) \/ RevokeRoute(c)
  BY <1>3 DEF RevokeForSubject, IssueRoute, RevokeRoute, domain, SeatInv, Members
<1>. QED  BY <1>1, <1>2, <1>3 DEF MemberStep, LineStep

LEMMA SeatNext ==
  ASSUME Typed, SeatInv, Billed, [Next]_vars
  PROVE  SeatInv'
<1>1. ASSUME NEW c \in Conn, Step(c), ~LineStep(c)
      PROVE  SeatInv'
  <2>1. /\ pc[c] \notin {"list", "seats", "insert"}
        /\ Going(c, {"entitled", "act", "put", "fetch", "revoke", "charge", "record"})
        /\ UNCHANGED <<billing, waiting>>
    BY <1>1, ReleaseSteps, RoleSteps, UsageSteps DEF Step, Going
  <2>2. OnlyMoves(c) /\ pc'[c] \notin {"list", "seats", "insert", "enqueue"}
    BY <2>1, GoingMoves DEF Places
  <2>3. role' \in [User -> Role \cup {"none"}] /\ Members' \subseteq Members
    <3>1. CASE UNCHANGED role
      BY <3>1 DEF SeatInv, Members
    <3>. QED  BY <1>1, <3>1, ReleaseSteps, UsageSteps, RolesOnlyFall DEF Step
  <2>. QED  BY <2>1, <2>2, <2>3, SeatQuiet DEF billing
<1>2. ASSUME NEW c \in Conn, NEW r \in Requests,
             AuthorizeHuman(c, r) \/ AuthorizeToken(c, r) \/ Admit(c, r)
      PROVE  SeatInv'
  <2>1. PICK as : Start(c, r, as)
    BY <1>2 DEF AuthorizeHuman, AuthorizeToken, Admit
  <2>2. /\ OnlyMoves(c) /\ pc[c] = "idle" /\ req'[c] = r /\ pc'[c] = FirstStep(r)
        /\ pc'[c] \notin {"list", "seats", "insert"}
    BY <2>1, StartMoves
  <2>3. FirstStep(r) = "enqueue" => r.kind = "add"
    BY DEF FirstStep
  <2>4. UNCHANGED <<role, billed, waiting>>
    BY <2>1 DEF Start, domain, billing
  <2>. QED  BY <2>2, <2>3, <2>4, SeatQuiet DEF SeatInv, Members
<1>3. ASSUME billed \subseteq billed', UNCHANGED <<role, waiting, pc, req>>
      PROVE  SeatInv'
  <2>1. \E s \in Seq(Conn) : LinedUp(s)'
    BY <1>3, LineUntouched DEF SeatInv, waiting
  <2>2. SeatsKept' /\ \A c \in Conn : Counted(c)'
    BY <1>3, Fewer DEF Members, waiting
  <2>. QED  BY <1>3, <2>1, <2>2 DEF SeatInv, waiting
<1>4. ASSUME NEW e \in Event, Webhook(e)
      PROVE  SeatInv'
  BY <1>3, <1>4 DEF Webhook, domain
<1>5. CASE UNCHANGED vars
  BY <1>3, <1>5 DEF vars, domain, billing
<1>. QED  BY <1>1, <1>2, <1>4, <1>5, EnqueueKeeps, ListKeeps, AssertKeeps, AddKeeps
          DEF Next, LineStep

LEMMA SeatInit == Init => SeatInv
<1>. SUFFICES ASSUME Init PROVE SeatInv
  OBVIOUS
<1>1. /\ pc = [c \in Conn |-> "idle"] /\ queued = NoConn
      /\ behind = [c \in Conn |-> NoConn] /\ seats = [c \in Conn |-> 0]
  BY DEF Init, Fresh
<1>2. PICK u \in User : role = [v \in User |-> IF v = u THEN "owner" ELSE "none"]
  BY DEF Init, CreateOrganization
<1>3. role \in [User -> Role \cup {"none"}] /\ Members = {u}
  BY <1>2 DEF Role, Members
<1>4. LinedUp(<<>>) /\ <<>> \in Seq(Conn)
  BY <1>1 DEF LinedUp, InLine
<1>5. SeatsKept
  <2>1. Cardinality({u}) = 1 /\ Seats["free"] \in Nat \ {0}
    BY FS_Singleton, PlansAssumption DEF Plans
  <2>. QED  BY <1>3, <2>1 DEF SeatsKept
<1>6. \A c \in Conn : Counted(c)
  BY <1>1 DEF Counted
<1>. QED  BY <1>1, <1>3, <1>4, <1>5, <1>6 DEF SeatInv

\* However many members are added at once, while others leave and the plan
\* changes, the organization has no more members than a plan that it had allows.
THEOREM SeatsAreKept == Spec => []SeatsKept
<1>1. Init => Inv /\ UsageInv /\ SeatInv
  BY InvInit, UsageInit, SeatInit
<1>2. Inv /\ UsageInv /\ SeatInv /\ [Next]_vars => (Inv /\ UsageInv /\ SeatInv)'
  BY InvNext, UsageNext, SeatNext DEF Inv, UsageInv
<1>3. SeatInv => SeatsKept
  BY DEF SeatInv
<1>. QED  BY <1>1, <1>2, <1>3, PTL DEF Spec

-----------------------------------------------------------------------------
(* Whoever changes something has the role for it.                           *)

\* A request is let in with a role or a token, and its change is made after one
\* or more awaits: by then its sender still has a role that entitles to it.
THEOREM ChangesNeedARole == Spec => RoleStillHeld
<1>. DEFINE By(c, R) == pc'[c] # pc[c] /\ role[req[c].by] \in R
            Change ==
              /\ releases' # releases \/ package' # package =>
                   \E c \in Conn :
                     /\ pc[c] = "act" /\ pc'[c] # "act"
                     /\ role[req[c].by] \in
                          IF req[c].kind \in {"create", "submit"} THEN Publishers ELSE Managers
              /\ role' # role =>
                   \E c \in Conn :
                     /\ pc[c] \in {"act", "insert"} /\ pc'[c] # pc[c]
                     /\ role[req[c].by] \in Managers
<1>1. ASSUME Typed, [Next]_vars
      PROVE  [Change]_vars
  <2>1. CASE UNCHANGED <<releases, package, role>>
    BY <2>1
  <2>2. ASSUME NEW c \in Conn, ReleaseStep(c), ~UNCHANGED <<releases, package>>
        PROVE  Change
    <3>1. /\ pc[c] = "act" /\ UNCHANGED role
          /\ role[req[c].by] \in
               IF req[c].kind \in {"create", "submit"} THEN Publishers ELSE Managers
      <4>1. CASE CreatePackageRoute(c) \/ SubmitRoute(c)
        BY <2>2, <4>1 DEF CreatePackageRoute, SubmitRoute, At, MayCreatePackage,
                          MaySubmitRelease, releases
      <4>2. CASE ApproveRoute(c) \/ RejectRoute(c) \/ YankRoute(c)
        BY <2>2, <4>2 DEF ApproveRoute, RejectRoute, YankRoute, At, MayApproveRelease,
                          MayRejectRelease, MayYankRelease
      <4>3. CASE StoreArtifact(c)
        BY <2>2, <4>3 DEF StoreArtifact
      <4>4. CASE \/ GetRelease(c) \/ GetPublicRelease(c) \/ Fetch(c)
                 \/ GetComparedReleases(c) \/ Compare(c)
        BY <2>2, <4>4 DEF GetRelease, GetPublicRelease, Fetch, GetComparedReleases, Compare, domain
      <4>. QED  BY <2>2, <4>1, <4>2, <4>3, <4>4 DEF ReleaseStep
    <3>2. Going(c, {"put"}) /\ pc'[c] # "act"
      <4>1. Going(c, {"put"})
        BY <2>2, <3>1 DEF ReleaseStep, CreatePackageRoute, SubmitRoute, StoreArtifact,
             ApproveRoute, RejectRoute, YankRoute, GetRelease, GetPublicRelease, Fetch,
             GetComparedReleases, Compare, At, Going
      <4>. QED  BY <1>1, <4>1, GoingMoves DEF Places
    <3>. QED  BY <3>1, <3>2
  <2>3. ASSUME NEW c \in Conn, MemberStep(c), ~UNCHANGED role
        PROVE  Change
    <3>1. CASE AddMemberRoute(c)
      <4>1. /\ pc[c] = "insert" /\ End(c) /\ role[req[c].by] \in Managers
            /\ UNCHANGED <<releases, package>>
        BY <2>3, <3>1 DEF AddMemberRoute, MayAddMember
      <4>. QED  BY <1>1, <4>1, EndMoves
    <3>2. CASE UpdateMemberRoleRoute(c) \/ RemoveMemberRoute(c)
      <4>1. /\ pc[c] = "act" /\ Going(c, {"revoke"}) /\ role[req[c].by] \in Managers
            /\ UNCHANGED <<releases, package>>
        BY <2>3, <3>2 DEF UpdateMemberRoleRoute, RemoveMemberRoute, At, MayUpdateMemberRole,
                          MayRemoveMember, Going
      <4>2. pc'[c] # "act"
        BY <1>1, <4>1, GoingMoves DEF Places
      <4>. QED  BY <4>1, <4>2
    <3>3. CASE \/ Enqueue(c) \/ ListMembers(c) \/ AssertSeats(c)
               \/ RevokeForSubject(c) \/ IssueRoute(c) \/ RevokeRoute(c)
      BY <2>3, <3>3 DEF Enqueue, ListMembers, AssertSeats, RevokeForSubject, IssueRoute,
                        RevokeRoute, domain
    <3>. QED  BY <2>3, <3>1, <3>2, <3>3 DEF MemberStep
  <2>4. ASSUME NEW c \in Conn, MemberStep(c), UNCHANGED role
        PROVE  UNCHANGED <<releases, package>>
    BY <2>4 DEF MemberStep, Enqueue, ListMembers, AssertSeats, AddMemberRoute,
         UpdateMemberRoleRoute, RemoveMemberRoute, RevokeForSubject, IssueRoute, RevokeRoute, domain
  <2>5. ASSUME NEW c \in Conn, ReleaseStep(c)
        PROVE  UNCHANGED role
    BY <2>5, ReleaseSteps
  <2>6. ASSUME NEW c \in Conn, GetPackage(c) \/ CheckEntitled(c) \/ UsageStep(c)
        PROVE  UNCHANGED <<releases, package, role>>
    BY <2>6 DEF GetPackage, CheckEntitled, UsageStep, GetUsedRelease, Consume, Record, domain
  <2>7. ASSUME NEW c \in Conn, NEW r \in Requests,
               AuthorizeHuman(c, r) \/ AuthorizeToken(c, r) \/ Admit(c, r)
        PROVE  UNCHANGED <<releases, package, role>>
    BY <2>7 DEF AuthorizeHuman, AuthorizeToken, Admit, Start, domain
  <2>8. ASSUME NEW e \in Event, Webhook(e)
        PROVE  UNCHANGED <<releases, package, role>>
    BY <2>8 DEF Webhook, domain
  <2>. QED  BY <1>1, <2>1, <2>2, <2>3, <2>4, <2>5, <2>6, <2>7, <2>8 DEF Next, Step
<1>. QED  BY <1>1, InvHolds, PTL DEF Spec, Inv, RoleStillHeld

-----------------------------------------------------------------------------
(* The types of everything else.                                            *)

Bounded == \E b \in Nat : \A v \in Version : status[v] = "published" => v <= b

\* The package and who submitted and approved its releases.
PackageTyped ==
  /\ package \in {"none", "public", "private"}
  /\ submitter \in [Version -> User \cup {NoUser}]
  /\ approvals \in [Version -> SUBSET User]
  /\ latest \in Version \cup {0}
  /\ Bounded

TokensTyped == token \in [Token -> [state : {"unused", "live", "revoked"}, of : User \cup {NoUser}]]

\* Who was counted leaves room for the one who is to be added.
LineTyped ==
  /\ queued \in Conn \cup {NoConn}
  /\ \A c \in Conn : behind[c] # c
  /\ seats \in [Conn -> 0 .. Cardinality(User)]
  /\ \A c \in Conn : pc[c] = "seats" => seats[c] < Cardinality(User)

ActorsTyped == actor \in [Conn -> Role \cup {"none", "service"}]

Rest == PackageTyped /\ TokensTyped /\ LineTyped /\ ActorsTyped

\* The least distance from a bound is that of the greatest element.
LEMMA GreatestExists ==
  ASSUME NEW P \in SUBSET Nat, P # {}, NEW b \in Nat, \A v \in P : v <= b
  PROVE  \E m \in P : \A w \in P : w <= m
<1> DEFINE T == {n \in Nat : \E x \in P : n = b - x}
<1>1. \A x \in P : x \in Nat /\ b - x \in T
  OBVIOUS
<1>2. T # {} /\ T \subseteq Nat
  BY <1>1
<1>3. PICK n \in T : \A k \in T : ~ (<<k, n>> \in OpToRel(<, Nat))
  BY <1>2, NatLessThanWellFounded, WFMin, Zenon
<1>4. \A k \in T : ~ (k < n)
  BY <1>3 DEF OpToRel
<1>5. PICK m \in P : n = b - m
  OBVIOUS
<1>6. \A w \in P : w <= m
  <2> TAKE w \in P
  <2>1. ~ (b - w < n) /\ w \in Nat /\ m \in Nat /\ n \in Nat
    BY <1>1, <1>4
  <2> QED
    BY <2>1, <1>5
<1> QED
  BY <1>6

\* A release enters a state: there is still a latest published one, or none.
LEMMA EnterTyped ==
  ASSUME Typed, Bounded, NEW v \in Version, NEW s \in Releases!State, Releases!Enter(v, s)
  PROVE  Bounded' /\ latest' \in Version \cup {0}
<1>. DEFINE P == {w \in Version : status'[w] = "published"}
<1>1. status' = [status EXCEPT ![v] = s] /\ latest' = Releases!LatestOf(status')
  BY DEF Releases!Enter
<1>2. PICK b \in Nat : \A w \in Version : status[w] = "published" => w <= b
  BY DEF Bounded
<1>3. v \in Nat /\ Version \subseteq Nat
  BY VersionAssumption
<1>4. PICK d \in Nat : b <= d /\ v <= d
  BY <1>3
<1>5. \A w \in P : w <= d
  BY <1>1, <1>2, <1>3, <1>4 DEF Typed
<1>6. Bounded'
  BY <1>5 DEF Bounded
<1>7. latest' = IF P = {} THEN 0 ELSE CHOOSE m \in P : \A w \in P : w <= m
  BY <1>1 DEF Releases!LatestOf
<1>8. P # {} => \E m \in P : \A w \in P : w <= m
  BY <1>3, <1>5, GreatestExists
<1>9. P # {} => (CHOOSE m \in P : \A w \in P : w <= m) \in P
  BY <1>8
<1>. QED  BY <1>6, <1>7, <1>9

\* Only these routes change the package and its releases.
LEMMA PackageSteps ==
  ASSUME Typed, [Next]_vars, ~UNCHANGED <<package, releases>>
  PROVE  \E c \in Conn :
           \/ CreatePackageRoute(c) \/ SubmitRoute(c)
           \/ ApproveRoute(c) \/ RejectRoute(c) \/ YankRoute(c)
<1>1. ASSUME NEW c \in Conn, Step(c)
      PROVE  \/ CreatePackageRoute(c) \/ SubmitRoute(c) \/ ApproveRoute(c) \/ RejectRoute(c) \/ YankRoute(c)
             \/ UNCHANGED <<package, releases>>
  <2>1. CASE MemberStep(c)
    BY <2>1 DEF MemberStep, Enqueue, ListMembers, AssertSeats, AddMemberRoute,
         UpdateMemberRoleRoute, RemoveMemberRoute, RevokeForSubject, IssueRoute, RevokeRoute, domain
  <2>2. CASE GetPackage(c) \/ CheckEntitled(c) \/ UsageStep(c)
    BY <2>2 DEF GetPackage, CheckEntitled, UsageStep, GetUsedRelease, Consume, Record, domain
  <2>3. CASE ReleaseStep(c)
    BY <2>3 DEF ReleaseStep, StoreArtifact, GetRelease, GetPublicRelease, Fetch,
         GetComparedReleases, Compare, domain
  <2>. QED  BY <1>1, <2>1, <2>2, <2>3 DEF Step
<1>2. ASSUME NEW c \in Conn, NEW r \in Requests,
             AuthorizeHuman(c, r) \/ AuthorizeToken(c, r) \/ Admit(c, r)
      PROVE  UNCHANGED <<package, releases>>
  BY <1>2 DEF AuthorizeHuman, AuthorizeToken, Admit, Start, domain
<1>3. ASSUME NEW e \in Event, Webhook(e)
      PROVE  UNCHANGED <<package, releases>>
  BY <1>3 DEF Webhook, domain
<1>4. UNCHANGED vars => UNCHANGED <<package, releases>>
  BY DEF vars, domain
<1>. QED  BY <1>1, <1>2, <1>3, <1>4 DEF Next

LEMMA PackageNext ==
  ASSUME Typed, PackageTyped, [Next]_vars
  PROVE  PackageTyped'
<1>1. CASE UNCHANGED <<package, releases>>
  BY <1>1 DEF releases, PackageTyped, Bounded
<1>2. ASSUME NEW c \in Conn, CreatePackageRoute(c)
      PROVE  PackageTyped'
  <2>1. req[c].visibility \in {"public", "private"}
    BY <1>2, Sent, RequestShape DEF CreatePackageRoute, At
  <2>. QED  BY <1>2, <2>1 DEF CreatePackageRoute, CreatePackage, releases, PackageTyped, Bounded
<1>3. ASSUME NEW c \in Conn, SubmitRoute(c), ~UNCHANGED releases
      PROVE  PackageTyped'
  <2>. DEFINE r == req[c]
  <2>1. r.version \in Version /\ r.by \in User
    BY <1>3, Sent, RequestShape DEF SubmitRoute, At
  <2>2. /\ Releases!Enter(r.version, "pending") /\ submitter' = [submitter EXCEPT ![r.version] = r.by]
        /\ UNCHANGED <<approvals, package>>
    BY <1>3 DEF SubmitRoute, SubmitRelease, Releases!Submit
  <2>3. Bounded' /\ latest' \in Version \cup {0}
    BY <2>1, <2>2, EnterTyped DEF PackageTyped, Releases!State
  <2>. QED  BY <2>1, <2>2, <2>3 DEF PackageTyped
<1>4. ASSUME NEW c \in Conn, ApproveRoute(c) \/ RejectRoute(c) \/ YankRoute(c), ~UNCHANGED releases
      PROVE  PackageTyped'
  <2>. DEFINE r == req[c]
  <2>1. r.version \in Version /\ r.by \in User /\ UNCHANGED package
    BY <1>4, Sent, RequestShape DEF ApproveRoute, RejectRoute, YankRoute, At
  <2>2. PICK s \in Releases!State :
          /\ Releases!Enter(r.version, s) /\ UNCHANGED submitter
          /\ approvals' \in {approvals, [approvals EXCEPT ![r.version] = @ \cup {r.by}]}
    <3>1. CASE ApproveRoute(c)
      BY <1>4, <3>1 DEF ApproveRoute, ApproveRelease, Releases!Approve, Releases!State
    <3>2. CASE RejectRoute(c)
      BY <1>4, <3>2 DEF RejectRoute, RejectRelease, Releases!Reject, Releases!State
    <3>3. CASE YankRoute(c)
      BY <1>4, <3>3 DEF YankRoute, YankRelease, Releases!Yank, Releases!State
    <3>. QED  BY <1>4, <3>1, <3>2, <3>3
  <2>3. Bounded' /\ latest' \in Version \cup {0}
    BY <2>1, <2>2, EnterTyped DEF PackageTyped
  <2>. QED  BY <2>1, <2>2, <2>3 DEF PackageTyped
<1>5. ASSUME NEW c \in Conn, SubmitRoute(c) \/ ApproveRoute(c) \/ RejectRoute(c) \/ YankRoute(c)
      PROVE  UNCHANGED package
  BY <1>5 DEF SubmitRoute, ApproveRoute, RejectRoute, YankRoute
<1>. QED  BY <1>1, <1>2, <1>3, <1>4, <1>5, PackageSteps

LEMMA TokensNext ==
  ASSUME Typed, TokensTyped, [Next]_vars
  PROVE  TokensTyped'
<1>1. CASE UNCHANGED token
  BY <1>1 DEF TokensTyped
<1>2. ASSUME NEW c \in Conn, RevokeForSubject(c)
      PROVE  TokensTyped'
  BY <1>2 DEF RevokeForSubject, TokensTyped
<1>3. ASSUME NEW c \in Conn, IssueRoute(c)
      PROVE  TokensTyped'
  <2>1. req[c].by \in User
    BY <1>3, Sent, RequestShape DEF IssueRoute, At
  <2>. QED  BY <1>3, <2>1 DEF IssueRoute, TokensTyped
<1>4. ASSUME NEW c \in Conn, RevokeRoute(c)
      PROVE  TokensTyped'
  <2>1. req[c].token \in Token
    BY <1>4, Sent, RequestShape DEF RevokeRoute, At
  <2>. QED  BY <1>4, <2>1 DEF RevokeRoute, TokensTyped
<1>5. ASSUME NEW c \in Conn, Step(c)
      PROVE  RevokeForSubject(c) \/ IssueRoute(c) \/ RevokeRoute(c) \/ UNCHANGED token
  <2>1. CASE MemberStep(c)
    BY <2>1 DEF MemberStep, Enqueue, ListMembers, AssertSeats, AddMemberRoute,
         UpdateMemberRoleRoute, RemoveMemberRoute
  <2>2. CASE GetPackage(c) \/ CheckEntitled(c) \/ UsageStep(c)
    BY <2>2 DEF GetPackage, CheckEntitled, UsageStep, GetUsedRelease, Consume, Record
  <2>3. CASE ReleaseStep(c)
    BY <2>3 DEF ReleaseStep, CreatePackageRoute, SubmitRoute, StoreArtifact, ApproveRoute, RejectRoute,
         YankRoute, GetRelease, GetPublicRelease, Fetch, GetComparedReleases, Compare
  <2>. QED  BY <1>5, <2>1, <2>2, <2>3 DEF Step
<1>6. ASSUME NEW c \in Conn, NEW r \in Requests,
             AuthorizeHuman(c, r) \/ AuthorizeToken(c, r) \/ Admit(c, r)
      PROVE  UNCHANGED token
  BY <1>6 DEF AuthorizeHuman, AuthorizeToken, Admit, Start
<1>7. ASSUME NEW e \in Event, Webhook(e)
      PROVE  UNCHANGED token
  BY <1>7 DEF Webhook
<1>8. UNCHANGED vars => UNCHANGED token
  BY DEF vars
<1>. QED  BY <1>1, <1>2, <1>3, <1>4, <1>5, <1>6, <1>7, <1>8 DEF Next

LEMMA ActorsNext ==
  ASSUME Typed, SeatInv, ActorsTyped, [Next]_vars
  PROVE  ActorsTyped'
<1>1. ASSUME NEW c \in Conn, Going(c, Places)
      PROVE  ActorsTyped'
  BY <1>1 DEF Going, Goto, End, ActorsTyped
<1>2. ASSUME NEW c \in Conn, Step(c)
      PROVE  ActorsTyped'
  <2>1. Going(c, {"entitled", "act", "put", "fetch"}) \/ Going(c, {"list", "seats", "insert"})
        \/ Going(c, {"revoke"}) \/ Going(c, {"charge", "record"})
    BY <1>2, ReleaseSteps, LineSteps, RoleSteps, UsageSteps DEF Step
  <2>2. Going(c, Places)
    BY <2>1 DEF Going, Places
  <2>. QED  BY <1>1, <2>2
<1>3. ASSUME NEW c \in Conn, NEW r \in Requests,
             AuthorizeHuman(c, r) \/ AuthorizeToken(c, r) \/ Admit(c, r)
      PROVE  ActorsTyped'
  <2>1. AuthorizeHuman(c, r) => r.kind \notin {"public", "diff"}
    BY DEF AuthorizeHuman, Permission
  <2>2. AuthorizeHuman(c, r) => role[r.by] \in Role \cup {"none"}
    BY <2>1, RequestShape DEF SeatInv
  <2>3. PICK as \in Role \cup {"none", "service"} : Start(c, r, as)
    BY <1>3, <2>2 DEF AuthorizeHuman, AuthorizeToken, Admit
  <2>. QED  BY <2>3 DEF Start, ActorsTyped
<1>4. ASSUME NEW e \in Event, Webhook(e)
      PROVE  ActorsTyped'
  BY <1>4 DEF Webhook, ActorsTyped
<1>5. CASE UNCHANGED vars
  BY <1>5 DEF vars, ActorsTyped
<1>. QED  BY <1>2, <1>3, <1>4, <1>5 DEF Next

\* Leaving the line, a request makes nobody wait for itself.
LEMMA LineLeft ==
  ASSUME LineTyped, NEW c \in Conn, Release(c)
  PROVE  queued' \in Conn \cup {NoConn} /\ \A d \in Conn : behind'[d] # d
BY NothingAssumption DEF Release, LineTyped

LEMMA LineNext ==
  ASSUME Typed, SeatInv, LineTyped, [Next]_vars
  PROVE  LineTyped'
<1>. DEFINE N == Cardinality(User)
<1>0. N \in Nat /\ Cardinality(Members) \in 0 .. N
  BY Finite DEF Members
<1>1. ASSUME UNCHANGED waiting, \A c \in Conn : pc'[c] = "seats" => pc[c] = "seats"
      PROVE  LineTyped'
  BY <1>1 DEF LineTyped, waiting
<1>2. ASSUME NEW c \in Conn, Step(c), ~LineStep(c)
      PROVE  LineTyped'
  <2>1. /\ Going(c, {"entitled", "act", "put", "fetch", "revoke", "charge", "record"})
        /\ UNCHANGED waiting
    BY <1>2, ReleaseSteps, RoleSteps, UsageSteps DEF Step, Going
  <2>2. OnlyMoves(c) /\ pc'[c] # "seats"
    BY <2>1, GoingMoves DEF Places
  <2>. QED  BY <1>1, <2>1, <2>2 DEF OnlyMoves
<1>3. ASSUME NEW c \in Conn, Enqueue(c)
      PROVE  LineTyped'
  <2>1. OnlyMoves(c) /\ pc'[c] # "seats" /\ pc[c] = "enqueue" /\ UNCHANGED seats
    BY <1>3, GotoMoves, EndMoves DEF Enqueue, Places
  <2>2. queued # c
    <3>1. PICK s \in Seq(Conn) : LinedUp(s)
      BY DEF SeatInv
    <3>2. Len(s) # 0 => s[Len(s)] \in InLine
      BY <3>1 DEF LinedUp
    <3>. QED  BY <2>1, <3>1, <3>2, NothingAssumption DEF LinedUp, InLine
  <2>3. queued' \in Conn \cup {NoConn} /\ \A d \in Conn : behind'[d] # d
    BY <1>3, <2>2 DEF Enqueue, LineTyped, SeatInv
  <2>. QED  BY <2>1, <2>3 DEF LineTyped, OnlyMoves
<1>4. ASSUME NEW c \in Conn, ListMembers(c)
      PROVE  LineTyped'
  <2>1. pc[c] = "list"
    BY <1>4 DEF ListMembers
  <2>2. CASE Release(c) /\ End(c) /\ UNCHANGED seats
    BY <2>2, LineLeft, EndMoves DEF LineTyped, OnlyMoves
  <2>3. CASE /\ seats' = [seats EXCEPT ![c] = Cardinality(Members)]
             /\ Goto(c, IF req[c].user \in Members THEN "insert" ELSE "seats")
             /\ UNCHANGED <<queued, behind>>
    <3>1. OnlyMoves(c) /\ (pc'[c] = "seats" => req[c].user \notin Members)
      BY <2>3, GotoMoves DEF Places
    <3>2. req[c].user \in User
      BY <2>1, Added
    <3>3. req[c].user \notin Members => Cardinality(Members) < N
      <4>1. Members \cup {req[c].user} \in SUBSET User /\ IsFiniteSet(Members)
        BY <3>2, PeopleAssumption, FS_Subset DEF Members
      <4>2. req[c].user \notin Members => Cardinality(Members \cup {req[c].user}) = Cardinality(Members) + 1
        BY <4>1, FS_AddElement
      <4>3. Cardinality(Members \cup {req[c].user}) <= N
        BY <4>1, Finite
      <4>. QED  BY <1>0, <4>2, <4>3
    <3>4. seats' \in [Conn -> 0 .. N] /\ seats'[c] = Cardinality(Members)
          /\ \A d \in Conn \ {c} : seats'[d] = seats[d]
      BY <1>0, <2>3 DEF LineTyped
    <3>. QED  BY <2>3, <3>1, <3>3, <3>4 DEF LineTyped, OnlyMoves
  <2>. QED  BY <1>4, <2>2, <2>3 DEF ListMembers
<1>5. ASSUME NEW c \in Conn, AssertSeats(c)
      PROVE  LineTyped'
  <2>1. pc[c] = "seats" /\ seats[c] \in 0 .. N /\ seats[c] < N
    BY <1>5 DEF AssertSeats, LineTyped
  <2>2. seats' \in [Conn -> 0 .. N] /\ \A d \in Conn \ {c} : seats'[d] = seats[d]
    BY <1>0, <1>5, <2>1 DEF AssertSeats, LineTyped
  <2>3. OnlyMoves(c) /\ pc'[c] # "seats"
    BY <1>5, GotoMoves, EndMoves DEF AssertSeats, Places
  <2>4. queued' \in Conn \cup {NoConn} /\ \A d \in Conn : behind'[d] # d
    BY <1>5, LineLeft DEF AssertSeats, LineTyped
  <2>. QED  BY <2>2, <2>3, <2>4 DEF LineTyped, OnlyMoves
<1>6. ASSUME NEW c \in Conn, AddMemberRoute(c)
      PROVE  LineTyped'
  <2>1. OnlyMoves(c) /\ pc'[c] = "idle" /\ Release(c) /\ seats' = [seats EXCEPT ![c] = 0]
    BY <1>6, EndMoves DEF AddMemberRoute
  <2>2. seats' \in [Conn -> 0 .. N] /\ \A d \in Conn \ {c} : seats'[d] = seats[d]
    BY <1>0, <2>1 DEF LineTyped
  <2>. QED  BY <2>1, <2>2, LineLeft DEF LineTyped, OnlyMoves
<1>7. ASSUME NEW c \in Conn, NEW r \in Requests,
             AuthorizeHuman(c, r) \/ AuthorizeToken(c, r) \/ Admit(c, r)
      PROVE  LineTyped'
  <2>1. PICK as : Start(c, r, as)
    BY <1>7 DEF AuthorizeHuman, AuthorizeToken, Admit
  <2>2. OnlyMoves(c) /\ pc'[c] # "seats" /\ UNCHANGED waiting
    BY <2>1, StartMoves DEF Start
  <2>. QED  BY <1>1, <2>2 DEF OnlyMoves
<1>8. ASSUME NEW e \in Event, Webhook(e)
      PROVE  LineTyped'
  BY <1>1, <1>8 DEF Webhook
<1>9. CASE UNCHANGED vars
  BY <1>1, <1>9 DEF vars
<1>. QED  BY <1>2, <1>3, <1>4, <1>5, <1>6, <1>7, <1>8, <1>9 DEF Next, LineStep

LEMMA RestInit == Init => Rest
<1>. SUFFICES ASSUME Init PROVE Rest
  OBVIOUS
<1>1. PackageTyped
  BY DEF Init, CreateOrganization, Releases!Init, PackageTyped, Bounded
<1>2. TokensTyped /\ ActorsTyped
  BY DEF Init, Fresh, TokensTyped, ActorsTyped
<1>3. Cardinality(User) \in Nat
  BY Finite
<1>4. LineTyped
  BY <1>3, NothingAssumption DEF Init, Fresh, LineTyped
<1>. QED  BY <1>1, <1>2, <1>4 DEF Rest

\* For any traffic, the server's stores, its line and its requests stay
\* well-typed: every count of members fits, and nobody waits for itself.
THEOREM TypeCorrect == Spec => []TypeOK
<1>1. Init => Inv /\ UsageInv /\ SeatInv /\ Rest
  BY InvInit, UsageInit, SeatInit, RestInit
<1>2. Inv /\ UsageInv /\ SeatInv /\ Rest /\ [Next]_vars => (Inv /\ UsageInv /\ SeatInv /\ Rest)'
  BY InvNext, UsageNext, SeatNext, PackageNext, TokensNext, ActorsNext, LineNext DEF Inv, UsageInv, Rest
<1>3. Inv /\ UsageInv /\ SeatInv /\ Rest => TypeOK
  BY DEF Inv, Typed, ReleaseInv, UsageInv, Billed, SeatInv, Rest, PackageTyped, TokensTyped, LineTyped,
         ActorsTyped, TypeOK, DomainTypeOK, Releases!TypeOK, Places, Requests
<1>. QED  BY <1>1, <1>2, <1>3, PTL DEF Spec

=============================================================================
