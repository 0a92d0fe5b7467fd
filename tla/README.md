# PitLore in TLA+

Specifications of PitLore's stateful parts, TLC configurations that check them on
small instances, and proofs that TLAPS checks for every instance. Paths are
relative to the repository; `PROJECT.json` maps every definition to the lines it
stands for and lists runs, mutants, hazards, findings and theorems.

    tlc -workers 4 -config LessonStore.cfg MCLessonStore.tla
    for m in *Proofs.tla; do tlapm "$m"; done

## 1. The system

PitLore keeps *lessons* (what went wrong once and how to notice it) in a
directory of a project, shares them as *packs*, and publishes packs through a
*registry* with reviews, organizations and billing. There is no daemon on the
local side: every command and MCP server is a process of its own that works on
shared files. The registry is an HTTP service; any number of its processes share
one PostgreSQL database.

| Component (code) | State it keeps | Operations | What is hard | What makes it correct |
| --- | --- | --- | --- | --- |
| Local lesson store (`src/store.ts`) | lesson files, lock files | create, overwrite, approve, reject, deprecate, load | processes interleave; crashes leave locks; editors take no lock | life cycle of each lesson; decisions hold when written; no torn files; locks freed |
| Initialisation (`src/store.ts` `initLore`, `src/paths.ts`) | directories, starter lessons, manifest as commit marker | init | crash in the middle, two inits at once | a manifest implies a complete directory; init can be repeated |
| Candidate reviews (`src/review.ts`, `src/store.ts`) | one review file per candidate | packet, record, queue, readiness | a packet is built from several reads, shown, and built again when the review comes in | a review is of a candidate, catalog and fixtures that there were at one time |
| Evidence log (`src/evidence.ts`) | append-only JSON lines | record, load and coalesce, summarise | check and append without a lock, torn last line | each observation counts once, conflicts are reported |
| Packs, installing (`src/pack.ts`) | lockfile, cache, guard file | install, bundle install, uninstall, load | processes interleave; crash between cache and lock | what is locked is cached and its dependencies agree; no update lost |
| Pack format (`src/pack.ts`, `export.ts`, `public-export.ts`, `pack-semantic-diff.ts`) | none | verify, sign, export, diff | canonical form | pure functions |
| Release governance (`src/registry-domain.ts`) | members, packages, releases, approvals, audit | submit, approve, reject, yank, search | order of requests | two people beside the submitter publish |
| Registry on PostgreSQL (`src/registry-postgres.ts`, `registry-postgres-application.ts`, `migrations/`) | the same in tables, a discovery projection | the same as transactions | READ COMMITTED snapshots, row locks, deadlocks, triggers, roles that change, lost connections | equivalent to requests one at a time; audit agrees with tables; every request ends |
| Organizations (`registry-postgres-application.ts`) | memberships, owner | add, change, remove member | concurrent owners stepping down, seats | an owner remains; seats of the plan |
| API tokens (`registry-token-service.ts`, `registry-runtime.ts`) | token rows | issue, revoke, bootstrap | role changes while a token is issued | nobody keeps a token of a role that is gone |
| Billing and usage (`registry-postgres-telemetry.ts`, `registry-telemetry.ts`) | webhook events, subscription, reservations, usage | webhook, record usage, report | reordered and repeated events, month's end | newest event wins; quota kept; an event counts once |
| Browser login (`registry-browser-auth.ts`, `registry-oidc.ts`) | pending logins, sessions, JWKS cache | login, callback, session, logout, authenticate | state used across awaits, limits, lifetimes | a login opens one session, in its browser; roles are those of now |
| Identity provisioning (`registry-identity-service.ts`, `registry-auth.ts`) | users, external identities | provision, deprovision, authenticate | repeated provider calls | idempotent; a removed member is refused |
| Rate limiter (`registry-rate-limit.ts`) | token buckets in a capped table | check | eviction, clocks | no more than the capacity in a burst |
| Reindexing, migrations (`registry-discovery-reindex.ts`, `registry-postgres.ts`) | discovery rows, migration table | reindex, migrate | releases arriving behind the cursor; two servers starting | every release indexed; each migration once |
| Artifacts (`registry-artifact.ts`) | one object per release; exported files | put, get, export | stored after the release was submitted; two exports to one name | what a release names is there; a failed export leaves finished files alone, but in a window between two calls |
| Registry client (`registry-client.ts`) | event ids, cursors | download, install, revalidate, report usage, lists | answers lost before or after the effect; pages while others write | an event counts once; what is reported current was current; a walk is whole |
| HTTP server (`registry-server.ts`, `registry-web.ts`, `registry-protocol.ts`, `registry-port.ts`) | the queue for member changes | routes over the in-memory services | requests change places at every await | what a route checked before an await governs what it does after it |
| Lists and search (`registry-domain.ts`, `registry-postgres.ts`, `registry-search.ts`, `migrations/008`) | none | pages with cursors | two repositories with orders of their own, one of them a collation | both answer with the same pages, as far as the collation allows |
| Web console (`web/app.js`) | lists, selection, session of a tab | search, select, compare, connect, review, sign out | answers come in any order | what is shown is what was asked for, for the present identity |
| Check, retrieve, distill, signal (`check.ts`, `retrieve.ts`, `distill.ts`, `signal.ts`) | none | match, rank, generate | — | pure functions |
| CLI, MCP (`cli.ts`, `mcp-server.ts`, `mcp-runtime.ts`), schemas (`schema.ts`) | none | — | — | — |

How they interact: the CLI and MCP server call the lesson store and the pack
installer in their own process; approving reads reviews and fixtures from the
same directory; loading merges local lessons with the packs of the lockfile. The
registry client fetches a pack and hands it to the pack installer. In the
registry, the HTTP server calls the application services; each request is one
transaction, and the services meet only in the database: membership decides who
may decide on releases and hold tokens, the subscription bounds members and
usage, and every change appends audit events in the same transaction. Without a
database the server runs over in-memory services in one process, whose steps are
separated by awaits instead of transactions. The web console and the client are
its callers.

## 2. Modules

| Module | Models | Extends / uses |
| --- | --- | --- |
| `LessonLifecycle` | what the lesson store promises, each operation in one step | — |
| `LessonStore` | lock files, temporary files, link and rename; crashes, failing system calls, editors, operator | `LessonLifecycle` by `INSTANCE` |
| `LessonStoreProofs` | theorems about `LessonStore` | `LessonStore`, `TLAPS` |
| `ReleaseGovernance` | the releases of one package, each request in one step (the in-memory registry) | — |
| `ReleaseStore` | the same requests as PostgreSQL transactions, statement by statement | `ReleaseGovernance` by `INSTANCE ... WITH` |
| `ReleaseStoreProofs` | theorems about `ReleaseStore` | `ReleaseStore`, `TLAPS` |
| `PackInstall` | guard file, lockfile, cache and bundles | — |
| `PackInstallProofs` | theorems about `PackInstall` | `PackInstall`, `TLAPS` |
| `Organization` | one organization's members, tokens, billing events and usage | — |
| `OrganizationProofs` | theorems about `Organization` | `Organization`, `TLAPS` |
| `RegistryDomain` | members, package, releases and artifacts in memory, each operation whole | `ReleaseGovernance` by `INSTANCE` |
| `RegistryServer` | the routes as requests that change places at their awaits; tokens, plans, quota, usage | `RegistryDomain` |
| `RegistryServerProofs` | theorems about `RegistryServer` | `RegistryServer`, `TLAPS` |
| `BrowserLogin` | logins, callbacks, sessions and logouts | — |
| `RateLimiter` | token buckets | — |
| `Paging` | orders, filters, cursors and pages of both repositories, and a client's walk | — |
| `RegistryClient` | commands against a registry whose answers are lost; exported files | — |
| `LoreDirectory` | initialisation, evidence ledger, candidate reviews | — |
| `Maintenance` | migrations and reindexing | — |
| `Console` | one tab of the web console | — |
| `MCEdge` | the seven components above from `BrowserLogin` on, one of them per behaviour | `Paging`; the others by `INSTANCE` |
| `EdgeServerProofs` | theorems about `BrowserLogin`, `RateLimiter`, `Maintenance` and `Paging` as parts of `MCEdge`, and lemmas about orders | `MCEdge`, `TLAPS` |
| `EdgeClientProofs` | theorems about `LoreDirectory`, `RegistryClient` and `Console` as parts of `MCEdge` | `MCEdge`, `TLAPS` |
| `EdgeProofs` | the types and bounds of all parts of `MCEdge` | `EdgeServerProofs`, `EdgeClientProofs` |
| other `MC...` | instances for TLC | the module of that name |

An operator that stands right before another one and is a variation of its name
(`OpenLockUnlessPidKnown` before `OpenLock`) is a plausible mistake in the code
it stands for; no specification uses it. `PROJECT.json` pairs each property with
such a mistake that TLC finds through the property.

### LessonStore

`file[l]` is the lesson file under its final name; `fixtures[l]` the block bodies
that the present fixture files accept; `lock[l]` whose inode the lock file is;
`pidKnown[l]` whether its pid has been written. The rest belongs to a process:
where it is (`pc`), its operation (`op`), what it loaded (`seen`), its temporary
file (`tmp`) and the outcome (`res`).

| Action | Code |
| --- | --- |
| `OpenLock`, `RecordPid`, `CheckLock`, `Unlock` | `withLessonWriteLock`, `openLessonWriteLock` |
| `Load` | `loadStore`, `getLesson` and the status checks of `putLesson`, `approveLesson`, `rejectLesson`, `deprecateLesson` |
| `Vet` | `assertLessonDetectorConfiguration`, `assertBlockLessonFixtures` |
| `OpenTemp`, `FillTemp`, `Link`, `UnlinkTemp`, `Rename`, `SyncDirectory`, `Fail` | `writeFileAtomically`, `syncDirectory` |
| `Crash`, `OperatorUnlock`, `EditCandidate`, `EditFixtures` | outside the code |

The cleanup is two system calls, and so two actions: `CheckLock` is the lstat that
compares the inode, `Unlock` the unlink, which removes whatever file has the name by
then. A lock that is replaced before the first stays, as tests/reject.test.ts:580 has
it; one that is replaced between the two goes. The operator that README.md:504-506
describes never makes that happen (`Careful`), a careless one can: `OnlyOwnerUnlocks`
tells the two apart. Its run has a careless operator, its theorem either.

A lesson body is one of three values: fit, unfit (its detector is refused), and
blocking (fit as far as its fixtures agree). `Init` allows any lessons that
`initLore` copies into a new directory: approved starter lessons, none of them
unfit. Left out, because no property can
tell: an attempt on a locked lesson fails at once and changes nothing; a crash
leaves its temporary file under a random name that readers ignore; a lock file
that cannot be removed, which the caller is told. Also left out: the checks that
directories and files keep their identity while they are used, and editors that
change a lesson that is not a candidate: the store reads such a file as it is,
and no operation of it promises anything about who wrote it.

### ReleaseStore

A step is one SQL statement. What a transaction writes is kept in `outcome` and
`selected` until `Commit` makes it visible at once; `held` are its row locks.
`LockRelease` and `LockPackage` are the two locks that one statement takes one
after the other (the join of `approveRelease` and `yankRelease` with `FOR
UPDATE`; the unique index and the foreign key of an insert). After waiting, the
row is checked as it is then, as READ COMMITTED does. `ValidateSelect` and
`ValidateCompare` are the two queries of the deferred trigger of migration 009,
each with its own snapshot; `DecisionSound` and the `sound` of `Update` are the
triggers of migration 007. `reviewers` are the members with a role that may decide,
which other transactions change (`ChangeRole`): `CheckMember` is `getMember`, and the
trigger behind `Decide` reads the role again, so it may turn down what `CheckMember`
let through. Nothing in `src/` suspends a user, so users are active. Whether an author
may submit is left open (`Refuse`).

`#refreshPackageDiscoveryProjection` is a select (`Project`) and an update (`Point`),
both under the lock of the package. When the update points to another release than
before, the foreign key of migrations/009:61-65 locks that release `FOR KEY SHARE`
(`Moves`, `"latest"` in `held`), and waits for whoever has it `FOR UPDATE`. That one
may be waiting for the package: then `Deadlocked` holds, PostgreSQL aborts one of the
two (`Abort`), and the registry does not try the request again. Two requests suffice
for every cycle, because a transaction that waits while it has something waits for the
package, or for a key with the package in its hands.

`Triggers = FALSE` is a database without the triggers: the service has to be
right without them. The refinement maps `approvals` to the rows whose decision is
"approved" and `latest` to the projection. Only one package is modelled: rows of
different packages are never locked or read by the same request.

### PackInstall

`lockfile` is the file's content with its roots and, for each package, the pack
and the versions its dependencies were pinned to. A pack names the versions it
accepts by a set instead of a range. `IsBundle` is what `verifyAirgapPackBundle`
accepts. `InstallOne` is one turn of the installation loop, whose order
(dependencies first) `NextPack` leaves open as far as the code's search does.
`Fail` is any error, `Crash` a killed process; `OperatorUnlock` removes the guard
of a dead process only. The guard is checked before the temporary file is written
and again before the rename (`WriteTemporary`, `Recheck`); between `Recheck` and
`Rename` an operator who is *not* careful could still let a second process in.
The program does not promise anything for that case. Signatures, provenance and
Git sources do not influence the lock's consistency and are left out.

### Organization

One variable per table: `role` (memberships), `owner`, `tokens`, `subscription`,
`received`, `reserved`, `recorded`. All requests but one start by locking the
organization's row (`Begin`); a request that waits has done nothing, except that
`recordWithQuota` has looked at the clock, which is why its request carries the
month. Then a `Decide...` action reads and a `Commit...` action makes the changes
visible. `bootstrap-token` takes no such lock: it decides, selects the
membership (`InsertBootstrap`), and waits at the foreign key (`CommitBootstrap`).
"viewer" stands for publishers as well. Billing events are records of an id, a
time and a plan. Left out: other organizations (an event id that arrives for two
of them is refused), tokens' expiry and scopes, statistics of downloads, whose
ids are random.

### RegistryServer

One Node process serves every request: what a route does between two awaits is one
step, and `pc` names the next one. A request is authorized once, with a human's
role or with a token (`AuthorizeHuman`, `AuthorizeToken`); `actor` keeps what was
found. `RegistryDomain` has the service behind it: `May...` is what an operation
demands of the actor's membership at that moment, and the operation of that name
its effect. `Enqueue`, `ListMembers`, `AssertSeats`, `AddMemberRoute` are the route
for members with its queue (`memberMutationLocks`); `SubmitRoute` and
`StoreArtifact` a submission and, after awaits, its artifact; `Consume` and
`Record` a usage event. A request that is turned down ends there; its error is not
told apart. `MCRegistryServer` starts each kind of traffic from what an earlier
part of a server's life leaves behind.

### BrowserLogin

`pending` and `sessions` are the two stores, whose ids are given in order, so that
the oldest entry has the lowest one (`Newest`); `jar` what the browsers
have as cookies, which an answer changes when it is sent. The random values of one
login (state, nonces, code verifier) are one number, and so are a session's id and
its CSRF token; nothing here could guess either. The provider may answer with a
token of any person and any login (`Exchange`); `Verify` compares its nonce. `Unknown`
is the path of a person who is no member: a callback ends, a session is deleted
after another await (`Forget`). `ChangePerson` is any other part of the registry.

### RateLimiter

`buckets` is the table in its order, the least recently seen client first; `Without`
deletes the entry that `Keep` inserts again at the end. Tokens are counted in parts
so that refilling is a sum of integers. `granted`,
`credit` and `promise` belong to the properties. The clock can be set back
(`SetBack`), and a client that is forgotten starts again with a full bucket, which
the code accepts: the allowance is stated for clients that stay tracked.

### Paging

`NewerFirst` is the order of the program, `SortsFirst` that of the keys of migration
008: texts are sequences of codes, `12` stands for a letter. `MemoryPage` filters,
sorts and cuts; `SqlPage` and `LateralPage` are the queries. Names and ids are compared
by code units in memory, where they are numbers in that order, and by the collation of
the database in SQL (`WordFollows`): `user_id`, `name` and `id` are columns without a
`COLLATE`. The Alpine image of the Compose file compares bytes, but the migrations do
not require that, and other databases may be used; the instance has the names "a",
"a-c" and "ab" with a collation that ignores the hyphen. So both repositories have the
same pages where no names are compared (audit events, the releases of a package), and
elsewhere as far as the collation agrees with the code units (`CollatedAsCoded`);
without that condition TLC finds pages that differ. A walk is whole in either order. A
cursor is bound to
what it was made for (`Decodes`). A walk goes on while rows are inserted, published
and removed; `steady` keeps what a scope has shown ever since the walk began.

### RegistryClient

A request is served between being sent and being answered, and either half can be
lost, so a report may have been counted without an answer; a repeat sends the same
id. `MatchesLock` is the comparison of a revalidation. An export writes its file
under its final name. A failed one inspects that name (`WriteFails`, where `RemovesOwn`
compares the inode) and then unlinks it (`RemoveFile`), whatever file has it by then:
somebody may have taken its own (`TakeFile`) and another export created a new one, which
is lost. `exported` are the files that are owed to their commands: those that were
completed while nobody was between the two (`Unlinking`).

### LoreDirectory

The contents of the candidate, the catalog and the fixtures are numbers that only
grow: an edit that brings an earlier content back, and with it the earlier hash,
is left out, since a review of it would be a review of it. A line of the ledger may
be written in two parts. `raced` says that two recordings with different evidence
for one observation overlapped: both pass the check and the ledger is unreadable
from then on; so it is after a crash in the middle of a line. The code refuses such
a ledger as a whole, and `EvidenceKept` promises nothing then.

### Maintenance

A version of the program is its set of migrations, names with checksums; the schema
is the sequence of what was executed. Each file and its entry in the history are one
transaction, the advisory lock is freed when its session ends. A reindexing goes in
passes of batches, the first releases after a cursor, and takes their rows in order:
"complete" means that nothing was missing when it looked last, and `looked` remembers what there was. An older server may still submit releases
without a discovery row.

### Console

Each click sends requests with an id of its list; `flight` are those that are not
answered, in any order or with an error. `Current` is the comparison with the id
that the list has now. A page says which names it lists and where the next one
begins. Bearers are typed in; the browser's session is one more identity, whose
cookie does not change in another tab. `pagehide` forgets the bearer and leaves what
is shown: a page that the browser brings back shows it until it reads again, and
`ShownAsAsked` allows for that (`hidden`). Left out: the release record, which
`inspectRelease` (`web/app.js:1287`) shows without comparing a request id, so that a
late answer replaces the record asked for last.

## 3. Runs

| Run | Instance | What it shows |
| --- | --- | --- |
| `LessonStore` | 2 processes, 2 lessons, 2 bodies, 617 681 states | `OneWriterDecides`, `LessonsSound`, `OkMeansDone`, and that the store implements `LessonLifecycle` |
| `LessonStoreLive` | 2 processes, 1 lesson, 2 bodies, `Careful = FALSE`, fairness, 793 260 states | `OnlyOwnerUnlocks`: a cleanup leaves the lock of the next owner alone, but for one that is created between its two calls; `LockIsFreed`, also if the operator removes locks of live processes |
| `LessonStorePid` | 2 processes, 1 lesson | *violated*: a lock may name nobody (finding) |
| `ReleaseStore` | 2 connections, 2 versions, 3 people who lose and gain their roles, triggers, 620 958 states | `AuditAgrees`, `TriggersAgree`, `OnlyYanksDeadlock`, and that the transactions implement `ReleaseGovernance` |
| `ReleaseStoreLive` | 2 versions, the second one yanked at the beginning or both published, no triggers, fairness, 76 526 states | `FourEyes` by the row locks alone; `EveryRequestEnds`: no request waits for ever, also where yanks deadlock |
| `ReleaseStoreStale` | 2 versions, triggers | *violated*: the trigger can refuse a rejection although the projection is current (finding) |
| `PackInstall` | 2 processes, 3 names, 5 packs, 401 778 states | `RequirementsMet`, `LockedIsCached`, `NoLostUpdate`, `SameVersionSameContent` |
| `PackInstallBundle` | the same | *violated*: a bundle's root cannot be uninstalled (finding) |
| `Organization` | 2 connections, 2 people, 3 billing events, 2 usage events, 2 months, 643 636 states | `OwnerKept`, `TokensOfManagers`, `PlanFollowsNewest`, `LimitsKept` (seats and quota), `UsageCountsOnce` |
| `OrganizationBootstrap` | the same | *violated*: a token for somebody who is no longer the owner (finding) |
| `RegistryServer` | 2 requests, 3 people, three kinds of traffic, 610 073 states | `SeatsKept`, `ServedIsApproved`, `ReleaseBacked`, `UsageIsPaid`, `RoleStillHeld` |
| `Edge` | seven components, see below, 821 543 states | one property or two for each |

The run named after its module also checks the type invariant, `TypeOK`; that of
`Edge` is the one of whichever component is on. A property whose name is not in the
text above is a conjunction of the parts that its module defines next to it.

`Edge` is a disjoint union: `part` is chosen at the beginning and the variables of
the other components are off. The components share no state, so a product of them
would only multiply the states; one run of the union asks the same questions.

| Part | Instance | Properties |
| --- | --- | --- |
| browsers | 2 browsers, 1 person, 2 requests, 2 logins, 2 instants; stores of one entry, a login of lifetime 0, a session of lifetime 1 | `SessionsSound`: a login opens one session, and a request has a role of now |
| limiter | 2 clients, a table of 1, bucket of 2, 7 instants, the clock set back once | `AllowanceKept`: no more than the bucket and what time gave; whoever waits as long as it was told is let in |
| pages | 54 versions for the orders (numbers of one and two digits, letters, prereleases, builds); seven lists with 3 to 6 rows, pages of 1 and 2, a collation that ignores hyphens | `PagesOfBothAgree`, `WalksAreWhole` |
| clients | 2 commands, 2 packs, 2 contents, 1 usage event, 2 files | `ResultsHold`: reports count once, revalidations and exports are so |
| lore | 2 processes, 2 seeds, 1 observation, 2 contents each, 3 writes | `LoreKept`: the manifest implies the seeds, the ledger has what was recorded, a review is of one time |
| operators | 2 operators, 3 versions of the program, 3 releases, batches of 2, at most 4 | `MaintenanceSound`: each migration once and in order, privileges of what is applied, complete means complete |
| tab | 2 queries, a bearer and a session, 2 names, 2 pages, 4 clicks in the catalog or 2 in the workspace | `ShownAsAsked` |

The state spaces of the stores of lessons, releases, packs and organizations are
finite because the sets of lessons, versions, packs, people and events are. Counters
of `Edge` have named bounds in the guards of their modules (`Logins`, `MaxTime`,
`LastTick`, `Setbacks`, `MaxEvents`, `MaxFiles`, `MaxContent`, `MaxLines`,
`MaxPages`, `MaxClicks`). The bounds are chosen so that the cases that matter occur:

- Two processes or connections: every rule here is about what one does between
  two steps of another; a third adds waiting, no new pair of steps. Two lessons
  let an operation on one of them run through while another is locked.
- Three people: a submitter and exactly the two reviewers that a publication
  needs, so the second approval and a rejection can overlap. Two versions make
  the latest release change by publishing and by yanking. Roles change only while
  nobody has touched the second release (`RolesSettled`): what happens to a role is
  about the requests of one release. For liveness, requests leave the yanked release
  alone where the other one is new (`PastSettled`); this keeps requests from coming,
  which nobody counts on, and no step of one that has come.
- The packs are a library in two versions, the first also with altered content,
  an application that accepts either, and a tool that needs the first: upgrades,
  conflicting requirements, bundles of two, and a same version with other content
  occur.
- Plan "free" has one seat and one event a month, "team" two of each; of the
  three billing events two have the same time and two the same id; keys are sent
  in two months. In `RegistryServer`, plans go up and down while two requests are
  between their awaits.
- Stores of one entry and tables of one client: eviction happens at once. Times to
  live of zero and one: a login and a session expire between any two steps.
- One program version that appends to another, one that has a file before the
  other's last, and one with another checksum: the three refusals occur.
- Two contents of everything that is compared by a hash; an edit between any two
  reads.

Symmetry is used for processes, connections, people, lessons and browsers, which the
modules only compare for equality; never in the runs of liveness properties.

### Fairness

`LessonStore`: each step of a process that holds a lock is synchronous code that
waits for nothing, so the process takes it unless it dies (`WF` of `Step`). That
an operator clears up after crashes is the recovery README.md:504-506 prescribes;
without it `LockIsFreed` is false, as the code intends ("fail-closed"). Nothing
is assumed of authors, of new operations, of crashes, or of an operator who removes
the lock of a live process: nobody counts on that.

`ReleaseStore`: the service sends the next statement when the last one is
answered and PostgreSQL executes it (`WF` of `Step`). A transaction that waits for
a row is in PostgreSQL's queue for it, which serves waiters in their turn: strong
fairness of the three locking steps. A deadlock is detected (`Abort` is a `Step`);
which of the two is aborted is left open. Requests need not arrive and connections may be
lost at any time.

### Findings

Each is a run of its own that TLC finds violated; `PROJECT.json` quotes the lines.

1. `LessonStorePid` — the lock is created before its pid is written, so the lock
   of a process that died in between holds no pid to inspect.
2. `ReleaseStoreStale` — the deferred trigger of a rejection reads the package and
   its releases in two snapshots without a lock on the package and can report a
   stale projection that is not. The rejection is rolled back and can be repeated.
3. `PackInstallBundle` — uninstalling validates what remains, and a package that no
   root reaches is invalid: the root of a bundle, which nobody needs, stays.
4. `OrganizationBootstrap` — the owner is checked without the organization's lock,
   so a token can be committed after another transaction changed the owner.

That yanks can deadlock, that a trigger can turn down a reviewer who has just lost the
role, that pages depend on the collation, and that a failed export or the cleanup of a
lock can remove a file that came between its two calls contradicts nothing that the
repository says: the properties state what holds beside it.

## 4. Proofs

`LessonStoreProofs` proves, for any sets of processes, lessons and bodies and a
careful operator (`Careful`; the last one for any operator), with the assumptions that
`LessonStore` names (`BodyAssumption`, `FreeAssumption`, `CarefulAssumption`):

| Theorem | States |
| --- | --- |
| `TypeCorrect` | `[](TypeOK /\ NoTornLesson)` |
| `LockExcludes`, `DecisionsHold` | `[]MutualExclusion`, `[]DecisionStillHolds` |
| `LockProtectsDecisions` | `[]OneWriterDecides`, the conjunction of the two |
| `OnlyFitApproved`, `LessonsStaySound` | `[]ApprovedIsFit`, `[]LessonsSound` |
| `SuccessIsReal` | `[]OkMeansDone` |
| `StoreImplementsLifecycle` | `Spec => ImplementsLifecycle` |
| `OthersLocksStay` | `Spec => OnlyOwnerUnlocks` |

None of the invariants is inductive alone. `MutualExclusion` needs `HoldsLock`
(a process in the middle of an operation is the one its lesson's lock names: only
it removes that file, and a careful operator waits until it is gone).
`DecisionStillHolds` needs in addition that what was seen permits the operation
(`Decided`): then a process that renames a file changes the status only of a
lesson that nobody else is at, and editors keep the status. `ApprovedIsFit` needs
`Prepared`: a complete temporary file holds what the operation writes, and for an
approval that is the body that was *loaded and vetted*, not the one on disk.
`OkMeansDone` needs `Done`: a process with its lesson in place still finds it in
its target status. `IInv` is the conjunction; there is one lemma per conjunct, and
under it one step per action that can disturb it. The refinement follows from
`IInv`: `Link` and `Rename` are the only steps that change a lesson file, and each
maps to the life cycle's step of the operation's kind; editors map to `Edit`;
everything else stutters. `OthersLocksStay` needs only that lock files name processes
(`LocksNamed`) for what it says of any operator; that between the inspection and the
unlink the lock is still the same with a careful one is `HoldsLock`.

`ReleaseStoreProofs` proves, for any connections, versions and people and with or
without the triggers, from the assumptions that `ReleaseStore` names
(`VersionAssumption`: versions are positive numbers; `NoUserAssumption`;
`TriggersAssumption`; `MinReviewersAssumption`: the bound on the changes of roles is a
number, and may be zero):

| Theorem | States |
| --- | --- |
| `TypeCorrect` | `[]TypeOK` |
| `TwoPeopleApprove`, `SecondApprovalPublishes` | `[]TwoPersonRule`, `[]NoApprovedPending` |
| `FourEyesHold` | `[]FourEyes`, the conjunction of the two |
| `TriggersAgreeButForRoles` | `Spec => TriggersAgree` |
| `DeadlocksCostYanks` | `[]OnlyYanksDeadlock` |
| `LogTellsTheTables` | `[]AuditAgrees` |
| `StoreImplementsGovernance` | `Spec => ImplementsGovernance` |

The tables alone are not inductive: a commit writes what its transaction decided
several statements before. The invariant follows the locks. `Holds` says which
rows a transaction has locked at each statement, `Exclusive` that nobody else
has them in a way that conflicts. So what was `Checked` under the lock of the
release (its status and submitter, the number of approvals with the new one)
still holds at the commit, and what was `Selected` or compared under the lock of
the package is still the latest published release: the only requests that commit
meanwhile are submissions and rejections, which publish and yank nothing
(`PackageGuardsPublished`). `ReleaseInv` and `Projected` are what a commit then
finds in the tables and leaves there; `Bounded` says that finitely many versions
are published, without which there need not be a latest one. `TriggersAgree` is a
by-product: a transaction with these facts passes each trigger, unless the role of its
reviewer is gone, which no lock protects, or it is a rejection, which holds no lock of
the package. `DeadlocksCostYanks` follows from what is selected under that lock: a
publication points to its own release or leaves the projection alone, so only a yank
waits for the key of another release (`OnlyYanksWaitForKeys`), and that release is
published, so whoever has it and waits for the package is a yank or comes too late.
`AuditAgrees` needs one more fact,
`Logged`: of each release the log has exactly the people of its rows, one who
published it and one who yanked it (`LogInv`). It is inductive beside `IInv`, because
what a commit adds to the log (`Adds`) is what it adds to the tables, under the same
locks. In the refinement a commit maps to
the request of its transaction and every other step to a stutter.

`RegistryServerProofs` proves, for any number of requests in flight, any people,
versions, usage events and billing events, from the assumptions that
`RegistryServer` and `RegistryDomain` name (`TrafficAssumption`: a request names a
release, an event, a token or a member that there can be, and all but the public ones
are somebody's; `VersionAssumption`: versions are positive numbers; `PlansAssumption`: a plan has at least one seat, and limits that are
numbers, so that an unlimited plan is one with numbers that nobody reaches;
`PeopleAssumption` and `MonthsAssumption`: people and usage events are finitely
many; `NothingAssumption`):

| Theorem | States |
| --- | --- |
| `TypeCorrect` | `[]TypeOK` |
| `ReleasesAreBacked`, `DownloadsAreApproved` | `[]ReleaseBacked`, `[]ServedIsApproved` |
| `RecordedUsageIsPaid` | `[]UsageIsPaid` |
| `SeatsAreKept` | `[]SeatsKept` |
| `ChangesNeedARole` | `Spec => RoleStillHeld` |

Here there are no locks for most of it: what a request found before an await has to
be a fact that no other request can undo. `ReleaseInv` has those facts. A published
release is never absent or pending again (`Found`), the content of a release that
was submitted never changes (`Submitted`), so the artifact store has nothing but
what was submitted (`Stored`). For usage, an event that goes on to the ledger has
been charged for good (`Charging`). The seats do need the queue: `LinedUp(s)` says
that the additions in the route stand in one line `s`, each behind the one before
it, the lock's `queued` being the last. Only the first counts (`First`,
`CountedIsFirst`), and what it counted can only become less before it adds
(`Counted`), because removals are not in the line but never add anybody. The line is
a sequence that the invariant only claims to exist: coming is `Append`, leaving is
`Tail`, and no chain of waits has to be followed by induction.

`TypeCorrect` needs facts of its own (`Rest`): that the latest release is a version
or 0 needs that finitely many are published (`Bounded`), and that a count of members
stays below the number of people until somebody is added, who is not a member yet
(`LineTyped`).

`OrganizationProofs` proves, for any connections, people, plans, billing and usage
events, from the assumptions that `Organization` names (`PlanAssumption`: there is a
free plan and limits are numbers; `EventAssumption` and `PeriodAssumption`: times, ids
and months are numbers; `NoneAssumption`: the values for "nobody" and "nothing" are
nobody and nothing; `FiniteAssumption`: people and usage events are finitely many):

| Theorem | States |
| --- | --- |
| `TypeCorrect` | `[]TypeOK` |
| `OwnerIsKept`, `TokensFollowRoles` | `[]OwnerKept`, `[]TokensOfManagers` |
| `PlanIsNewest` | `[]PlanFollowsNewest` |
| `SeatsAreKept`, `QuotaIsKept` | `Spec => SeatsKept`, `Spec => QuotaKept` |
| `LimitsAreKept` | `Spec => LimitsKept`, the conjunction of the two |
| `UsageIsCountedOnce` | `Spec => UsageCountsOnce` |

A commit does what was decided a statement earlier, so the invariant says that it can
still be done. `RowHeld`: whoever is in a transaction has the organization's row, but
`bootstrap-token`. So nobody else changes members, plan and usage between a decision
and its commit, and what the decision found (`AgreedMember`, `AgreedWebhook`,
`AgreedUsage`) still holds. `bootstrap-token` commits without the row, and the proof
shows that this breaks nothing but the property of the finding: it only adds a token,
one that is told apart from those issued to managers. The two limits are action
properties: a step adds one member or charges one event at most (`SeatStep`,
`ReservationStep`), and only within the plan of that moment; `RecordedOnce` ties what
is charged to what is recorded, so that an event that is sent again is not charged.

`PackInstallProofs` proves, for any processes and packs, from `ArtifactAssumption`
(names and versions are what manifests may have, and no pack needs itself) and
`FreeAssumption`:

| Theorem | States |
| --- | --- |
| `TypeCorrect` | `[]TypeOK` |
| `RequirementsAreMet`, `LockedAreCached` | `[]RequirementsMet`, `[]LockedIsCached` |
| `NoUpdateIsLost` | `Spec => NoLostUpdate` |
| `ContentIsKept` | `Spec => SameVersionSameContent` |

`GuardHeld` is the exclusion: whoever has read the lockfile and not yet replaced it
has the guard, also after crashes, because an operator removes the guard of a dead
process only. `WorkSound(p)` describes the lock that `p` computes: it differs from the
one on disk by the packs that are done (`DiffersBy`), keeps the content of every
version (`SameContent`), has all its packs in the cache (`InCache`: the cache is
written first and never shrinks), and is pinned to versions that manifests accept
(`PinsAccepted`). `RequirementsMet` is not inductive without the pins: `ValidGraph`
checks the locked versions against the pins, and only the installation loop compares
pins with manifests.

`EdgeServerProofs`, `EdgeClientProofs` and `EdgeProofs` are about `EdgeSpec`, whose behaviours are
those of one component each; the other variables are off, and a step of a component
has nothing to do but keep that component's invariant.

| Theorem | States | Invariant |
| --- | --- | --- |
| `SessionsAreSound` | `[]SessionsSound` | `BrowserInv` |
| `AllowanceIsKept` | `[]AllowanceKept` | `LimiterInv` |
| `MaintenanceIsSound` | `[]MaintenanceSound` | `OperatorInv` |
| `PagesAreAlike`, `WalksMissNothing` | `[]PagesOfBothAgree`, `[]WalksAreWhole` | `WalkInv` |
| `LoreIsKept` | `[]LoreKept` | `LoreInv` |
| `ResultsAreSo` | `[]ResultsHold` | `ClientInv` |
| `TabShowsWhatItAsked` | `[]ShownAsAsked` | `TabInv` |
| `EdgeTypesHold` | `[]TypeOK` | all of them, `BrowserBounds`, `LimiterBounds`, `ClientBounds` |

`MCEdge` names what they assume. `BrowserAssumption`: a person who changes is a member
with a role or none. `LimiterAssumption`: what the limiter's constructor demands.
`OperatorAssumption`: migrations and releases are numbered. `LoreAssumption`: a lesson
has a first content. `WorkloadAssumption`: a pack has one too, and a workload is of
commands and packs that there are. `TabAssumption`: a page has at least one entry and a list finitely many,
and clicks can be counted. `Paging` names three more. `VersionAssumption`: the versions
that are compared are strict ones, as `migrations/008` and the program's parser demand:
three numbers that the key has room for, no leading zeros, no empty identifier (codes,
digits and the width may be any). `ListAssumption`: a page has at least one entry, and
rows have a key of their list's kind. `CollationAssumption`: the database's collation is
a total order that tells any two names apart. Of the bounds (`Logins`, `LastTick`,
`MaxEvents`, ...) it is only assumed that they are natural numbers: the theorems hold for
every value of them, and so without them.

- `BrowserInv`: a login is at one place at a time. It waits (`pending`), or one
  callback redeems it (`RedemptionSound`: it is taken from the store before the first
  await, so no other callback has it and no session was opened for it), or it has
  opened a session, where it was begun (`LoginsSound`). A callback gets that far only
  with the cookie of its login, which only the browser that began it has. The sizes
  and lifetimes of the stores do not matter: pruning only takes logins away.
  `RequestSound` follows a request of a session: the role of its person, whoever
  changes it, is among those that were seen `since` it began, so the actor's role is.
- `LimiterInv` keeps an account of each bucket (`BucketSound`): what was granted, what
  is in the bucket and what the time since its last request will give are together no
  more than a full bucket and what the clock gained. Setting the clock back makes the
  elapsed time less, never the account more. `WithoutBucket` says that deleting and
  inserting an entry keeps the table's keys unique; eviction forgets the account with
  the bucket. The second conjunct is the promise: by the time that a refused client
  was told there is a token in its bucket, which needs that the wait is rounded up.
- `OperatorInv`: whoever is between the lock and its release is the `locker`
  (`LockSound`), so from reading the history to a commit nobody else applies anything
  and the files still fit it (`Continues`): what is applied has a file, the other files
  come after it. So the next one comes after everything applied and the history
  stays ordered, without a migration twice. The batches of a reindexing only contain
  releases that there are, and every release that a complete pass `looked` at has a row.
- `PagesOfBothAgree` is mostly about the orders. `SortKey` makes an array of texts of a
  version, and texts are compared code by code. That comparing at
  the first difference is a strict and total order if that of the elements is
  is proved once (`LexOrders`); texts, keys, and numbers as length and digits are instances. The heart
  is `PrecedenceKeys`: of two versions the one that comes first has the key that comes
  first, which the first identifier that differs decides (`PaddedOrder` for the core,
  `IdentifierKeyOrder` for the prerelease). Both orders are total, so the converse holds
  too (`KeysTellPrecedence`), and with the tie by the build, `RepositoriesAgree`. A page
  is cut from a finite ordered set, where every key has a `Rank` (`PlacesOfKeys`), so
  that `First` is what sorting and slicing leaves (`FirstKeys`), and the query that cuts
  each package off first keeps every key of a rank that the page needs (`LateralEnough`).
  A list with names needs that the collation has those that are shown in the order of
  their code units (`WordsOrdered`, `ListOrderedAlike`); both orders are total by
  `CollationAssumption`.
- `WalkInv`: what was got is strictly in the list's order, the cursor is its last key,
  no cursor used before comes after it, and what was there all the while has been got
  or comes after the cursor (`WalkGoesOn`). Rows written meanwhile can only make
  `steady` smaller; a page adds keys after the cursor, and leaves what follows its last.
- `LoreInv`: `SeedsAhead` (what is not copied yet is there, and everything is before the
  manifest); `FitsLedger` (evidence about to be recorded fits the ledger and what the
  others are about to record, unless two recordings have raced); `PacketSeen` (what a
  review has read of a lesson can only become older: if it is found to be as expected,
  it was so all the time, also when the fixtures were read).
- `ClientInv`: `UsageSound` (an id belongs to one command and one event, and an answer
  that counts it means that it was counted, whichever answers are lost);
  `RevalidationSound` (what was collected was seen since the command began, and nothing
  that is locked is left out); `ExportSound` and `FileSound` (nobody writes a file that
  another command has opened, and nobody is about to unlink the name while it has a file
  that is owed).
- `TabInv`: a list that reads waits for the one request that has its id (`Reads`), and
  ids only grow, so an answer to an older request never counts. What the workspace
  shows and what it asked for under its present id belong to one identity
  (`Belongs(w)`), also while the tab authorises anew with other requests in flight, and
  the releases are those of the selected package. What is compared is listed
  (`Compares`).

- The types of `Edge` mostly follow from these invariants, which say of what kind each
  value is; that it is within the bounds takes more. `BrowserBounds`: the store of
  logins and that of sessions never hold more than `MAX_PENDING_LOGINS` and
  `MAX_SESSIONS` records, since the newest of records whose ids differ are so few
  (`NewestAreFew`, by mapping each record to the number of newer ones), so it has to be
  invariant that ids differ (`Named`), through pruning, logout and expiry; and no cookie
  or record is of a session that was not opened. `LimiterBounds`: the table has room for
  `maxClients` buckets and a new one throws out the oldest (`KeptBuckets`), whether or
  not the client had one. `ClientBounds`: what is answered was offered, so no content is
  installed that the registry never had, and no event is counted that nobody named.

The other lemmas are about what a step of one actor leaves alone (`OneMoves`,
`OtherOperators`, `OtherCommands`, `OnlyMoves`): a step is then one proof about its own
actor, and one side condition about the others.

Model-checked only: the liveness properties and whatever needs `ENABLED`, which are out
of the prover's reach; and the violated properties of the findings, which are not
theorems. Every safety invariant and action property of a passing run is a theorem.

## 5. Not modelled, and the plan

Left out for good: pure functions of one input (matching, ranking, distillation,
semantic diffs), presentation (CLI, pages, protocol, rendering), and hashing,
signatures and JSON Web Keys (packs, artifacts and tokens are compared as values).
`PROJECT.json` says of each component what of it is not in its module.

The plan, the most important first:

1. **A registry that restarts** — the in-memory stores of sessions, logins and
   limits are lost; tokens and members are not.
