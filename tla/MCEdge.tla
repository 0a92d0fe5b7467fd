------------------------------- MODULE MCEdge -------------------------------
(* The components around the registry and the lesson store that share no state  *)
(* with one another: a behaviour is one of a single component, `part`, and what   *)
(* belongs to the other ones is off. Each has the bounds of its own below.         *)
(* The lists of Paging are extended, since their orders are compared as constants;  *)
(* the other components are instances.                                             *)
EXTENDS Paging, TLC

CONSTANTS
  b1, b2, c1, c2, p1, p2,
  Browser, Person, Conn, Change, Logins, MaxTime, PENDING_LOGIN_TTL, SESSION_TTL,
  MAX_PENDING_LOGINS, MAX_SESSIONS,
  Client, TOKEN, capacity, refillPerTick, SECOND, maxClients, LastTick, Setbacks,
  Command, Pack, MaxIntegrity, MaxEvents, MaxFiles, Workload,
  Process, Seed, Observation, MaxContent, MaxLines, Commands,
  Operator, ProgramVersion, Release, BatchSize, maxReleases, Tasks,
  Query, Bearer, Session, None, Name, Contents, Cursor, MaxPages, MaxClicks, View

VARIABLES
  part,
  now, begun, pending, sessions, jar, active, role, pc, req, held, opened, since,
  clock, buckets, setbacks, granted, credit, promise,
  used, registry, events, lock, file, created, ids, job, seen, exported,
  use, manifest, seeds, content, past, ledger, recorded, review, doing, raced,
  task, schema, history, privileges, locker, op, releases, discovery, inserted,
  view, shown, selected, comparison, access, workspace, actor, usage, hidden, flight, clicks

Browsers == INSTANCE BrowserLogin
Limiter == INSTANCE RateLimiter
Clients == INSTANCE RegistryClient
Lore == INSTANCE LoreDirectory
Operators == INSTANCE Maintenance WITH Version <- ProgramVersion
Tab == INSTANCE Console WITH list <- shown

Part == {"browsers", "limiter", "pages", "clients", "lore", "operators", "tab"}

-----------------------------------------------------------------------------
(* Instances.                                                                *)

Symmetry == Permutations({b1, b2}) \cup Permutations({c1, c2})

\* A member gets another role, is deactivated, or is removed.
Changes ==
  { [active |-> TRUE, role |-> "viewer"], [active |-> FALSE, role |-> "viewer"],
    [active |-> TRUE, role |-> "none"] }

\* Versions as texts of codes: 12 is the code of a letter.
release(pre, build) == [core |-> << <<1>>, <<0>>, <<0>> >>, pre |-> pre, build |-> build]

Versions ==
  [core : { << <<1>>, <<0>>, <<0>> >>, << <<1>>, <<1, 0>>, <<0>> >>, << <<1>>, <<9>>, <<0>> >> },
   pre : { <<>>, << <<2>> >>, << <<1, 0>> >>, << <<12>> >>, << <<12>>, <<1>> >>, << <<1, 12>> >> },
   build : { <<>>, <<12>>, <<2>> }]

\* Of "a", "a-c" and "ab", whose code units come in this order, a collation that
\* passes over the hyphen has the second one last.
Collations == {<<1, 2>>, <<1, 3>>, <<3, 2>>}

Row(org, key, labels) == [org |-> org, key |-> key, labels |-> labels]

Rows ==
  [members |-> {Row(1, k, {}) : k \in 1 .. 3},
   packages |-> {Row(1, 1, {}), Row(2, 2, {}), Row(1, 3, {})},
   tokens |-> {Row(1, <<1, 3>>, {}), Row(1, <<2, 2>>, {}), Row(1, <<2, 3>>, {})},
   audit |-> {Row(1, k, {}) : k \in 1 .. 3},
   releases |-> {Row(1, <<p, v>>, {}) : p \in 2 .. 3,
                   v \in {release(<<>>, <<>>), release(<< <<2>> >>, <<>>)}},
   publicReleases |-> {Row(1, v, l) : l \in {{}, {"published"}},
                         v \in {release(<<>>, <<12>>), release(<< <<2>> >>, <<>>), release(<< <<1, 0>> >>, <<>>)}},
   publicPackages |-> {Row(1, k, {"public", "q"} \cup l) : k \in 1 .. 3, l \in {{}, {"ts", "web"}}}]

Filter(language, tag) == [language |-> language, tag |-> tag]

Scopes ==
  [members |-> {[org |-> 1]}, packages |-> {[org |-> 1], [org |-> 2]}, tokens |-> {[org |-> 1]},
   audit |-> {[org |-> 1]}, releases |-> [org : {1}, package : {0, 2}],
   publicReleases |-> {[package |-> 1]},
   publicPackages |-> [query : {"q"}, filter : {Filter({}, {}), Filter({"ts"}, {"web"})}]]

Workloads ==
  { [ops |-> {"install", "report"}, packs |-> {p1}, commands |-> {c1, c2}],
    [ops |-> {"install", "revalidate"}, packs |-> {p1, p2}, commands |-> {c1}],
    [ops |-> {"install", "export"}, packs |-> {p1}, commands |-> {c1, c2}] }

LoreCommands == {{"evidence"}, {"init", "review"}}

Migrations ==
  LET sql(name, checksum) == [name |-> name, checksum |-> checksum]
  IN  { {sql(1, "a"), sql(3, "a")}, {sql(1, "a"), sql(2, "a"), sql(3, "a")}, {sql(1, "b")} }

ListedNames == {{}, {1, 2}}

Clicks == [catalog |-> 4, workspace |-> 2]

-----------------------------------------------------------------------------
(* What the proofs assume of the constants.                                  *)

\* A lesson has a first content, which it is initialised with.
ASSUME LoreAssumption == MaxContent \in Nat \ {0}

\* A workload is about commands and packs that there are, and a pack has a first content.
ASSUME WorkloadAssumption ==
  /\ MaxIntegrity \in Nat \ {0} /\ MaxEvents \in Nat /\ MaxFiles \in Nat
  /\ \A w \in Workload : w.packs \subseteq Pack /\ w.commands \subseteq Command

\* The limiter's constructor refuses anything else, and the clock has its bounds.
ASSUME LimiterAssumption ==
  /\ capacity \in Nat \ {0} /\ maxClients \in Nat \ {0} /\ refillPerTick \in Nat \ {0}
  /\ TOKEN \in Nat \ {0} /\ SECOND \in Nat \ {0} /\ LastTick \in Nat /\ Setbacks \in Nat

\* A person that changes is a member with a role or none; stores and the clock have
\* their bounds.
ASSUME BrowserAssumption ==
  /\ SESSION_TTL \in Nat /\ MAX_PENDING_LOGINS \in Nat /\ MAX_SESSIONS \in Nat
  /\ Logins \in Nat /\ MaxTime \in Nat
  /\ \A to \in Change : to.active \in BOOLEAN /\ to.role \in {"viewer", "admin", "none"}

\* A migration is named by its number, and a release by one that no cursor begins with.
ASSUME OperatorAssumption ==
  /\ "none" \notin Operator
  /\ \A files \in ProgramVersion : \A f \in files : f.name \in Nat
  /\ Release \subseteq Nat \ {0} /\ BatchSize \in Nat \ {0} /\ maxReleases \in Nat

\* What the console is told of are finite pages of names; a list has a first one.
ASSUME TabAssumption ==
  /\ None \notin Name /\ MaxPages \in Nat \ {0} /\ \A v \in View : MaxClicks[v] \in Nat
  /\ \A names \in Contents : names \subseteq Name /\ IsFiniteSet(names)

-----------------------------------------------------------------------------

browserVars == <<now, begun, pending, sessions, jar, active, role, pc, req, held, opened, since>>
limiterVars == <<clock, buckets, setbacks, granted, credit, promise>>
pageVars == vars
clientVars == <<used, registry, events, lock, file, created, ids, job, seen, exported>>
loreVars == <<use, manifest, seeds, content, past, ledger, recorded, review, doing, raced>>
operatorVars == <<task, schema, history, privileges, locker, op, releases, discovery, inserted>>
tabVars == <<view, shown, selected, comparison, access, workspace, actor, usage, hidden, flight, clicks>>

Off == "off"

BrowsersOff ==
  /\ now = Off /\ begun = Off /\ pending = Off /\ sessions = Off /\ jar = Off /\ active = Off
  /\ role = Off /\ pc = Off /\ req = Off /\ held = Off /\ opened = Off /\ since = Off
LimiterOff ==
  clock = Off /\ buckets = Off /\ setbacks = Off /\ granted = Off /\ credit = Off /\ promise = Off
PagesOff == list = Off /\ rows = Off /\ walk = Off /\ steady = Off
ClientsOff ==
  /\ used = Off /\ registry = Off /\ events = Off /\ lock = Off /\ file = Off /\ created = Off
  /\ ids = Off /\ job = Off /\ seen = Off /\ exported = Off
LoreOff ==
  /\ use = Off /\ manifest = Off /\ seeds = Off /\ content = Off /\ past = Off /\ ledger = Off
  /\ recorded = Off /\ review = Off /\ doing = Off /\ raced = Off
OperatorsOff ==
  /\ task = Off /\ schema = Off /\ history = Off /\ privileges = Off /\ locker = Off /\ op = Off
  /\ releases = Off /\ discovery = Off /\ inserted = Off
TabOff ==
  /\ view = Off /\ shown = Off /\ selected = Off /\ comparison = Off /\ access = Off /\ workspace = Off
  /\ actor = Off /\ usage = Off /\ hidden = Off /\ flight = Off /\ clicks = Off

EdgeInit ==
  /\ part \in Part
  /\ IF part = "browsers" THEN Browsers!Init ELSE BrowsersOff
  /\ IF part = "limiter" THEN Limiter!Init ELSE LimiterOff
  /\ IF part = "pages" THEN Init ELSE PagesOff
  /\ IF part = "clients" THEN Clients!Init ELSE ClientsOff
  /\ IF part = "lore" THEN Lore!Init ELSE LoreOff
  /\ IF part = "operators" THEN Operators!Init ELSE OperatorsOff
  /\ IF part = "tab" THEN Tab!Init ELSE TabOff

EdgeNext ==
  /\ \/ part = "browsers" /\ Browsers!Next
        /\ UNCHANGED <<limiterVars, pageVars, clientVars, loreVars, operatorVars, tabVars>>
     \/ part = "limiter" /\ Limiter!Next
        /\ UNCHANGED <<browserVars, pageVars, clientVars, loreVars, operatorVars, tabVars>>
     \/ part = "pages" /\ Next
        /\ UNCHANGED <<browserVars, limiterVars, clientVars, loreVars, operatorVars, tabVars>>
     \/ part = "clients" /\ Clients!Next
        /\ UNCHANGED <<browserVars, limiterVars, pageVars, loreVars, operatorVars, tabVars>>
     \/ part = "lore" /\ Lore!Next
        /\ UNCHANGED <<browserVars, limiterVars, pageVars, clientVars, operatorVars, tabVars>>
     \/ part = "operators" /\ Operators!Next
        /\ UNCHANGED <<browserVars, limiterVars, pageVars, clientVars, loreVars, tabVars>>
     \/ part = "tab" /\ Tab!Next
        /\ UNCHANGED <<browserVars, limiterVars, pageVars, clientVars, loreVars, operatorVars>>
  /\ UNCHANGED part

EdgeSpec == EdgeInit /\ [][EdgeNext]_<<part, browserVars, limiterVars, pageVars, clientVars, loreVars, operatorVars, tabVars>>

-----------------------------------------------------------------------------
(* The properties of the components, of the part that is on.                  *)

\* The types of each component's variables.
TypeOK ==
  CASE part = "browsers" -> Browsers!TypeOK
    [] part = "limiter" -> Limiter!LimiterTypeOK
    [] part = "pages" -> PagingTypeOK
    [] part = "clients" -> Clients!ClientTypeOK
    [] part = "lore" -> Lore!LoreTypeOK
    [] part = "operators" -> Operators!MaintenanceTypeOK
    [] part = "tab" -> Tab!ConsoleTypeOK

\* BrowserLogin: a login opens at most one session, in the browser that began it, and
\* a request of a session is let in with a role of the time it was handled in.
SessionsSound == part = "browsers" => Browsers!OneSessionPerLogin /\ Browsers!RoleHeldMeanwhile

\* RateLimiter: no more than the allowance, and no longer a wait than was said.
AllowanceKept == part = "limiter" => Limiter!AllowanceKept

\* Paging: both repositories answer with the same pages, where the collation lets them.
PagesOfBothAgree == part = "pages" => PagesAgree

\* Paging: a walk misses nothing, sees nothing twice and ends.
WalksAreWhole == part = "pages" => WalkIsWhole

\* RegistryClient: what a client reports to its user is so.
ResultsHold == part = "clients" => Clients!ResultsHold

\* LoreDirectory: initialisation, evidence and reviews do without a lock.
LoreKept == part = "lore" => Lore!LoreKept

\* Maintenance: migrations and reindexing, run at once, dying and run again.
MaintenanceSound == part = "operators" => Operators!MaintenanceSound

\* Console: what a tab shows is what it asked for, for whoever it is now.
ShownAsAsked == part = "tab" => Tab!ShownAsAsked

=============================================================================
