\* Browser logins, the rate limiter, paging, the registry's clients, the lore
\* directory, migrations and reindexing, and the web console.
SPECIFICATION EdgeSpec
CONSTANTS
  b1 = b1
  b2 = b2
  c1 = c1
  c2 = c2
  p1 = p1
  p2 = p2
  Browser = {b1, b2}
  Person = {u1}
  Conn = {c1, c2}
  Change <- Changes
  Logins = 2
  MaxTime = 1
  PENDING_LOGIN_TTL = 0
  SESSION_TTL = 1
  MAX_PENDING_LOGINS = 1
  MAX_SESSIONS = 1
  Client = {b1, b2}
  TOKEN = 4
  capacity = 2
  refillPerTick = 1
  SECOND = 2
  maxClients = 1
  LastTick = 6
  Setbacks = 1
  Version <- Versions
  Universe <- Rows
  Scope <- Scopes
  PageSizes = {1, 2}
  Digit = {0, 1, 2, 3, 4, 5, 6, 7, 8, 9}
  CoreWidth = 3
  Word = {1, 2, 3}
  Collation <- Collations
  Command = {c1, c2}
  Pack = {p1, p2}
  MaxIntegrity = 2
  MaxEvents = 1
  MaxFiles = 2
  Workload <- Workloads
  Process = {c1, c2}
  Seed = {s1, s2}
  Observation = {x1}
  MaxContent = 2
  MaxLines = 3
  Commands <- LoreCommands
  Operator = {c1, c2}
  ProgramVersion <- Migrations
  Release = {1, 2, 3}
  BatchSize = 2
  maxReleases = 4
  Tasks = {"migrate", "reindex"}
  Query = {q1, q2}
  Bearer = {i1}
  Session = i2
  None = none
  Name = {1, 2}
  Contents <- ListedNames
  Cursor = {1}
  MaxPages = 2
  MaxClicks <- Clicks
  View = {"catalog", "workspace"}
SYMMETRY Symmetry
CHECK_DEADLOCK FALSE
INVARIANTS
  TypeOK
  SessionsSound
  AllowanceKept
  PagesOfBothAgree
  WalksAreWhole
  ResultsHold
  LoreKept
  MaintenanceSound
  ShownAsAsked
