------------------------------- MODULE Paging -------------------------------
(***************************************************************************)
(* The lists of the registry, page by page. The repository in memory            *)
(* (src/registry-domain.ts, src/registry-token-service.ts) and the one on        *)
(* PostgreSQL (src/registry-postgres.ts, migrations/008) answer the same           *)
(* requests with orders and queries of their own, and a client                     *)
(* (src/registry-client.ts) follows the cursors while others write.                *)
(*                                                                         *)
(* The text of a version is a sequence of character codes. A name or an id is a    *)
(* number: its place among the code units of all of them, which is how the program  *)
(* compares them. The database compares them in its default collation, an order of   *)
(* its own. One list is walked in a behaviour, on the database.                       *)
(***************************************************************************)
EXTENDS Integers, Sequences, FiniteSets, SequencesExt, FiniteSetsExt

CONSTANTS
  Version,     \* versions that the two orders are compared on
  Universe,    \* Universe[list]: the rows that can be written, [org, key, labels]
  Scope,       \* Scope[list]: what can be asked for
  PageSizes,
  Digit,       \* the codes of 0 .. 9
  CoreWidth,   \* digits that a number of a version is padded to: 16
  Word,        \* names and ids
  Collation    \* the pairs of them that the database has in this order

VARIABLES
  list,
  rows,
  walk,     \* the client's walk: [state, scope, cursor, got, used]
  steady    \* steady[s]: keys that scope s has shown ever since the walk began

vars == <<list, rows, walk, steady>>

NoCursor == [scope |-> "none"]
Idle == [state |-> "idle", scope |-> "none", cursor |-> NoCursor, got |-> <<>>, used |-> {}]

PagingTypeOK ==
  /\ list \in DOMAIN Universe
  /\ rows \subseteq Universe[list]
  /\ walk.state \in {"idle", "walking", "done", "refused", "invalid_pagination"}
  /\ DOMAIN steady = Scope[list] /\ \A s \in Scope[list] : steady[s] \subseteq {r.key : r \in rows}

Init ==
  /\ list \in DOMAIN Universe
  /\ rows = {} /\ walk = Idle /\ steady = [s \in Scope[list] |-> {}]

-----------------------------------------------------------------------------
(* The order of versions.                                                    *)

\* The first place where two sequences differ decides; a proper prefix comes first.
Differ(s, t) ==
  {i \in 1 .. Min({Len(s), Len(t)}) : s[i] # t[i] /\ \A j \in 1 .. i - 1 : s[j] = t[j]}

TextLess(s, t) == IsStrictPrefix(s, t) \/ \E i \in Differ(s, t) : s[i] < t[i]

IsNumeric(id) == ToSet(id) \subseteq Digit

\* Without leading zeros the longer number is the greater one.
NumberLess(m, n) == Len(m) < Len(n) \/ (Len(m) = Len(n) /\ TextLess(m, n))

\* compareSemverPrecedence, of two identifiers of a prerelease ...
IdentifierLess(m, n) ==
  IF IsNumeric(m) # IsNumeric(n) THEN IsNumeric(m)
  ELSE IF IsNumeric(m) THEN NumberLess(m, n) ELSE TextLess(m, n)

\* ... and of two versions: [core, pre, build].
PrecedenceLess(v, w) ==
  \/ \E i \in Differ(v.core, w.core) : NumberLess(v.core[i], w.core[i])
  \/ /\ v.core = w.core /\ v.pre # <<>>
     /\ \/ w.pre = <<>> \/ IsStrictPrefix(v.pre, w.pre)
        \/ \E i \in Differ(v.pre, w.pre) : IdentifierLess(v.pre[i], w.pre[i])

\* comparePublicReleaseVersions: newest first, a tie goes by the text of the build.
NewerFirst(v, w) ==
  PrecedenceLess(w, v) \/ (~PrecedenceLess(v, w) /\ TextLess(w.build, v.build))

lpad(number) == [i \in 1 .. CoreWidth - Len(number) |-> Min(Digit)] \o number

\* Mutation: the numbers of a prerelease are keyed by their digits alone.
KeyWithoutLength(id) == <<IF IsNumeric(id) THEN 0 ELSE 1>> \o id

\* registry_semver_sort_key: an array of texts that the database compares.
IdentifierKey(id) == IF IsNumeric(id) THEN <<0, Len(id)>> \o id ELSE <<1>> \o id

SortKey(v) ==
  [i \in 1 .. 3 |-> lpad(v.core[i])] \o
  (IF v.pre = <<>> THEN << <<1>> >> ELSE << <<0>> >> \o [i \in DOMAIN v.pre |-> IdentifierKey(v.pre[i])])

KeyLess(k, l) == IsStrictPrefix(k, l) \/ \E i \in Differ(k, l) : TextLess(k[i], l[i])

SortsFirst(v, w) ==
  \/ KeyLess(SortKey(w), SortKey(v))
  \/ SortKey(v) = SortKey(w) /\ TextLess(w.build, v.build)

\* What a repository takes for the newer version.
Newer(repository, v, w) ==
  IF repository = "memory" THEN NewerFirst(v, w) ELSE SortsFirst(v, w)

\* Both take strict versions only: numbers without leading zeros, none of the core
\* wider than the key has room for, and identifiers that are not empty.
IsNumber(id) == id \in Seq(Digit) /\ id # <<>> /\ (id[1] = Min(Digit) => Len(id) = 1)

Semver ==
  {v \in [core : Seq(Seq(Nat)), pre : Seq(Seq(Nat)), build : Seq(Nat)] :
     /\ Len(v.core) = 3 /\ \A i \in 1 .. 3 : IsNumber(v.core[i]) /\ Len(v.core[i]) <= CoreWidth
     /\ \A i \in DOMAIN v.pre : v.pre[i] # <<>> /\ (IsNumeric(v.pre[i]) => IsNumber(v.pre[i]))}

ASSUME VersionAssumption ==
  Digit \subseteq Nat /\ Digit # {} /\ CoreWidth \in Nat /\ Version \subseteq Semver

\* Whatever the collation is, it tells any two texts apart.
ASSUME CollationAssumption ==
  /\ Word \subseteq Nat
  /\ \A w \in Word : <<w, w>> \notin Collation
  /\ \A v, w \in Word : v = w \/ <<v, w>> \in Collation \/ <<w, v>> \in Collation
  /\ \A u, v, w \in Word : <<u, v>> \in Collation /\ <<v, w>> \in Collation => <<u, w>> \in Collation

-----------------------------------------------------------------------------
(* The pages.                                                                *)

\* What the rows of a list are told apart by: a name or an id, the time and id of a
\* token, a version, or a package and a version of it.
Key ==
  [members |-> Word, packages |-> Word, publicPackages |-> Word, audit |-> Nat, tokens |-> Nat \X Word,
   publicReleases |-> Semver, releases |-> Word \X Semver]

ASSUME ListAssumption ==
  /\ PageSizes \subseteq Nat \ {0}
  /\ \A l \in DOMAIN Universe : l \in DOMAIN Key /\ \A r \in Universe[l] : r.key \in Key[l]

\* compareAscendingText; user_id, id and name are columns without a COLLATE.
WordFollows(w, after, repository) ==
  IF repository = "memory" THEN w > after ELSE <<after, w>> \in Collation

\* Each list is in the order of its keys; a key comes after another one ...
MemberFollows(k, after, repository) == WordFollows(k, after, repository)
PackageFollows(k, after, repository) == WordFollows(k, after, repository)
PublicPackageFollows(k, after, repository) == WordFollows(k, after, repository)
AuditEventFollows(k, after) == k < after
TokenFollows(k, after, repository) ==
  k[1] > after[1] \/ (k[1] = after[1] /\ WordFollows(k[2], after[2], repository))
PublicReleaseFollows(k, after, repository) == Newer(repository, after, k)
ReleaseFollows(k, after, repository) ==
  \/ WordFollows(k[1], after[1], repository)
  \/ k[1] = after[1] /\ PublicReleaseFollows(k[2], after[2], repository)

\* ... by what the repository knows of names and versions.
Follows(k, after, repository) ==
  CASE list = "members" -> MemberFollows(k, after, repository)
    [] list = "packages" -> PackageFollows(k, after, repository)
    [] list = "publicPackages" -> PublicPackageFollows(k, after, repository)
    [] list = "audit" -> AuditEventFollows(k, after)
    [] list = "tokens" -> TokenFollows(k, after, repository)
    [] list = "publicReleases" -> PublicReleaseFollows(k, after, repository)
    [] list = "releases" -> ReleaseFollows(k, after, repository)

Cut(n, seq) == SubSeq(seq, 1, Min({n, Len(seq)}))

\* The first n of some keys: the one in place i follows i - 1 of them.
First(n, keys, repository) ==
  [i \in 1 .. Min({n, Cardinality(keys)}) |->
     CHOOSE k \in keys : Cardinality({l \in keys : Follows(k, l, repository)}) = i - 1]

\* matchesPublicPackDiscoveryFilter: of each dimension that is asked for, one facet.
matchesFilter(filter, labels) ==
  \A d \in DOMAIN filter : filter[d] = {} \/ filter[d] \cap labels # {}

PublicPackageMatches(row, scope) ==
  "public" \in row.labels /\ scope.query \in row.labels /\ matchesFilter(scope.filter, row.labels)

PublicReleaseMatches(row, scope) == row.org = scope.package /\ "published" \in row.labels

ReleaseMatches(row, scope) == row.org = scope.org /\ scope.package \in {0, row.key[1]}

\* What a scope shows, whatever the page.
Matches(row, scope) ==
  CASE list = "publicPackages" -> PublicPackageMatches(row, scope)
    [] list = "publicReleases" -> PublicReleaseMatches(row, scope)
    [] list = "releases" -> ReleaseMatches(row, scope)
    [] OTHER -> row.org = scope.org

Showing(scope) == {r.key : r \in {row \in rows : Matches(row, scope)}}

After(keys, cursor, repository) ==
  {k \in keys : cursor = NoCursor \/ Follows(k, cursor.after, repository)}

\* InMemoryRegistryRepository: filter, sort, slice.
MemoryPage(scope, cursor, limit) ==
  First(limit, After(Showing(scope), cursor, "memory"), "memory")

\* Releases come from each package of the organization that the cursor has not
\* passed, in an order of its own and no more of each than of the page.
LateralPage(shown, cursor, limit) ==
  LET Reaches(p) == cursor = NoCursor \/ p = cursor.after[1] \/ WordFollows(p, cursor.after[1], "sql")
      packages  == {k[1] : k \in {l \in shown : Reaches(l[1])}}
      Newest(p) == ToSet(First(limit, After({k \in shown : k[1] = p}, cursor, "sql"), "sql"))
  IN  UNION {Newest(p) : p \in packages}

SqlPage(scope, cursor, limit) ==
  First(limit,
        IF list = "releases" THEN LateralPage(Showing(scope), cursor, limit)
        ELSE After(Showing(scope), cursor, "sql"),
        "sql")

\* Mutation: a cursor is good for every request.
DecodesAny(cursor, scope) == TRUE

\* A cursor is bound to the organization, package, query and filter it was made for.
Decodes(cursor, scope) == cursor = NoCursor \/ cursor.scope = scope

PageOf(read, scope, limit) ==
  [items |-> Cut(limit, read),
   next  |-> IF Len(read) > limit THEN [scope |-> scope, after |-> read[limit]] ELSE NoCursor]

\* One row more than the page is read, to know whether there is a next page.
Page(scope, cursor, limit) == PageOf(SqlPage(scope, cursor, limit + 1), scope, limit)

-----------------------------------------------------------------------------
(* The client's walk: #collectPages.                                        *)

Begin(scope) ==
  /\ walk.state # "walking"
  /\ walk' = [Idle EXCEPT !.state = "walking", !.scope = scope]
  /\ steady' = [s \in Scope[list] |-> Showing(s)]
  /\ UNCHANGED <<list, rows>>

\* A caller may have changed what it asks for and sends the cursor that it has.
NextPage(scope, limit) ==
  /\ walk.state = "walking"
  /\ IF ~Decodes(walk.cursor, scope)
     THEN walk' = [walk EXCEPT !.state = "refused"]
     ELSE \E page \in {Page(scope, walk.cursor, limit)} :
          walk' = [walk EXCEPT
            !.state = CASE page.next = NoCursor -> "done"
                        [] page.next \in walk.used -> "invalid_pagination"
                        [] OTHER -> "walking",
            !.scope = scope,
            !.got = @ \o page.items,
            !.cursor = page.next,
            !.used = @ \cup {page.next}]
  /\ UNCHANGED <<list, rows, steady>>

Steady ==
  /\ steady' = [s \in Scope[list] |-> {k \in steady[s] : \E r \in rows' : r.key = k /\ Matches(r, s)}]
  /\ UNCHANGED <<list, walk>>

\* Rows come in any order: an audit event has the next number of a sequence, but a
\* transaction with a lower one may commit later.
Insert(row) ==
  /\ \A r \in rows : r.key # row.key
  /\ rows' = rows \cup {row}
  /\ Steady

\* A release is published, another release of a package becomes its latest.
Update(row) ==
  /\ list \in {"publicReleases", "publicPackages"}
  /\ \E r \in rows : r.key = row.key /\ ("published" \in r.labels => "published" \in row.labels)
  /\ rows' = {r \in rows : r.key # row.key} \cup {row}
  /\ Steady

\* Only members go.
RemoveMember(row) ==
  /\ list = "members"
  /\ rows' = rows \ {row}
  /\ Steady

Next ==
  \/ \E scope \in Scope[list] :
       Begin(scope) \/ \E limit \in PageSizes : NextPage(scope, limit)
  \/ \E row \in Universe[list] : Insert(row) \/ Update(row)
  \/ \E row \in rows : RemoveMember(row)

Spec == Init /\ [][Next]_vars

-----------------------------------------------------------------------------
(* Properties.                                                              *)

\* The database orders versions as the program does: an index that is sorted
\* otherwise would skip releases, and the two registries would disagree.
OrdersAgree == \A v, w \in Version : SortsFirst(v, w) <=> NewerFirst(v, w)

\* The names and ids that the order of some keys depends on.
Words(keys) ==
  CASE list \in {"members", "packages", "publicPackages"} -> keys
    [] list = "tokens" -> {k[2] : k \in keys}
    [] list = "releases" -> {k[1] : k \in keys}
    [] list \in {"audit", "publicReleases"} -> {}

\* The collation has them in the order of their code units.
CollatedAsCoded(words) ==
  \A v, w \in words : WordFollows(v, w, "sql") <=> WordFollows(v, w, "memory")

\* A page of the database is the page of the repository in memory, the one that
\* cuts each package off first included, from every place in the list: always where
\* no names are compared, as with audit events and the releases of a package, and
\* otherwise as far as the collation has the names in the order of their code units.
PagesAgree ==
  /\ OrdersAgree
  /\ \A scope \in Scope[list], limit \in PageSizes, k \in {r.key : r \in Universe[list]} :
       CollatedAsCoded(Words(Showing(scope) \cup {k})) =>
         \A cursor \in {NoCursor, [scope |-> scope, after |-> k]} :
           SqlPage(scope, cursor, limit) = MemoryPage(scope, cursor, limit)

\* Whoever follows the cursors to the end has seen everything that was there all
\* the while, has seen nothing twice and was never sent in a circle, whatever was
\* written between two pages.
WalkIsWhole ==
  /\ walk.state # "invalid_pagination"
  /\ IsInjective(walk.got)
  /\ walk.state = "done" => steady[walk.scope] \subseteq ToSet(walk.got)

=============================================================================
