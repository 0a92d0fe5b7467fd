------------------------------- MODULE Console -------------------------------
(***************************************************************************)
(* The registry's web console, web/app.js: one tab, whose handlers run to     *)
(* their next await and whose requests are answered in any order, or fail.     *)
(* Lists are read page by page. Whatever is answered is only shown if the       *)
(* request's id is still the one that the list has.                            *)
(*                                                                         *)
(* A query stands for the search text and its filters; an identity for how      *)
(* the tab is authorised, and its organization. The requests that are not         *)
(* authorised at all fail.                                                   *)
(***************************************************************************)
EXTENDS Naturals, Sequences, FiniteSets, SequencesExt

CONSTANTS
  Query,
  Bearer,       \* identities that are typed in
  Session,      \* that of the browser's session
  None,
  Name,         \* of packages, versions, releases and events
  Contents,     \* what a page can list: sets of names
  Cursor,       \* where pages go on: 0 is nowhere
  MaxPages,     \* MAX_PUBLIC_PAGES, MAX_AUTH_PAGES
  MaxClicks,    \* how often the reader does something, in a behaviour
  View          \* what a behaviour is about: "catalog", "workspace"

VARIABLES
  view,
  list,         \* list[k]: its request id, what it is of, and how far it is read
  selected,     \* the package in the detail
  comparison,   \* of two of its versions
  access,       \* the identity that requests are authorised with
  workspace,    \* workspaceRequestId
  actor, usage, \* whose they are
  hidden,       \* the page was left and came back
  flight,       \* requests that are not answered
  clicks

catalogVars == <<selected, comparison>>
workspaceVars == <<access, workspace, actor, usage, hidden>>
vars == <<view, list, catalogVars, workspaceVars, flight, clicks>>

Public == {"catalog", "releases"}
Protected == {"pending", "audit"}
Identity == Bearer \cup {Session}

ConsoleTypeOK ==
  /\ DOMAIN list = Public \cup Protected
  /\ \A k \in DOMAIN list :
       /\ list[k].seen \subseteq Cursor /\ list[k].cursor \in Cursor \cup {0}
       /\ list[k].pages \in 0..MaxPages /\ list[k].loading \in BOOLEAN /\ list[k].more \in BOOLEAN
  /\ selected \in Name \cup {None}
  /\ {access, actor, usage} \subseteq Identity \cup {None}
  /\ clicks \in 0..MaxClicks[view]

-----------------------------------------------------------------------------
(* Lists.                                                                    *)

Cleared(l) == [l EXCEPT !.id = @ + 1, !.of = None, !.items = <<>>, !.cursor = 0, !.seen = {}, !.pages = 0,
                        !.more = FALSE, !.loading = FALSE]
Restarted(l, of) == [Cleared(l) EXCEPT !.of = of, !.loading = TRUE]

\* The request that list k, once it is l, is waiting for.
Page(k, l, key) ==
  [what |-> k, id |-> l.id, key |-> key, cursor |-> l.cursor, workspace |-> workspace, append |-> l.pages > 0]

Init ==
  /\ view \in View
  /\ list = [k \in Public \cup Protected |->
       [id |-> 0, of |-> None, items |-> <<>>, cursor |-> 0, seen |-> {}, pages |-> 0,
        more |-> FALSE, loading |-> FALSE]]
  /\ selected = None
  /\ comparison = [id |-> 0, loading |-> FALSE, shown |-> None]
  /\ access = None /\ workspace = 0 /\ actor = None /\ usage = None /\ hidden = FALSE
  /\ flight = IF view = "workspace" THEN {[what |-> "session"]} ELSE {}
  /\ clicks = 0

Click == clicks < MaxClicks[view] /\ clicks' = clicks + 1

\* Mutation: what is answered is shown.
AnyRequest(r) == TRUE

\* The request is the one that its list waits for.
Current(r) ==
  /\ r.id = list[r.what].id
  /\ r.what = "releases" => selected = r.key
  /\ r.what \in Protected => r.workspace = workspace

\* A button that is there while more pages are known and none is on its way.
LoadMore(k) ==
  /\ view = IF k \in Public THEN "catalog" ELSE "workspace"
  /\ k = "audit" => actor # None
  /\ LET l == list[k] IN
     /\ l.more /\ ~l.loading /\ l.cursor # 0
     /\ l.pages < MaxPages /\ l.cursor \notin l.seen
     /\ list' = [list EXCEPT ![k].loading = TRUE]
     /\ flight' = flight \cup {Page(k, l, IF k \in Public THEN l.of ELSE access)}
  /\ Click
  /\ UNCHANGED <<view, catalogVars, workspaceVars>>

\* checkedNextCursor
Continues(r, next) == next = 0 \/ (next # r.cursor /\ next \notin list[r.what].seen)

\* A page adds what the list does not have; no public list is empty and goes on.
Stopped(l) == [l EXCEPT !.cursor = 0, !.more = FALSE, !.loading = FALSE]

Added(r, names, next) ==
  LET l == list[r.what]
      new == {[of |-> r.key, name |-> n] : n \in names \ {i.name : i \in ToSet(l.items)}}
      grown == [l EXCEPT !.items = @ \o SetToSeq(new), !.cursor = next, !.pages = @ + 1,
                         !.seen = @ \cup ({r.cursor} \ {0}),
                         !.more = next # 0 /\ l.pages + 1 < MaxPages, !.loading = FALSE]
  IN  IF r.what \in Public /\ grown.items = <<>> THEN Stopped(grown) ELSE grown

\* An error: lists of the workspace offer no more, a public one only if its
\* cursors go round.
Broken(r, circular) ==
  LET l == list[r.what] IN
  IF r.what \in Protected THEN [l EXCEPT !.more = FALSE, !.loading = FALSE]
  ELSE IF circular THEN Stopped(l) ELSE [l EXCEPT !.loading = FALSE]

NoComparison == [id |-> comparison.id + 1, loading |-> FALSE, shown |-> None]

\* A package in the detail, or none: its releases are read from the start.
Detail(lists, package) ==
  /\ selected' = package
  /\ comparison' = NoComparison
  /\ list' = [lists EXCEPT !.releases = IF package = None THEN Cleared(@) ELSE Restarted(@, package)]

\* What a list's request waited for comes; what it no longer waits for is dropped.
Answer(r) ==
  /\ r.what \in DOMAIN list
  /\ IF ~Current(r)
     THEN flight' = flight \ {r} /\ UNCHANGED <<list, catalogVars>>
     ELSE \/ /\ list' = [list EXCEPT ![r.what] = Broken(r, FALSE)]
             /\ flight' = flight \ {r}
             /\ UNCHANGED catalogVars
          \/ /\ r.key # None
             /\ \E names \in Contents, next \in Cursor \cup {0} :
                  LET l == IF Continues(r, next) THEN Added(r, names, next) ELSE Broken(r, TRUE)
                      lists == [list EXCEPT ![r.what] = l]
                  IN  IF r.what = "catalog" /\ ~r.append /\ l.pages = 1 /\ l.items # <<>>
                      THEN /\ Detail(lists, Head(l.items).name)
                           /\ flight' = (flight \ {r}) \cup {Page("releases", list'.releases, selected')}
                      ELSE list' = lists /\ flight' = flight \ {r} /\ UNCHANGED catalogVars
  /\ UNCHANGED <<view, workspaceVars, clicks>>

-----------------------------------------------------------------------------
(* The catalog.                                                              *)

loadPublicPackages(query) ==
  /\ view = "catalog" /\ Click
  /\ LET lists == [list EXCEPT !.catalog = Restarted(@, query)] IN
     /\ Detail(lists, None)
     /\ flight' = flight \cup {Page("catalog", lists.catalog, query)}
  /\ UNCHANGED <<view, workspaceVars>>

selectPackage(item) ==
  /\ view = "catalog" /\ Click
  /\ item \in ToSet(list.catalog.items)
  /\ Detail(list, item.name)
  /\ flight' = flight \cup {Page("releases", list'.releases, item.name)}
  /\ UNCHANGED <<view, workspaceVars>>

\* Of two versions that are listed; the form is closed while it is being done.
loadVersionComparison(from, to) ==
  /\ view = "catalog" /\ Click
  /\ selected # None /\ ~comparison.loading /\ from # to
  /\ {from, to} \subseteq ToSet(list.releases.items)
  /\ comparison' = [id |-> comparison.id + 1, loading |-> TRUE, shown |-> None]
  /\ flight' = flight \cup {[what |-> "diff", id |-> comparison'.id, key |-> selected, of |-> {from, to}]}
  /\ UNCHANGED <<view, list, selected, workspaceVars>>

Compared(r) ==
  /\ r.what = "diff"
  /\ flight' = flight \ {r}
  /\ IF r.id = comparison.id /\ selected = r.key
     THEN \E shown \in {None, r.of} : comparison' = [comparison EXCEPT !.loading = FALSE, !.shown = shown]
     ELSE UNCHANGED comparison
  /\ UNCHANGED <<view, list, selected, workspaceVars, clicks>>

-----------------------------------------------------------------------------
(* The workspace.                                                            *)

\* clearProtectedWorkspace
Emptied ==
  /\ actor' = None /\ usage' = None
  /\ list' = [list EXCEPT !.pending = Cleared(@), !.audit = Cleared(@)]

\* connectWorkspace, up to its request.
Connect(identity) ==
  /\ access' = identity
  /\ workspace' = workspace + 1
  /\ Emptied

Me == [what |-> "me", workspace |-> workspace', key |-> access']

Submit(identity) ==
  /\ view = "workspace" /\ Click
  /\ Connect(identity)
  /\ flight' = flight \cup {Me}
  /\ UNCHANGED <<view, catalogVars, hidden>>

\* restoreBrowserSession runs when the page is loaded, whatever is done meanwhile.
Restored(r) ==
  /\ r.what = "session"
  /\ \/ Connect(Session) /\ flight' = (flight \ {r}) \cup {Me}
     \/ flight' = flight \ {r} /\ UNCHANGED <<access, workspace, actor, usage, list>>
  /\ UNCHANGED <<view, catalogVars, hidden, clicks>>

\* The first pages of the workspace's lists that are named.
ReadAgain(kinds) == list' = [k \in DOMAIN list |-> IF k \in kinds THEN Restarted(list[k], access) ELSE list[k]]
FirstPages(kinds) == {Page(k, list'[k], access) : k \in kinds}

Known(r) ==
  /\ r.what = "me" /\ r.workspace = workspace /\ r.key # None
  /\ actor' = r.key
  /\ ReadAgain(Protected)
  /\ flight' = (flight \ {r}) \cup FirstPages(Protected) \cup
               {[what |-> "usage", workspace |-> workspace, key |-> access]}
  /\ UNCHANGED <<view, catalogVars, access, workspace, usage, hidden, clicks>>

Unknown(r) ==
  /\ r.what = "me"
  /\ flight' = flight \ {r}
  /\ IF r.workspace = workspace
     THEN /\ Emptied
          /\ workspace' = workspace + 1
          /\ access' = IF r.key = Session THEN access ELSE None
     ELSE UNCHANGED <<list, access, workspace, actor, usage>>
  /\ UNCHANGED <<view, catalogVars, hidden, clicks>>

\* Whoever may not see the usage is told so.
Usage(r) ==
  /\ r.what = "usage"
  /\ flight' = flight \ {r}
  /\ IF r.workspace = workspace THEN usage' \in {r.key, None} ELSE UNCHANGED usage
  /\ UNCHANGED <<view, list, catalogVars, access, workspace, actor, hidden, clicks>>

refreshAudit ==
  /\ view = "workspace" /\ Click
  /\ actor # None
  /\ ReadAgain({"audit"})
  /\ flight' = flight \cup FirstPages({"audit"})
  /\ UNCHANGED <<view, catalogVars, workspaceVars>>

reviewRelease(item) ==
  /\ view = "workspace" /\ Click
  /\ item \in ToSet(list.pending.items)
  /\ flight' = flight \cup {[what |-> "review", workspace |-> workspace, key |-> access]}
  /\ UNCHANGED <<view, list, catalogVars, workspaceVars>>

Reviewed(r) ==
  /\ r.what = "review"
  /\ \/ /\ r.workspace = workspace /\ r.key # None
        /\ LET kinds == IF actor = None THEN {"pending"} ELSE Protected IN
           ReadAgain(kinds) /\ flight' = (flight \ {r}) \cup FirstPages(kinds)
     \/ flight' = flight \ {r} /\ UNCHANGED list
  /\ UNCHANGED <<view, catalogVars, workspaceVars, clicks>>

signOutSession ==
  /\ view = "workspace" /\ Click
  /\ access = Session /\ \A r \in flight : r.what # "logout"
  /\ flight' = flight \cup {[what |-> "logout"]}
  /\ UNCHANGED <<view, list, catalogVars, workspaceVars>>

SignedOut(r) ==
  /\ r.what = "logout"
  /\ flight' = flight \ {r}
  /\ \/ Connect(None)
     \/ UNCHANGED <<access, workspace, actor, usage, list>>
  /\ UNCHANGED <<view, catalogVars, hidden, clicks>>

\* The tab forgets who it is; the browser may bring the page back as it was.
pagehide ==
  /\ view = "workspace" /\ Click
  /\ access' = None /\ actor' = None /\ hidden' = TRUE
  /\ UNCHANGED <<view, list, catalogVars, workspace, usage, flight>>

-----------------------------------------------------------------------------

Next ==
  \/ \E k \in DOMAIN list : LoadMore(k)
  \/ \E query \in Query : loadPublicPackages(query)
  \/ \E item \in ToSet(list.catalog.items) : selectPackage(item)
  \/ \E from, to \in ToSet(list.releases.items) : loadVersionComparison(from, to)
  \/ \E identity \in Bearer : Submit(identity)
  \/ refreshAudit
  \/ \E item \in ToSet(list.pending.items) : reviewRelease(item)
  \/ signOutSession \/ pagehide
  \/ \E r \in flight :
       Answer(r) \/ Compared(r) \/ Restored(r) \/ Known(r) \/ Unknown(r) \/ Usage(r) \/ Reviewed(r) \/ SignedOut(r)

Spec == Init /\ [][Next]_vars

-----------------------------------------------------------------------------
(* Properties.                                                              *)

Shown == ToSet(list.pending.items) \cup ToSet(list.audit.items)
Whose == {i.of : i \in Shown} \cup ({actor, usage} \ {None})

\* In whatever order requests are answered: a list shows pages of what it is of, each
\* item once; the releases and the comparison are those of the package in the detail;
\* what the workspace shows is for one identity, the one that the tab is authorised
\* with unless the page was hidden; and a list that reads has a request under way
\* that will end it.
ShownAsAsked ==
  /\ \A k \in DOMAIN list :
       LET l == list[k] IN
       /\ \A i \in DOMAIN l.items : l.items[i].of = l.of
       /\ \A i, j \in DOMAIN l.items : l.items[i] = l.items[j] => i = j
       /\ l.loading => \E r \in flight : r.what = k /\ Current(r)
  /\ list.releases.of = selected
  /\ comparison.shown # None => comparison.shown \subseteq ToSet(list.releases.items)
  /\ Cardinality(Whose) <= 1
  /\ ~hidden => Whose \subseteq {access}

=============================================================================
