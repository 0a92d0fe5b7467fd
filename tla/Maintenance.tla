----------------------------- MODULE Maintenance -----------------------------
(***************************************************************************)
(* What operators run on the registry's database: the migrations of              *)
(* src/registry-postgres.ts and the reindexing of src/registry-discovery-reindex.ts. *)
(* Several run at a time, each with the files of its version of the program,       *)
(* while servers of that version or an older one take releases in; any of them       *)
(* dies at any step, which rolls its transaction back and frees its lock.            *)
(*                                                                         *)
(* A migration is a number with a checksum. What its SQL does to the schema is its    *)
(* name: schema is the sequence of what was done.                                    *)
(***************************************************************************)
EXTENDS Naturals, Sequences, FiniteSets, SequencesExt, FiniteSetsExt

CONSTANTS
  Operator,
  Version,      \* versions of the program: the migrations each comes with, [name, checksum]
  Release,      \* ids of releases: numbers
  BatchSize,
  maxReleases,
  Tasks         \* what is run in a behaviour: "migrate" or "reindex"

VARIABLES
  task,
  schema, history,  \* what migrations did, and what the database says that they did
  privileges,       \* the migrations whose tables the runtime role may use
  locker,           \* who has the advisory lock, or "none"
  op,               \* op[o]: how far o is and what it has read
  releases,         \* releases that there are
  discovery,        \* those that have a discovery row
  inserted          \* inserted[r]: how often the row of r was inserted

database == <<schema, history, privileges, locker>>
index == <<releases, discovery, inserted>>
vars == <<task, database, op, index>>

Idle == [at |-> "idle"]

MaintenanceTypeOK ==
  /\ ToSet(history) \subseteq UNION Version
  /\ locker \in Operator \cup {"none"}
  /\ discovery \subseteq releases /\ releases \subseteq Release
  /\ \A o \in Operator : op[o].at \in {"idle", "lock", "history", "next", "insert", "privileges",
                                       "unlock", "select", "row", "done"}

Init ==
  /\ task \in Tasks
  /\ schema = <<>> /\ history = <<>> /\ privileges = {} /\ locker = "none"
  /\ op = [o \in Operator |-> Idle]
  /\ releases = {} /\ discovery = {}
  /\ inserted = [r \in Release |-> 0]

-----------------------------------------------------------------------------

Set(o, now) == op' = [op EXCEPT ![o] = now]
Goto(o, step) == Set(o, [op[o] EXCEPT !.at = step])

Names(files) == {f.name : f \in files}
Applied == Names(ToSet(history))

\* A role of its own for the runtime is kept to what it needs, if one is named.
Migrate(o, files, reconcile) ==
  /\ task = "migrate" /\ op[o].at = "idle"
  /\ Set(o, [at |-> "lock", files |-> files, todo |-> files, reconcile |-> reconcile, ok |-> TRUE])
  /\ UNCHANGED <<task, database, index>>

pg_advisory_lock(o) ==
  /\ op[o].at = "lock" /\ locker = "none"
  /\ locker' = o
  /\ Goto(o, "history")
  /\ UNCHANGED <<task, schema, history, privileges, index>>

Fail(o) == Set(o, [op[o] EXCEPT !.at = "unlock", !.ok = FALSE])

\* Mutation: a migration may come before one that was applied.
AppendedAnywhere(o) == TRUE

\* Whatever is applied has a file here, and what has not been applied comes after it.
Appended(o) ==
  /\ Applied \subseteq Names(op[o].files)
  /\ \A f \in op[o].files : f.name \in Applied \/ \A n \in Applied : n < f.name

ReadHistory(o) ==
  /\ op[o].at = "history"
  /\ IF Appended(o)
     THEN Goto(o, "next")
     ELSE Fail(o)
  /\ UNCHANGED <<task, database, index>>

First(files) == CHOOSE f \in files : \A g \in files : f.name <= g.name

\* In the order of their names; one that was applied has to have the same checksum.
NextFile(o) ==
  /\ op[o].at = "next"
  /\ IF op[o].todo = {} THEN Goto(o, IF op[o].reconcile THEN "privileges" ELSE "unlock")
     ELSE LET file == First(op[o].todo) IN
          IF file.name \notin Applied THEN Goto(o, "insert")
          ELSE IF file \in ToSet(history) THEN Set(o, [op[o] EXCEPT !.todo = @ \ {file}])
          ELSE Fail(o)
  /\ UNCHANGED <<task, database, index>>

\* The file and its entry in the history are one transaction.
Apply(o) ==
  /\ op[o].at = "insert"
  /\ schema' = Append(schema, First(op[o].todo))
  /\ history' = Append(history, First(op[o].todo))
  /\ Goto(o, "next")
  /\ UNCHANGED <<task, privileges, locker, index>>

\* The SQL of a migration can fail, and leaves nothing.
ApplyFails(o) ==
  /\ op[o].at = "insert"
  /\ Fail(o)
  /\ UNCHANGED <<task, database, index>>

\* The program's SQL names the tables of all its migrations.
Granted(files) == Names(files)

\* Everything is revoked and granted again, in one transaction.
Reconcile(o) ==
  /\ op[o].at = "privileges"
  /\ privileges' = Granted(op[o].files)
  /\ Goto(o, "unlock")
  /\ UNCHANGED <<task, schema, history, locker, index>>

Unlock(o) ==
  /\ op[o].at = "unlock"
  /\ locker' = "none"
  /\ Goto(o, "done")
  /\ UNCHANGED <<task, schema, history, privileges, index>>

Again(o) ==
  /\ op[o].at = "done"
  /\ Set(o, Idle)
  /\ UNCHANGED <<task, database, index>>

Die(o) ==
  /\ op[o].at \notin {"idle", "done"}
  /\ Set(o, Idle)
  /\ locker' = IF locker = o THEN "none" ELSE locker
  /\ UNCHANGED <<task, schema, history, privileges, index>>

-----------------------------------------------------------------------------
(* Discovery rows.                                                           *)

\* A server writes the row with the release; one from before the migration did not.
Submit(r, old) ==
  /\ task = "reindex" /\ r \notin releases
  /\ releases' = releases \cup {r}
  /\ discovery' = IF old THEN discovery ELSE discovery \cup {r}
  /\ inserted' = [inserted EXCEPT ![r] = IF old THEN @ ELSE @ + 1]
  /\ UNCHANGED <<task, database, op>>

Missing == releases \ discovery

Reindex(o) ==
  /\ task = "reindex" /\ op[o].at = "idle"
  /\ Set(o, [at |-> "select", after |-> 0, batch |-> {}, processed |-> 0, indexed |-> 0,
             looked |-> {}, complete |-> FALSE])
  /\ UNCHANGED <<task, database, index>>

Look(o, now) == Set(o, [now EXCEPT !.looked = releases])
Finish(o, complete) == Look(o, [op[o] EXCEPT !.at = "done", !.complete = complete])

\* selectMissingReleaseBatch: the first ids after the cursor.
Batch(after, limit) ==
  LET found == {r \in Missing : r > after}
  IN  {r \in found : Cardinality({q \in found : q < r}) < limit}

\* Mutation: a pass that comes to its end is the end.
OnePass(o) == TRUE

FirstPass(o) == op[o].after = 0

\* A release can come in with an id that the pass is beyond: another pass follows
\* one that did not begin at the first id.
Select(o) ==
  /\ op[o].at = "select"
  /\ IF op[o].processed >= maxReleases THEN Finish(o, Missing = {})
     ELSE LET batch == Batch(op[o].after, Min({BatchSize, maxReleases - op[o].processed})) IN
          IF batch # {} THEN Look(o, [op[o] EXCEPT !.at = "row", !.batch = batch])
          ELSE IF FirstPass(o) THEN Finish(o, TRUE)
          ELSE Look(o, [op[o] EXCEPT !.after = 0])
  /\ UNCHANGED <<task, database, index>>

\* reindexMissingRelease: the release is locked, its artifact verified, and the
\* row inserted if nobody else has done it since the batch was read. The rows of a
\* batch come in the order of their ids.
ReindexRow(o) ==
  /\ op[o].at = "row"
  /\ LET r == Min(op[o].batch)
         rest == op[o].batch \ {r}
         new == r \notin discovery
     IN  /\ discovery' = discovery \cup {r}
         /\ inserted' = [inserted EXCEPT ![r] = IF new THEN @ + 1 ELSE @]
         /\ Set(o, [op[o] EXCEPT !.batch = rest, !.after = r, !.processed = @ + 1,
                                 !.indexed = IF new THEN @ + 1 ELSE @,
                                 !.at = IF rest = {} THEN "select" ELSE "row"])
  /\ UNCHANGED <<task, database, releases>>

\* An artifact does not pass its verification: the run ends with an error.
ReindexFails(o) ==
  /\ op[o].at = "row"
  /\ Set(o, Idle)
  /\ UNCHANGED <<task, database, index>>

-----------------------------------------------------------------------------

Step(o) ==
  \/ \E files \in Version, reconcile \in BOOLEAN : Migrate(o, files, reconcile)
  \/ pg_advisory_lock(o) \/ ReadHistory(o) \/ NextFile(o) \/ Apply(o) \/ ApplyFails(o)
  \/ Reconcile(o) \/ Unlock(o) \/ Again(o) \/ Die(o)
  \/ Reindex(o) \/ Select(o) \/ ReindexRow(o) \/ ReindexFails(o)

Next ==
  \/ \E o \in Operator : Step(o)
  \/ \E r \in Release, old \in BOOLEAN : Submit(r, old)

Spec == Init /\ [][Next]_vars

-----------------------------------------------------------------------------
(* Properties.                                                              *)

\* Whoever migrates, and dies: a migration is done once, in the order of the names,
\* and the history says what was done. Whoever succeeds finds its own files, as they
\* are here, at the beginning of the history, and nobody narrows the privileges to
\* less than what is applied.
MigratedOnce ==
  /\ schema = history
  /\ \A i, j \in DOMAIN history : i < j => history[i].name < history[j].name
  /\ \A o \in Operator : task = "migrate" /\ op[o].at = "done" /\ op[o].ok =>
       op[o].files \subseteq ToSet(history)
  /\ \A o \in Operator : locker = o /\ op[o].at = "unlock" /\ op[o].ok /\ op[o].reconcile =>
       privileges = Applied

\* A run that says it is complete left nothing behind of what there was when it
\* looked last, whichever side of its cursor it came in on; each row is inserted once.
ReindexedAll ==
  /\ \A r \in Release : inserted[r] = IF r \in discovery THEN 1 ELSE 0
  /\ \A o \in Operator : task = "reindex" /\ op[o].at = "done" /\ op[o].complete =>
       op[o].looked \subseteq discovery

MaintenanceSound == MigratedOnce /\ ReindexedAll

=============================================================================
