--------------------------- MODULE RegistryClient ---------------------------
(***************************************************************************)
(* Commands that talk to a registry: src/registry-client.ts, and the files       *)
(* that carry a Pack past it, src/registry-artifact.ts. Each command is one       *)
(* process; a request is served between being sent and being answered, and          *)
(* either half of it can be lost. What the registry does with a request is          *)
(* RegistryServer's matter and what an installation does on disk PackInstall's.     *)
(*                                                                         *)
(* A Pack has one version here. Its content is its integrity: a number that the     *)
(* registry would have to change to serve other content.                            *)
(***************************************************************************)
EXTENDS Naturals, FiniteSets

CONSTANTS
  Command,
  Pack,
  MaxIntegrity,  \* bound: contents that a pack has had
  MaxEvents,     \* bound: usage events
  MaxFiles,      \* bound: files that are created
  Workload       \* bound: what a behaviour is about, [ops, packs, commands]

VARIABLES
  used,      \* the operations, packs and commands of this behaviour
  registry,  \* registry[p]: [status, integrity]
  events,    \* usage events that the registry has counted: [id, pack]
  lock,      \* lock[p]: the integrity that p is installed with, or 0
  file,      \* the export's file: [ino, content], or no file
  created,   \* how many files there have been
  ids,       \* how many event ids there have been
  job,       \* job[c]: the command, how far it is, what it has
  seen,      \* seen[c]: what the registry had of the packs while c revalidated
  exported   \* files whose export succeeded and that nobody took since; not those
             \* that were finished while another export was about to unlink the name

client == <<lock, file, created, ids, job>>
vars == <<used, registry, events, client, seen, exported>>

NoFile == [ino |-> 0, content |-> "none"]
NoJob == [op |-> "none", at |-> "idle"]
Status == {"absent", "pending", "published", "yanked"}

ClientTypeOK ==
  /\ registry \in [Pack -> [status : Status, integrity : 1 .. MaxIntegrity]]
  /\ events \subseteq [id : 1 .. MaxEvents, pack : Pack]
  /\ lock \in [Pack -> 0 .. MaxIntegrity]
  /\ file \in [ino : 1 .. MaxFiles, content : {"torn", "whole"}] \cup {NoFile}
  /\ \A c \in Command : job[c].op \in {"none", "install", "report", "revalidate", "export"}

Init ==
  /\ used \in Workload
  /\ registry = [p \in Pack |-> [status |-> "absent", integrity |-> 1]]
  /\ events = {} /\ lock = [p \in Pack |-> 0]
  /\ file = NoFile /\ created = 0 /\ ids = 0
  /\ job = [c \in Command |-> NoJob]
  /\ exported = {}
  /\ seen = [c \in Command |-> {}]

-----------------------------------------------------------------------------

Now == {[pack |-> p, status |-> registry[p].status, integrity |-> registry[p].integrity] : p \in Pack}

Begin(c, j) ==
  /\ job[c].at = "idle" /\ j.op \in used.ops
  /\ job' = [job EXCEPT ![c] = j]
  /\ seen' = [seen EXCEPT ![c] = IF j.op = "revalidate" THEN Now ELSE {}]

Quit(c, result) ==
  /\ job' = [job EXCEPT ![c] = [op |-> job[c].op, at |-> "idle", result |-> result]]
  /\ UNCHANGED seen

Failed == [ok |-> FALSE]

\* #request: no answer came, an answer that is too long, or no JSON.
NetworkError(c) ==
  /\ job[c].at \in {"sent", "answered"}
  /\ IF job[c].op = "install" /\ job[c].call = "usage"
     THEN Quit(c, [ok |-> TRUE, pack |-> job[c].pack, reported |-> FALSE])
     ELSE IF job[c].op = "report"
     THEN job' = [job EXCEPT ![c].at = "failed"] /\ UNCHANGED seen
     ELSE Quit(c, Failed)
  /\ UNCHANGED <<used, registry, events, lock, file, created, ids, exported>>

Sent(c, call) == [job[c] EXCEPT !.at = "sent", !.call = call, !.answer = Failed]

-----------------------------------------------------------------------------
(* The registry.                                                             *)

\* Only releases that were approved are counted for; an event counts once.
UsageEvent(c) ==
  IF registry[job[c].pack].status \in {"published", "yanked"}
  THEN events' = events \cup {[id |-> job[c].id, pack |-> job[c].pack]}
  ELSE UNCHANGED events

Answer(c) ==
  CASE job[c].call = "artifact" -> registry[job[c].pack].status = "published"
    [] job[c].call = "release" -> registry[job[c].pack].status # "absent"
    [] job[c].call = "usage" -> registry[job[c].pack].status \in {"published", "yanked"}

Serve(c) ==
  /\ job[c].at = "sent"
  /\ job' = [job EXCEPT ![c].at = "answered", ![c].answer =
               [ok |-> Answer(c), release |-> registry[job[c].pack]]]
  /\ IF job[c].call = "usage" THEN UsageEvent(c) ELSE UNCHANGED events
  /\ UNCHANGED <<used, registry, lock, file, created, ids, seen, exported>>

\* A release goes from one status to the next; a registry that is set up anew at
\* the same address has other content.
Registry(p, status, integrity) ==
  /\ \/ <<registry[p].status, status>> \in
          {<<"absent", "pending">>, <<"pending", "published">>, <<"published", "yanked">>}
        /\ integrity = registry[p].integrity
     \/ registry[p].status # "absent" /\ status = registry[p].status
        /\ integrity = registry[p].integrity + 1 /\ integrity <= MaxIntegrity
  /\ registry' = [registry EXCEPT ![p] = [status |-> status, integrity |-> integrity]]
  /\ seen' = [c \in Command |->
       IF job[c].at = "idle" \/ job[c].op # "revalidate" THEN seen[c]
       ELSE seen[c] \cup {[pack |-> p, status |-> status, integrity |-> integrity]}]
  /\ UNCHANGED <<used, events, client, exported>>

-----------------------------------------------------------------------------
(* installPack and reportUsage.                                              *)

Job(op, p, call) ==
  [op |-> op, at |-> "sent", pack |-> p, call |-> call, answer |-> Failed, id |-> 0,
   locked |-> IF op = "revalidate" THEN lock ELSE [q \in Pack |-> 0], todo |-> {}, current |-> {}, yanked |-> {}]

downloadArtifact(c, p) ==
  /\ Begin(c, Job("install", p, "artifact"))
  /\ UNCHANGED <<used, registry, events, lock, file, created, ids, exported>>

\* withMaterializedRegistryPackArtifact, then installRegistryPack: the content is
\* verified before it is installed, and another content of the pack is refused.
installPack(c, report) ==
  /\ job[c].at = "answered" /\ job[c].call = "artifact"
  /\ LET p == job[c].pack
         integrity == job[c].answer.release.integrity
     IN  IF ~job[c].answer.ok \/ lock[p] \notin {0, integrity}
         THEN Quit(c, Failed) /\ UNCHANGED <<lock, ids>>
         ELSE /\ lock' = [lock EXCEPT ![p] = integrity]
              /\ IF report
                 THEN /\ ids < MaxEvents
                      /\ ids' = ids + 1
                      /\ job' = [job EXCEPT ![c] = [Sent(c, "usage") EXCEPT !.id = ids + 1]]
                      /\ UNCHANGED seen
                 ELSE Quit(c, [ok |-> TRUE, pack |-> p, reported |-> FALSE]) /\ UNCHANGED ids
  /\ UNCHANGED <<used, registry, events, file, created, exported>>

reportUsage(c, p) ==
  /\ ids < MaxEvents
  /\ ids' = ids + 1
  /\ Begin(c, [Job("report", p, "usage") EXCEPT !.id = ids + 1])
  /\ UNCHANGED <<used, registry, events, lock, file, created, exported>>

\* The caller names the event, and names it again when it tries again.
RetryReport(c) ==
  /\ job[c].at = "failed"
  /\ \/ job' = [job EXCEPT ![c] = Sent(c, "usage")] /\ UNCHANGED seen
     \/ Quit(c, Failed)
  /\ UNCHANGED <<used, registry, events, lock, file, created, ids, exported>>

Reported(c) ==
  /\ job[c].at = "answered" /\ job[c].call = "usage"
  /\ Quit(c, [ok |-> job[c].op = "install" \/ job[c].answer.ok,
              pack |-> job[c].pack, id |-> job[c].id, reported |-> job[c].answer.ok])
  /\ UNCHANGED <<used, registry, events, lock, file, created, ids, exported>>

-----------------------------------------------------------------------------
(* revalidateInstalledPacks.                                                *)

Locked == {p \in Pack : lock[p] # 0}

revalidateInstalledPacks(c) ==
  /\ Locked # {}
  /\ \E p \in Locked : Begin(c, [Job("revalidate", p, "release") EXCEPT !.todo = Locked \ {p}])
  /\ UNCHANGED <<used, registry, events, lock, file, created, ids, exported>>

\* Mutation: what the registry has now is not compared with what is installed.
MatchesAnything(c) == TRUE

\* The registry's release is the one in the lock that was read when it began.
MatchesLock(c) == job[c].answer.release.integrity = job[c].locked[job[c].pack]

Revalidated(c) ==
  /\ job[c].op = "revalidate" /\ job[c].at = "answered"
  /\ LET p == job[c].pack
         status == job[c].answer.release.status
         result == [job[c] EXCEPT
           !.current = IF status = "published" THEN @ \cup {p} ELSE @,
           !.yanked = IF status = "yanked" THEN @ \cup {p} ELSE @]
     IN  IF ~job[c].answer.ok \/ ~MatchesLock(c) \/ status \notin {"published", "yanked"}
         THEN Quit(c, Failed)
         ELSE IF result.todo = {}
         THEN Quit(c, [ok |-> TRUE, locked |-> result.locked,
                       current |-> result.current, yanked |-> result.yanked])
         ELSE \E q \in result.todo :
                /\ job' = [job EXCEPT ![c] =
                     [result EXCEPT !.pack = q, !.todo = @ \ {q}, !.at = "sent", !.answer = Failed]]
                /\ UNCHANGED seen
  /\ UNCHANGED <<used, registry, events, lock, file, created, ids, exported>>

Uninstall(p) ==
  /\ lock[p] # 0
  /\ lock' = [lock EXCEPT ![p] = 0]
  /\ UNCHANGED <<used, registry, events, file, created, ids, job, seen, exported>>

-----------------------------------------------------------------------------
(* writeRegistryPackArtifactFile.                                           *)

\* createRegistryPackArtifact found an installed pack, and no file was there ...
Export(c) ==
  /\ Locked # {} /\ file = NoFile
  /\ Begin(c, [op |-> "export", at |-> "open", ino |-> 0])
  /\ UNCHANGED <<used, registry, events, lock, file, created, ids, exported>>

\* ... but one may be by now: it is created only if there is none ("wx").
OpenFile(c) ==
  /\ job[c].at = "open"
  /\ IF file # NoFile
     THEN Quit(c, Failed) /\ UNCHANGED <<file, created>>
     ELSE /\ created < MaxFiles
          /\ created' = created + 1
          /\ file' = [ino |-> created + 1, content |-> "torn"]
          /\ job' = [job EXCEPT ![c].at = "write", ![c].ino = created + 1]
          /\ UNCHANGED seen
  /\ UNCHANGED <<used, registry, events, lock, ids, exported>>

\* A failed export found its own file and has not unlinked the name yet.
Unlinking == \E c \in Command : job[c].at = "remove"

\* The file may have been removed, or be another one: the descriptor is its own.
WriteFile(c) ==
  /\ job[c].at = "write"
  /\ file' = IF file.ino = job[c].ino THEN [file EXCEPT !.content = "whole"] ELSE file
  /\ exported' = IF file.ino = job[c].ino /\ ~Unlinking THEN exported \cup {job[c].ino} ELSE exported
  /\ Quit(c, [ok |-> TRUE])
  /\ UNCHANGED <<used, registry, events, lock, created, ids>>

\* Mutation: a failed export removes whatever file has the name.
RemovesAny(c) == file # NoFile

\* The file that it made itself, by device and inode, still has the name.
RemovesOwn(c) == file.ino = job[c].ino

\* The first half of the cleanup looks at the file ...
WriteFails(c) ==
  /\ job[c].at = "write"
  /\ IF RemovesOwn(c)
     THEN job' = [job EXCEPT ![c].at = "remove"] /\ UNCHANGED seen
     ELSE Quit(c, Failed)
  /\ UNCHANGED <<used, registry, events, lock, file, created, ids, exported>>

\* ... and the second unlinks the name, whatever file has it by then.
RemoveFile(c) ==
  /\ job[c].at = "remove"
  /\ file' = NoFile
  /\ Quit(c, Failed)
  /\ UNCHANGED <<used, registry, events, lock, created, ids, exported>>

\* The command dies: a file stays as it is.
Die(c) ==
  /\ job[c].at # "idle"
  /\ job' = [job EXCEPT ![c] = NoJob]
  /\ seen' = [seen EXCEPT ![c] = {}]
  /\ UNCHANGED <<used, registry, events, lock, file, created, ids, exported>>

\* Someone moves the file away.
TakeFile ==
  /\ file # NoFile
  /\ file' = NoFile
  /\ exported' = exported \ {file.ino}
  /\ UNCHANGED <<used, registry, events, lock, created, ids, job, seen>>

-----------------------------------------------------------------------------

Step(c) ==
  \/ NetworkError(c) \/ Serve(c) \/ Die(c)
  \/ \E p \in used.packs : downloadArtifact(c, p) \/ reportUsage(c, p)
  \/ \E report \in BOOLEAN : installPack(c, report)
  \/ RetryReport(c) \/ Reported(c)
  \/ revalidateInstalledPacks(c) \/ Revalidated(c)
  \/ Export(c) \/ OpenFile(c) \/ WriteFile(c) \/ WriteFails(c) \/ RemoveFile(c)

Next ==
  \/ \E c \in used.commands : Step(c)
  \/ \E p \in used.packs, status \in Status, integrity \in 1 .. MaxIntegrity : Registry(p, status, integrity)
  \/ \E p \in Pack : Uninstall(p)
  \/ TakeFile

Spec == Init /\ [][Next]_vars

-----------------------------------------------------------------------------
(* Properties.                                                              *)

Succeeded(c, op) == job[c].at = "idle" /\ job[c].op = op /\ job[c].result.ok

\* Whoever was told that its usage was reported was counted, and an event that
\* was sent again after its answer was lost was counted once.
ReportsCount ==
  /\ \A c \in Command :
       (Succeeded(c, "install") \/ Succeeded(c, "report")) /\ job[c].result.reported
         => \E e \in events : e.id = job[c].result.id
  /\ \A e, f \in events : e.id = f.id => e = f

\* A pack that a revalidation calls current was published, with the content that
\* is installed, at some time since the revalidation began; and yanked likewise.
RevalidationHolds ==
  \A c \in Command : Succeeded(c, "revalidate") =>
    LET r == job[c].result
        Was(p, status) == [pack |-> p, status |-> status, integrity |-> r.locked[p]] \in seen[c]
    IN  /\ \A p \in r.current : Was(p, "published")
        /\ \A p \in r.yanked : Was(p, "yanked")
        /\ r.current \cup r.yanked = {p \in Pack : r.locked[p] # 0}

\* An export that succeeded left its file, whole, until someone takes it, whatever
\* another export to the same name does when it fails or dies. Only one that had
\* looked at its own file before that, and is about to unlink the name, can still
\* remove a later file of the same name: such files are not in exported.
ExportsStay == \A ino \in exported : file = [ino |-> ino, content |-> "whole"]

\* What registry-client.ts and registry-artifact.ts report is so.
ResultsHold == ReportsCount /\ RevalidationHolds /\ ExportsStay

=============================================================================
