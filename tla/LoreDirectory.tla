---------------------------- MODULE LoreDirectory ----------------------------
(***************************************************************************)
(* What is kept beside the lessons of a lore directory, without a lock: its       *)
(* initialisation (initLore of src/store.ts), the ledger of evidence               *)
(* (src/evidence.ts) and the reviews of candidates (src/review.ts). The lessons    *)
(* themselves, and the lock that decisions take, are LessonStore's. Commands are    *)
(* those of a project's own directory, which is filled with the bundled seed.       *)
(*                                                                         *)
(* Every process runs one command after another; a step is what it does between    *)
(* two of its accesses to the directory, and it can die at any step. A lesson, a    *)
(* catalog and the fixtures are the number of their present content.               *)
(***************************************************************************)
EXTENDS Naturals, Sequences, FiniteSets, SequencesExt

CONSTANTS
  Process,
  Seed,          \* lessons that come with the program
  Observation,
  MaxContent,    \* bound: contents of the candidate, the catalog, the fixtures
  MaxLines,      \* bound: writes to the ledger
  Commands       \* bound: the commands of a behaviour are one of these sets

VARIABLES
  use,       \* the commands of this behaviour
  manifest,  \* the file that says the directory is complete
  seeds,     \* seed lessons that are there
  content,   \* content of the candidate, the approved catalog, the fixtures
  past,      \* contents that there were at one time, together
  ledger,    \* what was written to the ledger: [line, part], part of a line or "all" of it
  recorded,  \* observations whose recording succeeded
  review,    \* the review of the candidate: what it was made for, if there is one
  doing,     \* doing[p]: the command of p, how far it is and what it has read
  raced      \* two recordings that named an observation differently have overlapped

dir == <<manifest, seeds, content, ledger, review>>
vars == <<use, dir, past, recorded, doing, raced>>

Content == [candidate : 1 .. MaxContent, catalog : 1 .. MaxContent, fixtures : 1 .. MaxContent]
Idle == [at |-> "idle"]

LoreTypeOK ==
  /\ manifest \in BOOLEAN /\ seeds \subseteq Seed
  /\ content \in Content /\ past \subseteq Content
  /\ \A i \in DOMAIN ledger : ledger[i].part \in {"all", "head", "tail"}
  /\ recorded \subseteq Observation
  /\ review \subseteq Content

Init ==
  /\ use \in Commands
  /\ manifest = FALSE /\ seeds = {}
  /\ content = [candidate |-> 1, catalog |-> 1, fixtures |-> 1]
  /\ past = {content}
  /\ ledger = <<>> /\ recorded = {} /\ review = {}
  /\ doing = [p \in Process |-> Idle]
  /\ raced = FALSE

-----------------------------------------------------------------------------

At(p, step) == doing[p].at = step
Set(p, now) == doing' = [doing EXCEPT ![p] = now]
Goto(p, step) == Set(p, [doing[p] EXCEPT !.at = step])
Stop(p) == Set(p, Idle)

Start(p, command) ==
  /\ At(p, "idle") /\ command.does \in use
  /\ Set(p, command)

-----------------------------------------------------------------------------
(* ensureWritableLoreRoot and initLore.                                      *)

\* A directory with a manifest is complete, one without is initialised (again).
ensureWritableLoreRoot(p) ==
  /\ At(p, "root")
  /\ IF manifest THEN Goto(p, "ready") ELSE Goto(p, "init")
  /\ UNCHANGED <<use, dir, past, recorded, raced>>

\* The seeds that are missing now are copied, and those that are there left alone.
PlanSeeds(p) ==
  /\ At(p, "init")
  /\ Set(p, [doing[p] EXCEPT !.at = "seed", !.copies = Seed \ seeds])
  /\ UNCHANGED <<use, dir, past, recorded, raced>>

\* Each is created whole, and only if nobody has created it meanwhile.
CopySeed(p) ==
  /\ At(p, "seed")
  /\ IF doing[p].copies = {} THEN Goto(p, "manifest") /\ UNCHANGED seeds
     ELSE \E s \in doing[p].copies :
            IF s \in seeds THEN Stop(p) /\ UNCHANGED seeds
            ELSE /\ seeds' = seeds \cup {s}
                 /\ Set(p, [doing[p] EXCEPT !.copies = @ \ {s}])
  /\ UNCHANGED <<use, manifest, content, ledger, review, past, recorded, raced>>

WriteManifest(p) ==
  /\ At(p, "manifest")
  /\ manifest' = TRUE
  /\ Goto(p, "ready")
  /\ UNCHANGED <<use, seeds, content, ledger, review, past, recorded, raced>>

-----------------------------------------------------------------------------
(* recordEvidence.                                                          *)

\* A line of the ledger is what its process recorded: [of, says, catalog].
Whole(i) ==
  /\ ledger[i].part # "tail"
  /\ i > 1 => ledger[i - 1].part # "head"
  /\ ledger[i].part = "head" =>
       i < Len(ledger) /\ ledger[i + 1] = [ledger[i] EXCEPT !.part = "tail"]

\* Every line is a line, and no two name an observation with different evidence.
Garbled == \E i \in DOMAIN ledger : ledger[i].part # "tail" /\ ~Whole(i)
Lines == {ledger[i].line : i \in {j \in DOMAIN ledger : ledger[j].part # "tail"}}
Conflicting ==
  \E l, m \in Lines : l.of = m.of /\ l.says # m.says
Unreadable == Garbled \/ Conflicting

Evidence(o, says, catalog) ==
  [does |-> "evidence", at |-> "root", copies |-> {},
   line |-> [of |-> o, says |-> says, catalog |-> catalog], since |-> {content.catalog}]

\* The evidence names the catalog that the observation was made with, some time ago.
Observe(p, o, says) ==
  /\ \E catalog \in 1 .. content.catalog : Start(p, Evidence(o, says, catalog))
  /\ UNCHANGED <<use, dir, past, recorded, raced>>

Same(p) == {l \in Lines : l.of = doing[p].line.of}

\* An observation that is there already is not recorded again: whoever did not
\* get an answer may ask again.
CheckLedger(p) ==
  /\ At(p, "ready") /\ doing[p].does = "evidence"
  /\ IF Unreadable \/ (\E l \in Same(p) : l.says # doing[p].line.says)
     THEN Stop(p) /\ UNCHANGED <<recorded, raced>>
     ELSE IF Same(p) # {}
     THEN Stop(p) /\ recorded' = recorded \cup {doing[p].line.of} /\ UNCHANGED raced
     ELSE /\ Goto(p, "catalog")
          /\ raced' = (raced \/ \E q \in Process \ {p} :
                         /\ doing[q].at \in {"catalog", "again", "append", "tail"}
                         /\ doing[q].line.of = doing[p].line.of
                         /\ doing[q].line.says # doing[p].line.says)
          /\ UNCHANGED recorded
  /\ UNCHANGED <<use, dir, past>>

\* Mutation: the catalog of the observation is not compared with the present one.
AnyCatalog(p) == TRUE

SameCatalog(p) == doing[p].line.catalog = content.catalog

\* The catalog is looked at twice, before and after the event is made.
CheckCatalog(p) ==
  /\ doing[p].at \in {"catalog", "again"}
  /\ IF SameCatalog(p) THEN Goto(p, IF At(p, "catalog") THEN "again" ELSE "append") ELSE Stop(p)
  /\ UNCHANGED <<use, dir, past, recorded, raced>>

Write(p, part) == ledger' = Append(ledger, [line |-> doing[p].line, part |-> part])

\* appendJsonLine: the line is written in one go, or what is left in another.
AppendLine(p) ==
  /\ At(p, "append") /\ Len(ledger) < MaxLines
  /\ \/ Write(p, "all") /\ Stop(p) /\ recorded' = recorded \cup {doing[p].line.of}
     \/ Write(p, "head") /\ Goto(p, "tail") /\ UNCHANGED recorded
  /\ UNCHANGED <<use, manifest, seeds, content, review, past, raced>>

AppendRest(p) ==
  /\ At(p, "tail") /\ Len(ledger) < MaxLines
  /\ Write(p, "tail") /\ Stop(p)
  /\ recorded' = recorded \cup {doing[p].line.of}
  /\ UNCHANGED <<use, manifest, seeds, content, review, past, raced>>

-----------------------------------------------------------------------------
(* Reviews.                                                                 *)

Reading(p, next) ==
  [does |-> "review", at |-> "lesson", copies |-> {}, next |-> next,
   expected |-> content, packet |-> content]

\* A reviewer asks for a packet: buildReviewPacket reads the candidate with the
\* catalog, and then, with the store loaded again, the fixtures.
AskForPacket(p) ==
  /\ manifest
  /\ Start(p, Reading(p, "asked"))
  /\ UNCHANGED <<use, dir, past, recorded, raced>>

ReadLesson(p) ==
  /\ At(p, "lesson")
  /\ Set(p, [doing[p] EXCEPT !.at = "fixtures",
                             !.packet = [content EXCEPT !.fixtures = 1]])
  /\ UNCHANGED <<use, dir, past, recorded, raced>>

\* Mutation: the hash that the reviewer was given is not compared.
AnyContext(p, packet) == TRUE

SameContext(p, packet) == packet = doing[p].expected

\* The packet is shown, and built again twice when the review comes in. It has to
\* have the same hash every time.
ReadFixtures(p) ==
  /\ At(p, "fixtures")
  /\ LET packet == [doing[p].packet EXCEPT !.fixtures = content.fixtures]
         again  == [doing[p] EXCEPT !.at = "lesson"]
     IN  IF doing[p].next = "asked"
         THEN Set(p, [again EXCEPT !.next = "submitted", !.expected = packet])
         ELSE IF ~SameContext(p, packet) THEN Stop(p)
         ELSE IF doing[p].next = "submitted" THEN Set(p, [again EXCEPT !.next = "checked"])
         ELSE Goto(p, "root")
  /\ UNCHANGED <<use, dir, past, recorded, raced>>

\* The file of the review is replaced as a whole.
writeCandidateReview(p) ==
  /\ At(p, "ready") /\ doing[p].does = "review"
  /\ review' = {doing[p].expected}
  /\ Stop(p)
  /\ UNCHANGED <<use, manifest, seeds, content, ledger, past, recorded, raced>>

\* `pitlore init`, whether there is a manifest or not.
InitCommand(p) ==
  /\ Start(p, [does |-> "init", at |-> "init", copies |-> {}])
  /\ UNCHANGED <<use, dir, past, recorded, raced>>

InitDone(p) ==
  /\ At(p, "ready") /\ doing[p].does = "init"
  /\ Stop(p)
  /\ UNCHANGED <<use, dir, past, recorded, raced>>

-----------------------------------------------------------------------------

\* Authors edit the candidate and its fixtures, which only reviews read; approvals
\* change the catalog. No edit brings back an earlier content.
Edit(part) ==
  /\ content[part] < MaxContent
  /\ part = "catalog" \/ "review" \in use
  /\ content' = [content EXCEPT ![part] = @ + 1]
  /\ past' = past \cup {content'}
  /\ doing' = [p \in Process |->
       IF doing[p].at # "idle" /\ doing[p].does = "evidence"
       THEN [doing[p] EXCEPT !.since = @ \cup {content'.catalog}] ELSE doing[p]]
  /\ UNCHANGED <<use, manifest, seeds, ledger, review, recorded, raced>>

Die(p) ==
  /\ ~At(p, "idle")
  /\ Stop(p)
  /\ UNCHANGED <<use, dir, past, recorded, raced>>

Step(p) ==
  \/ ensureWritableLoreRoot(p) \/ PlanSeeds(p) \/ CopySeed(p) \/ WriteManifest(p)
  \/ InitCommand(p) \/ InitDone(p)
  \/ \E o \in Observation, says \in {"used", "irrelevant"} : Observe(p, o, says)
  \/ CheckLedger(p) \/ CheckCatalog(p) \/ AppendLine(p) \/ AppendRest(p)
  \/ AskForPacket(p) \/ ReadLesson(p) \/ ReadFixtures(p) \/ writeCandidateReview(p)
  \/ Die(p)

Next ==
  \/ \E p \in Process : Step(p)
  \/ \E part \in {"candidate", "catalog", "fixtures"} : Edit(part)

Spec == Init /\ [][Next]_vars

-----------------------------------------------------------------------------
(* Properties.                                                              *)

\* "manifest.yaml is the initialization commit marker": where it is, every seed
\* is, however many have initialised the directory, at once or after another died.
SeedsComplete == manifest => seeds = Seed

\* A ledger stays readable, and has what was recorded, unless a line was written
\* in parts or two recordings of one observation overlapped.
EvidenceKept ==
  (~raced /\ \A i \in DOMAIN ledger : ledger[i].part = "all") =>
    ~Unreadable /\ recorded \subseteq {l.of : l \in Lines}

\* What is about to be recorded speaks of a catalog that there was meanwhile, not
\* of the one of an observation made long ago.
CatalogWas ==
  \A p \in Process : At(p, "append") \/ At(p, "tail") => doing[p].line.catalog \in doing[p].since

\* A review is of a candidate, a catalog and fixtures that there were at one time,
\* although they are read one after the other while others edit them.
ReviewOfOneTime == review \subseteq past

\* store.ts, evidence.ts and review.ts do without a lock.
LoreKept == SeedsComplete /\ EvidenceKept /\ CatalogWas /\ ReviewOfOneTime

=============================================================================
