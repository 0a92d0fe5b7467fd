--------------------------- MODULE EdgeClientProofs ---------------------------
(***************************************************************************)
(* Proofs about the parts of MCEdge that run on the user's side, for any        *)
(* processes, commands and packs: the lore directory, which does without a      *)
(* lock, the commands that talk to a registry whose answers are lost, and the     *)
(* web console, whose answers come in any order.                                 *)
(***************************************************************************)
EXTENDS MCEdge, FiniteSetTheorems, TLAPS

-----------------------------------------------------------------------------
(* The lore directory: its invariant.                                        *)

Line == [of : Observation, says : {"used", "irrelevant"}, catalog : 1 .. MaxContent]

Initialising == {"init", "seed", "manifest", "ready"}

\* From the check of the ledger to the end of the line.
Recording == {"catalog", "again", "append", "tail"}

EvidenceCommand ==
  [does : {"evidence"}, at : {"root"} \cup Initialising \cup Recording, copies : SUBSET Seed,
   line : Line, since : SUBSET (1 .. MaxContent)]

ReviewCommand ==
  [does : {"review"}, at : {"lesson", "fixtures", "root"} \cup Initialising, copies : SUBSET Seed,
   next : {"asked", "submitted", "checked"}, expected : Lore!Content, packet : Lore!Content]

InitCommand == [does : {"init"}, at : Initialising, copies : SUBSET Seed]

Doing == {Lore!Idle} \cup EvidenceCommand \cup ReviewCommand \cup InitCommand

LoreTyped ==
  /\ manifest \in BOOLEAN /\ seeds \subseteq Seed
  /\ content \in Lore!Content /\ past \subseteq Lore!Content /\ content \in past
  /\ ledger \in Seq([line : Line, part : {"all", "head", "tail"}])
  /\ recorded \subseteq Observation /\ raced \in BOOLEAN
  /\ doing \in [Process -> Doing]

\* What p has not copied is there, and all of it before the manifest is written.
SeedsAhead(p) ==
  /\ doing[p].at = "seed" => Seed \subseteq seeds \cup doing[p].copies
  /\ doing[p].at = "manifest" => seeds = Seed

Quiet == ~raced /\ \A i \in DOMAIN ledger : ledger[i].part = "all"

\* What p is about to record fits the ledger and what the others are about to record.
FitsLedger(p) ==
  doing[p].at \in Recording =>
    /\ Quiet => \A l \in Lore!Lines : l.of = doing[p].line.of => l.says = doing[p].line.says
    /\ ~raced => \A q \in Process :
         doing[q].at \in Recording /\ doing[q].line.of = doing[p].line.of
           => doing[q].line.says = doing[p].line.says

CatalogSeen(p) ==
  doing[p] \in EvidenceCommand =>
    /\ content.catalog \in doing[p].since
    /\ doing[p].at \in {"append", "tail"} => doing[p].line.catalog \in doing[p].since

\* What p has read of the candidate and the catalog can only become older.
NotAhead(packet) ==
  packet.candidate <= content.candidate /\ packet.catalog <= content.catalog

SameLesson(packet, other) ==
  packet.candidate = other.candidate /\ packet.catalog = other.catalog

\* If the candidate and the catalog are found as expected, they were so all the
\* time, and when the fixtures were read.
PacketSeen(p) ==
  doing[p] \in ReviewCommand =>
    LET d == doing[p] IN
    /\ d.at \notin {"lesson", "fixtures"} => d.next = "checked"
    /\ d.next = "asked" /\ d.at = "fixtures" => NotAhead(d.packet)
    /\ d.next = "submitted" /\ d.at = "lesson" =>
         NotAhead(d.expected) /\ (SameLesson(d.expected, content) => d.expected \in past)
    /\ d.next = "submitted" /\ d.at = "fixtures" /\ SameLesson(d.packet, d.expected) =>
         d.expected \in past
    /\ d.next = "checked" => d.expected \in past

LoreInv ==
  /\ LoreTyped
  /\ Lore!SeedsComplete /\ Lore!EvidenceKept /\ Lore!ReviewOfOneTime
  /\ \A p \in Process : SeedsAhead(p) /\ FitsLedger(p) /\ CatalogSeen(p) /\ PacketSeen(p)

-----------------------------------------------------------------------------
(* The lore directory: types and frames.                                     *)

LEMMA DoingShape ==
  ASSUME LoreTyped, NEW p \in Process
  PROVE  /\ doing[p] \in Doing
         /\ doing[p].at \in Recording => doing[p] \in EvidenceCommand
         /\ doing[p].at \in {"lesson", "fixtures"} => doing[p] \in ReviewCommand
         /\ doing[p].at = "root" => doing[p] \in EvidenceCommand \cup ReviewCommand
         /\ doing[p].at \in Initialising => doing[p] \in EvidenceCommand \cup ReviewCommand \cup InitCommand
         /\ doing[p] \in EvidenceCommand => doing[p].does = "evidence"
         /\ doing[p] \in ReviewCommand => doing[p].does = "review"
         /\ doing[p] \in InitCommand => doing[p].does = "init"
         /\ doing[p] \in EvidenceCommand \cup ReviewCommand \cup InitCommand => doing[p].at # "idle"
<1>1. doing[p] \in Doing
  BY DEF LoreTyped
<1>2. \A d \in EvidenceCommand : d.does = "evidence" /\ d.at \in {"root"} \cup Initialising \cup Recording
  BY DEF EvidenceCommand
<1>3. \A d \in ReviewCommand : d.does = "review" /\ d.at \in {"lesson", "fixtures", "root"} \cup Initialising
  BY DEF ReviewCommand
<1>4. \A d \in InitCommand : d.does = "init" /\ d.at \in Initialising
  BY DEF InitCommand
<1>5. Lore!Idle.at = "idle"
  BY DEF Lore!Idle
<1>. QED  BY <1>1, <1>2, <1>3, <1>4, <1>5 DEF Doing, Recording, Initialising

\* A step of p leaves where the others are.
OnlyMoves(p) == \A q \in Process \ {p} : doing'[q] = doing[q]

LEMMA SetMoves ==
  ASSUME LoreTyped, NEW p \in Process, NEW d \in Doing, Lore!Set(p, d)
  PROVE  OnlyMoves(p) /\ doing'[p] = d /\ doing' \in [Process -> Doing]
BY DEF LoreTyped, Lore!Set, OnlyMoves

\* What the others are at does not depend on anything that a step of p changes.
LEMMA OthersKept ==
  ASSUME LoreInv, NEW p \in Process, OnlyMoves(p), UNCHANGED <<content, past>>,
         seeds \subseteq seeds', seeds' \subseteq Seed
  PROVE  \A q \in Process \ {p} : SeedsAhead(q)' /\ CatalogSeen(q)' /\ PacketSeen(q)'
<1>. SUFFICES ASSUME NEW q \in Process \ {p}
              PROVE  SeedsAhead(q)' /\ CatalogSeen(q)' /\ PacketSeen(q)'
  OBVIOUS
<1>1. doing'[q] = doing[q] /\ SeedsAhead(q) /\ CatalogSeen(q) /\ PacketSeen(q)
  BY DEF LoreInv, OnlyMoves
<1>2. SeedsAhead(q)'
  BY <1>1 DEF SeedsAhead
<1>3. CatalogSeen(q)'
  BY <1>1 DEF CatalogSeen
<1>4. PacketSeen(q)'
  BY <1>1 DEF PacketSeen, NotAhead, SameLesson
<1>. QED  BY <1>2, <1>3, <1>4

\* Nobody begins to record, and nothing has been recorded.
LEMMA LedgerKept ==
  ASSUME LoreInv, NEW p \in Process, OnlyMoves(p), UNCHANGED <<ledger, raced>>,
         doing'[p].at \in Recording => doing[p].at \in Recording /\ doing'[p].line = doing[p].line
  PROVE  \A q \in Process : FitsLedger(q)'
<1>. SUFFICES ASSUME NEW q \in Process, doing'[q].at \in Recording
              PROVE  FitsLedger(q)'
  BY DEF FitsLedger
<1>1. \A r \in Process : doing'[r].at \in Recording =>
        doing[r].at \in Recording /\ doing'[r].line = doing[r].line
  BY DEF OnlyMoves
<1>2. FitsLedger(q)
  BY DEF LoreInv
<1>. QED  BY <1>1, <1>2 DEF FitsLedger, Quiet, Lore!Lines

\* A step that moves p and leaves the ledger.
LEMMA MoveKeepsLore ==
  ASSUME LoreInv, NEW p \in Process, NEW d \in Doing, Lore!Set(p, d),
         UNCHANGED <<content, ledger, past, recorded, raced>>,
         manifest' \in BOOLEAN, seeds \subseteq seeds', seeds' \subseteq Seed,
         Lore!SeedsComplete', Lore!ReviewOfOneTime',
         d.at \in Recording => doing[p].at \in Recording /\ d.line = doing[p].line,
         SeedsAhead(p)', CatalogSeen(p)', PacketSeen(p)'
  PROVE  LoreInv'
<1>1. OnlyMoves(p) /\ doing'[p] = d /\ doing' \in [Process -> Doing]
  BY SetMoves DEF LoreInv
<1>2. LoreTyped'
  BY <1>1 DEF LoreInv, LoreTyped
<1>3. Lore!EvidenceKept'
  BY DEF LoreInv, Lore!EvidenceKept, Lore!Unreadable, Lore!Garbled, Lore!Whole, Lore!Conflicting, Lore!Lines
<1>4. \A q \in Process \ {p} : SeedsAhead(q)' /\ CatalogSeen(q)' /\ PacketSeen(q)'
  BY <1>1, OthersKept
<1>5. \A q \in Process : FitsLedger(q)'
  BY <1>1, LedgerKept
<1>. QED  BY <1>2, <1>3, <1>4, <1>5 DEF LoreInv

LEMMA LoreInit ==
  ASSUME Lore!Init
  PROVE  LoreInv
<1>1. LoreTyped
  <2>1. content \in Lore!Content /\ past = {content}
    BY LoreAssumption DEF Lore!Init, Lore!Content
  <2>2. ledger \in Seq([line : Line, part : {"all", "head", "tail"}])
    BY DEF Lore!Init
  <2>3. doing \in [Process -> Doing]
    BY DEF Lore!Init, Doing
  <2>. QED  BY <2>1, <2>2, <2>3 DEF Lore!Init, LoreTyped
<1>2. Lore!SeedsComplete /\ Lore!ReviewOfOneTime
  BY DEF Lore!Init, Lore!SeedsComplete, Lore!ReviewOfOneTime
<1>3. Lore!EvidenceKept
  BY DEF Lore!Init, Lore!EvidenceKept, Lore!Unreadable, Lore!Garbled, Lore!Conflicting, Lore!Lines
<1>4. ASSUME NEW p \in Process
      PROVE  SeedsAhead(p) /\ FitsLedger(p) /\ CatalogSeen(p) /\ PacketSeen(p)
  <2>1. doing[p].at = "idle"
    BY DEF Lore!Init, Lore!Idle
  <2>. QED  BY <1>1, <2>1, DoingShape DEF SeedsAhead, FitsLedger, CatalogSeen, PacketSeen, Recording
<1>. QED  BY <1>1, <1>2, <1>3, <1>4 DEF LoreInv

\* What the directory has beside the ledger stays.
LEMMA DirectoryKept ==
  ASSUME LoreInv, UNCHANGED <<manifest, seeds, review, past>>
  PROVE  /\ manifest' \in BOOLEAN /\ seeds \subseteq seeds' /\ seeds' \subseteq Seed
         /\ Lore!SeedsComplete' /\ Lore!ReviewOfOneTime'
BY DEF LoreInv, LoreTyped, Lore!SeedsComplete, Lore!ReviewOfOneTime

\* A command that goes on to its next step keeps what it has.
LEMMA Onward ==
  ASSUME NEW d, NEW step
  PROVE  LET e == [d EXCEPT !.at = step] IN
         /\ d \in EvidenceCommand /\ step \in {"root"} \cup Initialising \cup Recording =>
              /\ e \in EvidenceCommand /\ e.at = step
              /\ e.copies = d.copies /\ e.line = d.line /\ e.since = d.since
         /\ d \in ReviewCommand /\ step \in {"lesson", "fixtures", "root"} \cup Initialising =>
              /\ e \in ReviewCommand /\ e.at = step
              /\ e.copies = d.copies /\ e.next = d.next /\ e.expected = d.expected /\ e.packet = d.packet
         /\ d \in InitCommand /\ step \in Initialising =>
              e \in InitCommand /\ e.at = step /\ e.copies = d.copies
<1>. DEFINE e == [d EXCEPT !.at = step]
<1>1. ASSUME d \in EvidenceCommand, step \in {"root"} \cup Initialising \cup Recording
      PROVE  /\ e \in EvidenceCommand /\ e.at = step
             /\ e.copies = d.copies /\ e.line = d.line /\ e.since = d.since
  BY <1>1 DEF EvidenceCommand
<1>2. ASSUME d \in ReviewCommand, step \in {"lesson", "fixtures", "root"} \cup Initialising
      PROVE  /\ e \in ReviewCommand /\ e.at = step
             /\ e.copies = d.copies /\ e.next = d.next /\ e.expected = d.expected /\ e.packet = d.packet
  BY <1>2 DEF ReviewCommand
<1>3. ASSUME d \in InitCommand, step \in Initialising
      PROVE  e \in InitCommand /\ e.at = step /\ e.copies = d.copies
  BY <1>3 DEF InitCommand
<1>. QED  BY <1>1, <1>2, <1>3

\* No command is of two kinds, and one that stops is of none.
LEMMA Kinds ==
  /\ EvidenceCommand \cap ReviewCommand = {} /\ EvidenceCommand \cap InitCommand = {}
  /\ ReviewCommand \cap InitCommand = {}
  /\ Lore!Idle \notin EvidenceCommand \cup ReviewCommand \cup InitCommand
  /\ Lore!Idle \in Doing /\ Lore!Idle.at = "idle"
<1>1. \A d \in EvidenceCommand : d.does = "evidence" /\ d.at # "idle"
  BY DEF EvidenceCommand, Initialising, Recording
<1>2. \A d \in ReviewCommand : d.does = "review" /\ d.at # "idle"
  BY DEF ReviewCommand, Initialising
<1>3. \A d \in InitCommand : d.does = "init" /\ d.at # "idle"
  BY DEF InitCommand, Initialising
<1>4. Lore!Idle.at = "idle"
  BY DEF Lore!Idle
<1>. QED  BY <1>1, <1>2, <1>3, <1>4 DEF Doing

\* A command that copies seeds keeps the rest.
LEMMA Copying ==
  ASSUME NEW d \in EvidenceCommand \cup ReviewCommand \cup InitCommand,
         NEW e, NEW copies \in SUBSET Seed,
         \/ e = [d EXCEPT !.at = "seed", !.copies = copies]
         \/ e = [d EXCEPT !.copies = copies] /\ d.at = "seed"
  PROVE  /\ e \in Doing /\ e.at = "seed" /\ e.copies = copies
         /\ e \in EvidenceCommand => d \in EvidenceCommand /\ e.since = d.since
         /\ e \in ReviewCommand => d \in ReviewCommand /\ e.next = d.next /\ e.expected = d.expected
<1>1. ASSUME d \in EvidenceCommand
      PROVE  e \in EvidenceCommand /\ e.at = "seed" /\ e.copies = copies /\ e.since = d.since
  BY <1>1 DEF EvidenceCommand, Initialising
<1>2. ASSUME d \in ReviewCommand
      PROVE  /\ e \in ReviewCommand /\ e.at = "seed" /\ e.copies = copies
             /\ e.next = d.next /\ e.expected = d.expected
  BY <1>2 DEF ReviewCommand, Initialising
<1>3. ASSUME d \in InitCommand
      PROVE  e \in InitCommand /\ e.at = "seed" /\ e.copies = copies
  BY <1>3 DEF InitCommand, Initialising
<1>. QED  BY <1>1, <1>2, <1>3, Kinds DEF Doing

\* What p is at from now on is idle: nothing is left to show about it.
LEMMA Stopped ==
  ASSUME LoreTyped, NEW p \in Process, Lore!Stop(p)
  PROVE  /\ Lore!Set(p, Lore!Idle) /\ Lore!Idle \in Doing /\ Lore!Idle.at = "idle"
         /\ OnlyMoves(p) /\ doing'[p] = Lore!Idle /\ doing' \in [Process -> Doing]
         /\ SeedsAhead(p)' /\ CatalogSeen(p)' /\ PacketSeen(p)'
<1>1. Lore!Set(p, Lore!Idle) /\ Lore!Idle \in Doing /\ Lore!Idle.at = "idle"
  BY Kinds DEF Lore!Stop
<1>2. OnlyMoves(p) /\ doing'[p] = Lore!Idle /\ doing' \in [Process -> Doing]
  BY <1>1, SetMoves, Zenon
<1>3. SeedsAhead(p)' /\ CatalogSeen(p)' /\ PacketSeen(p)'
  BY <1>1, <1>2, Kinds DEF SeedsAhead, CatalogSeen, PacketSeen
<1>. QED  BY <1>1, <1>2, <1>3

LEMMA StopKeepsLore ==
  ASSUME LoreInv, NEW p \in Process, Lore!Stop(p),
         UNCHANGED <<manifest, seeds, content, ledger, review, past, recorded, raced>>
  PROVE  LoreInv'
BY Stopped, DirectoryKept, MoveKeepsLore DEF LoreInv, Recording

\* A step that only moves p on keeps what it has read.
LEMMA GotoKeepsLore ==
  ASSUME LoreInv, NEW p \in Process, NEW step, Lore!Goto(p, step),
         UNCHANGED <<seeds, content, ledger, review, past, recorded, raced>>,
         manifest' \in BOOLEAN, Lore!SeedsComplete',
         \/ /\ doing[p] \in EvidenceCommand /\ step \in {"root"} \cup Initialising \cup Recording
            /\ step \in Recording => doing[p].at \in Recording
            /\ step \in {"append", "tail"} =>
                 doing[p].at \in {"append", "tail"} \/ doing[p].line.catalog = content.catalog
         \/ /\ doing[p] \in ReviewCommand /\ step \in {"root"} \cup Initialising
            /\ doing[p].next = "checked"
         \/ doing[p] \in InitCommand /\ step \in Initialising,
         step # "seed", step = "manifest" => seeds = Seed
  PROVE  LoreInv'
<1>. DEFINE d == [doing[p] EXCEPT !.at = step]
<1>1. LoreTyped /\ CatalogSeen(p) /\ PacketSeen(p) /\ Lore!Set(p, d)
  BY DEF LoreInv, Lore!Goto
<1>2. /\ d \in EvidenceCommand \cup ReviewCommand \cup InitCommand /\ d.at = step
      /\ doing[p] \in EvidenceCommand => d \in EvidenceCommand /\ d.line = doing[p].line /\ d.since = doing[p].since
      /\ doing[p] \in ReviewCommand => d \in ReviewCommand /\ d.next = doing[p].next /\ d.expected = doing[p].expected
      /\ doing[p] \in InitCommand => d \in InitCommand
  <2>1. CASE doing[p] \in EvidenceCommand
    BY <2>1, Kinds, Onward
  <2>2. CASE doing[p] \in ReviewCommand
    BY <2>2, Kinds, Onward
  <2>3. CASE doing[p] \in InitCommand
    BY <2>3, Kinds, Onward
  <2>. QED  BY <2>1, <2>2, <2>3
<1>3. d \in Doing /\ OnlyMoves(p) /\ doing'[p] = d
  BY <1>1, <1>2, SetMoves DEF Doing
<1>4. SeedsAhead(p)'
  BY <1>2, <1>3 DEF SeedsAhead
<1>5. CatalogSeen(p)'
  BY <1>1, <1>2, <1>3, Kinds DEF CatalogSeen, Initialising, Recording
<1>6. PacketSeen(p)'
  <2>1. CASE doing[p] \in ReviewCommand
    BY <1>1, <1>2, <1>3, <2>1, Kinds DEF PacketSeen, Initialising
  <2>2. CASE doing[p] \notin ReviewCommand
    BY <1>1, <1>2, <1>3, <2>2, Kinds DEF PacketSeen
  <2>. QED  BY <2>1, <2>2
<1>7. d.at \in Recording => doing[p].at \in Recording /\ d.line = doing[p].line
  BY <1>2, Kinds DEF Initialising, Recording
<1>8. seeds \subseteq seeds' /\ seeds' \subseteq Seed /\ Lore!ReviewOfOneTime'
  BY DEF LoreInv, LoreTyped, Lore!ReviewOfOneTime
<1>. QED  BY <1>1, <1>3, <1>4, <1>5, <1>6, <1>7, <1>8, MoveKeepsLore

-----------------------------------------------------------------------------
(* The lore directory: its steps.                                            *)

LEMMA InitialisationStep ==
  ASSUME LoreInv, NEW p \in Process,
         \/ Lore!ensureWritableLoreRoot(p) \/ Lore!PlanSeeds(p) \/ Lore!CopySeed(p)
         \/ Lore!WriteManifest(p) \/ Lore!InitCommand(p) \/ Lore!InitDone(p)
  PROVE  LoreInv'
<1>1. LoreTyped /\ SeedsAhead(p) /\ CatalogSeen(p) /\ PacketSeen(p)
  BY DEF LoreInv
<1>2. CASE Lore!ensureWritableLoreRoot(p)
  <2>1. PICK step \in {"ready", "init"} : Lore!Goto(p, step)
    BY <1>2 DEF Lore!ensureWritableLoreRoot
  <2>2. doing[p].at = "root" /\ UNCHANGED <<manifest, seeds, content, ledger, review, past, recorded, raced>>
    BY <1>2 DEF Lore!ensureWritableLoreRoot, Lore!At, Lore!dir
  <2>3. \/ doing[p] \in EvidenceCommand
        \/ doing[p] \in ReviewCommand /\ doing[p].next = "checked"
    <3>1. doing[p] \in EvidenceCommand \cup ReviewCommand
      BY <1>1, <2>2, DoingShape
    <3>2. doing[p] \in ReviewCommand => doing[p].next = "checked"
      BY <1>1, <2>2 DEF PacketSeen
    <3>. QED  BY <3>1, <3>2
  <2>. QED  BY <2>1, <2>2, <2>3, DirectoryKept, GotoKeepsLore DEF Initialising, Recording
<1>3. CASE Lore!PlanSeeds(p)
  <2>. DEFINE d == [doing[p] EXCEPT !.at = "seed", !.copies = Seed \ seeds]
  <2>1. /\ doing[p].at = "init" /\ Lore!Set(p, d)
        /\ UNCHANGED <<manifest, seeds, content, ledger, review, past, recorded, raced>>
    BY <1>3 DEF Lore!PlanSeeds, Lore!At, Lore!dir
  <2>. HIDE DEF d
  <2>2. /\ d \in Doing /\ d.at = "seed" /\ d.copies = Seed \ seeds
        /\ d \in EvidenceCommand => doing[p] \in EvidenceCommand /\ d.since = doing[p].since
        /\ d \in ReviewCommand => doing[p] \in ReviewCommand /\ d.next = doing[p].next /\ d.expected = doing[p].expected
    <3>1. doing[p] \in EvidenceCommand \cup ReviewCommand \cup InitCommand
      BY <1>1, <2>1, DoingShape DEF Initialising
    <3>2. Seed \ seeds \in SUBSET Seed
      OBVIOUS
    <3>. QED  BY <3>1, <3>2, Copying DEF d
  <2>3. d \in Doing /\ OnlyMoves(p) /\ doing'[p] = d
    BY <1>1, <2>1, <2>2, SetMoves
  <2>4. SeedsAhead(p)'
    BY <2>1, <2>2, <2>3 DEF SeedsAhead
  <2>5. CatalogSeen(p)'
    BY <1>1, <2>1, <2>2, <2>3 DEF CatalogSeen
  <2>6. PacketSeen(p)'
    BY <1>1, <2>1, <2>2, <2>3 DEF PacketSeen
  <2>. QED  BY <2>1, <2>2, <2>3, <2>4, <2>5, <2>6, DirectoryKept, MoveKeepsLore DEF Recording
<1>4. CASE Lore!CopySeed(p)
  <2>1. doing[p].at = "seed" /\ UNCHANGED <<manifest, content, ledger, review, past, recorded, raced>>
    BY <1>4 DEF Lore!CopySeed, Lore!At
  <2>2. \/ doing[p] \in EvidenceCommand
        \/ doing[p] \in ReviewCommand /\ doing[p].next = "checked"
        \/ doing[p] \in InitCommand
    BY <1>1, <2>1, DoingShape DEF PacketSeen, Initialising
  <2>3. CASE doing[p].copies = {}
    <3>1. seeds = Seed
      BY <1>1, <2>1, <2>3 DEF SeedsAhead, LoreTyped
    <3>2. Lore!Goto(p, "manifest") /\ UNCHANGED seeds
      BY <1>4, <2>3 DEF Lore!CopySeed
    <3>. QED  BY <2>1, <2>2, <3>1, <3>2, DirectoryKept, GotoKeepsLore DEF Initialising, Recording
  <2>4. ASSUME NEW s \in doing[p].copies, s \in seeds, Lore!Stop(p), UNCHANGED seeds
        PROVE  LoreInv'
    BY <2>1, <2>4, StopKeepsLore
  <2>5. ASSUME NEW s \in doing[p].copies, seeds' = seeds \cup {s},
               Lore!Set(p, [doing[p] EXCEPT !.copies = @ \ {s}])
        PROVE  LoreInv'
    <3>. DEFINE d == [doing[p] EXCEPT !.copies = @ \ {s}]
    <3>1. Lore!Set(p, d)
      BY <2>5
    <3>. HIDE DEF d
    <3>2. /\ d \in Doing /\ d.at = "seed" /\ d.copies = doing[p].copies \ {s}
          /\ d \in EvidenceCommand => doing[p] \in EvidenceCommand /\ d.since = doing[p].since
          /\ d \in ReviewCommand => doing[p] \in ReviewCommand /\ d.next = doing[p].next /\ d.expected = doing[p].expected
      <4>1. doing[p].copies \ {s} \in SUBSET Seed
        BY <2>2 DEF EvidenceCommand, ReviewCommand, InitCommand
      <4>. QED  BY <2>1, <2>2, <4>1, Copying DEF d
    <3>3. d \in Doing /\ OnlyMoves(p) /\ doing'[p] = d
      BY <1>1, <3>1, <3>2, SetMoves DEF Doing
    <3>4. SeedsAhead(p)'
      BY <1>1, <2>1, <2>5, <3>2, <3>3 DEF SeedsAhead
    <3>5. CatalogSeen(p)'
      BY <1>1, <2>1, <3>2, <3>3 DEF CatalogSeen
    <3>6. PacketSeen(p)'
      BY <1>1, <2>1, <3>2, <3>3 DEF PacketSeen
    <3>7. /\ manifest' \in BOOLEAN /\ seeds \subseteq seeds' /\ seeds' \subseteq Seed
          /\ Lore!SeedsComplete' /\ Lore!ReviewOfOneTime'
      BY <1>1, <2>1, <2>2, <2>5 DEF LoreInv, LoreTyped, EvidenceCommand, ReviewCommand, InitCommand,
                              Lore!SeedsComplete, Lore!ReviewOfOneTime
    <3>. QED  BY <2>1, <3>1, <3>2, <3>3, <3>4, <3>5, <3>6, <3>7, MoveKeepsLore DEF Recording
  <2>. QED  BY <1>4, <2>3, <2>4, <2>5 DEF Lore!CopySeed
<1>5. CASE Lore!WriteManifest(p)
  <2>1. /\ doing[p].at = "manifest" /\ manifest' = TRUE /\ Lore!Goto(p, "ready")
        /\ UNCHANGED <<seeds, content, ledger, review, past, recorded, raced>>
    BY <1>5 DEF Lore!WriteManifest, Lore!At
  <2>2. \/ doing[p] \in EvidenceCommand
        \/ doing[p] \in ReviewCommand /\ doing[p].next = "checked"
        \/ doing[p] \in InitCommand
    BY <1>1, <2>1, DoingShape DEF PacketSeen, Initialising
  <2>3. Lore!SeedsComplete'
    BY <1>1, <2>1 DEF SeedsAhead, Lore!SeedsComplete
  <2>. QED  BY <2>1, <2>2, <2>3, GotoKeepsLore DEF Initialising, Recording
<1>6. CASE Lore!InitCommand(p)
  <2>. DEFINE d == [does |-> "init", at |-> "init", copies |-> {}]
  <2>1. Lore!Set(p, d) /\ UNCHANGED <<manifest, seeds, content, ledger, review, past, recorded, raced>>
    BY <1>6 DEF Lore!InitCommand, Lore!Start, Lore!dir
  <2>2. d \in InitCommand
    BY DEF InitCommand, Initialising
  <2>3. d \in Doing /\ OnlyMoves(p) /\ doing'[p] = d
    BY <1>1, <2>1, <2>2, SetMoves DEF Doing
  <2>4. SeedsAhead(p)' /\ CatalogSeen(p)' /\ PacketSeen(p)'
    BY <2>2, <2>3, Kinds DEF SeedsAhead, CatalogSeen, PacketSeen
  <2>. QED  BY <2>1, <2>3, <2>4, DirectoryKept, MoveKeepsLore DEF Recording
<1>7. CASE Lore!InitDone(p)
  BY <1>7, StopKeepsLore DEF Lore!InitDone, Lore!dir
<1>. QED  BY <1>2, <1>3, <1>4, <1>5, <1>6, <1>7

\* AskForPacket, ReadLesson and ReadFixtures only read; writeCandidateReview
\* writes what was found unchanged.
LEMMA ReviewStep ==
  ASSUME LoreInv, NEW p \in Process,
         \/ Lore!AskForPacket(p) \/ Lore!ReadLesson(p) \/ Lore!ReadFixtures(p)
         \/ Lore!writeCandidateReview(p)
  PROVE  LoreInv'
<1>1. LoreTyped /\ PacketSeen(p)
  BY DEF LoreInv
<1>2. content \in Lore!Content /\ content \in past
  BY <1>1 DEF LoreTyped
\* What is left to show when p has got d.
<1>3. ASSUME NEW d \in ReviewCommand, Lore!Set(p, d), d.at \in {"lesson", "fixtures"},
             UNCHANGED <<manifest, seeds, content, ledger, review, past, recorded, raced>>,
             d.next = "asked" /\ d.at = "fixtures" => NotAhead(d.packet),
             d.next = "submitted" /\ d.at = "lesson" =>
               NotAhead(d.expected) /\ (SameLesson(d.expected, content) => d.expected \in past),
             d.next = "submitted" /\ d.at = "fixtures" /\ SameLesson(d.packet, d.expected) =>
               d.expected \in past,
             d.next = "checked" => d.expected \in past
      PROVE  LoreInv'
  <2>1. d \in Doing /\ OnlyMoves(p) /\ doing'[p] = d
    BY <1>1, <1>3, SetMoves DEF Doing
  <2>2. SeedsAhead(p)'
    BY <1>3, <2>1 DEF SeedsAhead
  <2>3. CatalogSeen(p)'
    BY <1>3, <2>1, Kinds DEF CatalogSeen
  <2>4. PacketSeen(p)'
    BY <1>3, <2>1 DEF PacketSeen, NotAhead, SameLesson
  <2>. QED  BY <1>3, <2>1, <2>2, <2>3, <2>4, DirectoryKept, MoveKeepsLore DEF Recording
<1>4. CASE Lore!AskForPacket(p)
  <2>. DEFINE d == Lore!Reading(p, "asked")
  <2>1. Lore!Set(p, d) /\ UNCHANGED <<manifest, seeds, content, ledger, review, past, recorded, raced>>
    BY <1>4 DEF Lore!AskForPacket, Lore!Start, Lore!dir
  <2>2. d \in ReviewCommand /\ d.at = "lesson" /\ d.next = "asked"
    BY <1>2 DEF Lore!Reading, ReviewCommand
  <2>. HIDE DEF d
  <2>. QED  BY <1>3, <2>1, <2>2
<1>5. CASE Lore!ReadLesson(p)
  <2>. DEFINE d == [doing[p] EXCEPT !.at = "fixtures", !.packet = [content EXCEPT !.fixtures = 1]]
  <2>1. /\ doing[p].at = "lesson" /\ Lore!Set(p, d)
        /\ UNCHANGED <<manifest, seeds, content, ledger, review, past, recorded, raced>>
    BY <1>5 DEF Lore!ReadLesson, Lore!At, Lore!dir
  <2>2. doing[p] \in ReviewCommand
    BY <1>1, <2>1, DoingShape
  <2>3. /\ [content EXCEPT !.fixtures = 1] \in Lore!Content
        /\ SameLesson([content EXCEPT !.fixtures = 1], content)
    BY <1>2, LoreAssumption DEF Lore!Content, SameLesson
  <2>4. /\ d \in ReviewCommand /\ d.at = "fixtures" /\ d.packet = [content EXCEPT !.fixtures = 1]
        /\ d.next = doing[p].next /\ d.expected = doing[p].expected
    BY <2>2, <2>3 DEF ReviewCommand
  <2>. HIDE DEF d
  <2>5. NotAhead(d.packet)
    BY <1>2, <2>3, <2>4 DEF NotAhead, SameLesson, Lore!Content
  <2>6. d.next = "submitted" /\ SameLesson(d.packet, d.expected) => d.expected \in past
    BY <1>1, <2>1, <2>2, <2>3, <2>4 DEF PacketSeen, SameLesson
  <2>7. d.next = "checked" => d.expected \in past
    BY <1>1, <2>2, <2>4 DEF PacketSeen
  <2>. QED  BY <1>3, <2>1, <2>4, <2>5, <2>6, <2>7
<1>6. CASE Lore!ReadFixtures(p)
  <2>. DEFINE packet == [doing[p].packet EXCEPT !.fixtures = content.fixtures]
              again == [doing[p] EXCEPT !.at = "lesson"]
  <2>1. /\ doing[p].at = "fixtures"
        /\ UNCHANGED <<manifest, seeds, content, ledger, review, past, recorded, raced>>
    BY <1>6 DEF Lore!ReadFixtures, Lore!At, Lore!dir
  <2>2. doing[p] \in ReviewCommand
    BY <1>1, <2>1, DoingShape
  <2>3. packet \in Lore!Content /\ packet.fixtures = content.fixtures /\ SameLesson(packet, doing[p].packet)
    BY <1>2, <2>2 DEF Lore!Content, ReviewCommand, SameLesson
  <2>. HIDE DEF packet
  <2>4. CASE doing[p].next = "asked"
    <3>. DEFINE d == [again EXCEPT !.next = "submitted", !.expected = packet]
    <3>1. Lore!Set(p, d)
      BY <1>6, <2>4 DEF Lore!ReadFixtures, packet
    <3>2. d \in ReviewCommand /\ d.at = "lesson" /\ d.next = "submitted" /\ d.expected = packet
      BY <2>2, <2>3 DEF ReviewCommand
    <3>. HIDE DEF d
    <3>3. NotAhead(packet)
      BY <1>1, <2>1, <2>2, <2>3, <2>4 DEF PacketSeen, NotAhead, SameLesson
    <3>4. SameLesson(packet, content) => packet = content
      BY <1>2, <2>3 DEF SameLesson, Lore!Content
    <3>. QED  BY <1>2, <1>3, <2>1, <3>1, <3>2, <3>3, <3>4
  <2>5. CASE doing[p].next # "asked" /\ ~Lore!SameContext(p, packet)
    BY <1>6, <2>1, <2>5, StopKeepsLore DEF Lore!ReadFixtures, packet
  <2>6. CASE doing[p].next # "asked" /\ Lore!SameContext(p, packet)
    <3>1. doing[p].expected \in past
      <4>1. doing[p].next \in {"submitted", "checked"}
        BY <2>2, <2>6 DEF ReviewCommand
      <4>. QED  BY <1>1, <2>1, <2>2, <2>3, <2>6, <4>1 DEF PacketSeen, SameLesson, Lore!SameContext
    <3>2. CASE doing[p].next = "submitted"
      <4>. DEFINE d == [again EXCEPT !.next = "checked"]
      <4>1. Lore!Set(p, d)
        BY <1>6, <2>6, <3>2 DEF Lore!ReadFixtures, packet
      <4>2. d \in ReviewCommand /\ d.at = "lesson" /\ d.next = "checked" /\ d.expected = doing[p].expected
        BY <2>2 DEF ReviewCommand
      <4>. HIDE DEF d
      <4>. QED  BY <1>3, <2>1, <3>1, <4>1, <4>2
    <3>3. CASE doing[p].next # "submitted"
      <4>1. Lore!Goto(p, "root") /\ doing[p].next = "checked"
        BY <1>6, <2>2, <2>6, <3>3 DEF Lore!ReadFixtures, packet, ReviewCommand
      <4>. QED  BY <2>1, <2>2, <4>1, DirectoryKept, GotoKeepsLore
    <3>. QED  BY <3>2, <3>3
  <2>. QED  BY <2>4, <2>5, <2>6
<1>7. CASE Lore!writeCandidateReview(p)
  <2>1. /\ doing[p].at = "ready" /\ doing[p].does = "review"
        /\ review' = {doing[p].expected} /\ Lore!Stop(p)
        /\ UNCHANGED <<manifest, seeds, content, ledger, past, recorded, raced>>
    BY <1>7 DEF Lore!writeCandidateReview, Lore!At
  <2>2. doing[p] \in ReviewCommand
    BY <1>1, <2>1, DoingShape DEF Initialising
  <2>3. doing[p].expected \in past
    BY <1>1, <2>1, <2>2 DEF PacketSeen
  <2>4. /\ manifest' \in BOOLEAN /\ seeds \subseteq seeds' /\ seeds' \subseteq Seed
        /\ Lore!SeedsComplete' /\ Lore!ReviewOfOneTime'
    BY <2>1, <2>3 DEF LoreInv, LoreTyped, Lore!SeedsComplete, Lore!ReviewOfOneTime
  <2>. QED  BY <1>1, <2>1, <2>4, Stopped, MoveKeepsLore DEF Recording
<1>. QED  BY <1>4, <1>5, <1>6, <1>7

\* With whole lines only, the ledger is unreadable if two of them conflict.
LEMMA QuietReadable ==
  ASSUME LoreTyped, Quiet
  PROVE  Lore!Unreadable <=> Lore!Conflicting
<1>1. \A i \in DOMAIN ledger : i > 1 => i - 1 \in DOMAIN ledger
  BY DEF LoreTyped
<1>2. \A i \in DOMAIN ledger : Lore!Whole(i)
  BY <1>1 DEF Quiet, Lore!Whole
<1>. QED  BY <1>2 DEF Lore!Unreadable, Lore!Garbled

\* What a write adds to the ledger.
LEMMA Written ==
  ASSUME LoreTyped, NEW p \in Process, doing[p] \in EvidenceCommand,
         NEW part_ \in {"all", "head", "tail"}, Lore!Write(p, part_)
  PROVE  /\ ledger' \in Seq([line : Line, part : {"all", "head", "tail"}])
         /\ Quiet' /\ raced' = raced => Quiet /\ part_ = "all"
         /\ Quiet' => Lore!Lines' = {ledger'[i].line : i \in DOMAIN ledger'}
         /\ Lore!Lines' \subseteq Lore!Lines \cup {doing[p].line}
         /\ part_ = "all" => doing[p].line \in Lore!Lines'
         /\ Lore!Lines \subseteq Lore!Lines'
<1>. DEFINE entry == [line |-> doing[p].line, part |-> part_]
<1>1. entry \in [line : Line, part : {"all", "head", "tail"}] /\ ledger' = Append(ledger, entry)
  BY DEF Lore!Write, EvidenceCommand
<1>. HIDE DEF entry
<1>2. /\ ledger' \in Seq([line : Line, part : {"all", "head", "tail"}])
      /\ DOMAIN ledger = 1 .. Len(ledger) /\ DOMAIN ledger' = 1 .. Len(ledger) + 1
      /\ \A i \in DOMAIN ledger : ledger'[i] = ledger[i]
      /\ ledger'[Len(ledger) + 1] = entry /\ Len(ledger) \in Nat
  BY <1>1 DEF LoreTyped
<1>3. entry.line = doing[p].line /\ entry.part = part_
  BY DEF entry
<1>4. Quiet' /\ raced' = raced => Quiet /\ part_ = "all"
  BY <1>2, <1>3 DEF Quiet
<1>5. Quiet' => Lore!Lines' = {ledger'[i].line : i \in DOMAIN ledger'}
  BY DEF Quiet, Lore!Lines
<1>6. Lore!Lines' \subseteq Lore!Lines \cup {doing[p].line}
  BY <1>2, <1>3 DEF Lore!Lines
<1>7. part_ = "all" => doing[p].line \in Lore!Lines'
  BY <1>2, <1>3 DEF Lore!Lines
<1>8. Lore!Lines \subseteq Lore!Lines'
  BY <1>2 DEF Lore!Lines
<1>. QED  BY <1>2, <1>4, <1>5, <1>6, <1>7, <1>8

\* Observe, CheckLedger, CheckCatalog.
LEMMA CheckStep ==
  ASSUME LoreInv, NEW p \in Process,
         \/ \E o \in Observation, says \in {"used", "irrelevant"} : Lore!Observe(p, o, says)
         \/ Lore!CheckLedger(p) \/ Lore!CheckCatalog(p)
  PROVE  LoreInv'
<1>1. LoreTyped /\ CatalogSeen(p)
  BY DEF LoreInv
<1>2. CASE \E o \in Observation, says \in {"used", "irrelevant"} : Lore!Observe(p, o, says)
  <2>1. PICK o \in Observation, says \in {"used", "irrelevant"}, catalog \in 1 .. content.catalog :
          /\ Lore!Set(p, Lore!Evidence(o, says, catalog))
          /\ UNCHANGED <<manifest, seeds, content, ledger, review, past, recorded, raced>>
    BY <1>2 DEF Lore!Observe, Lore!Start, Lore!dir
  <2>. DEFINE d == Lore!Evidence(o, says, catalog)
  <2>2. content.catalog \in 1 .. MaxContent
    BY <1>1 DEF LoreTyped, Lore!Content
  <2>3. catalog \in 1 .. MaxContent
    BY <2>2, LoreAssumption
  <2>4. d \in EvidenceCommand /\ d.at = "root" /\ content.catalog \in d.since
    BY <2>2, <2>3 DEF Lore!Evidence, EvidenceCommand, Line
  <2>. HIDE DEF d
  <2>5. d \in Doing /\ OnlyMoves(p) /\ doing'[p] = d
    BY <1>1, <2>1, <2>4, SetMoves DEF Doing, d
  <2>6. SeedsAhead(p)' /\ CatalogSeen(p)' /\ PacketSeen(p)'
    BY <2>1, <2>4, <2>5, Kinds DEF SeedsAhead, CatalogSeen, PacketSeen
  <2>. QED  BY <2>1, <2>4, <2>5, <2>6, DirectoryKept, MoveKeepsLore DEF Recording, d
<1>3. CASE Lore!CheckLedger(p)
  <2>1. /\ doing[p].at = "ready" /\ doing[p].does = "evidence"
        /\ UNCHANGED <<manifest, seeds, content, ledger, review, past>>
    BY <1>3 DEF Lore!CheckLedger, Lore!At, Lore!dir
  <2>2. doing[p] \in EvidenceCommand
    BY <1>1, <2>1, DoingShape DEF Initialising
  <2>3. CASE Lore!Unreadable \/ (\E l \in Lore!Same(p) : l.says # doing[p].line.says)
    BY <1>3, <2>1, <2>3, StopKeepsLore DEF Lore!CheckLedger
  <2>4. CASE ~Lore!Unreadable /\ ~(\E l \in Lore!Same(p) : l.says # doing[p].line.says) /\ Lore!Same(p) # {}
    <3>1. Lore!Stop(p) /\ recorded' = recorded \cup {doing[p].line.of} /\ UNCHANGED raced
      BY <1>3, <2>4 DEF Lore!CheckLedger
    <3>2. /\ OnlyMoves(p) /\ doing'[p].at = "idle" /\ doing' \in [Process -> Doing]
          /\ SeedsAhead(p)' /\ CatalogSeen(p)' /\ PacketSeen(p)'
      BY <1>1, <3>1, Stopped
    <3>3. doing[p].line.of \in Observation
      BY <2>2 DEF EvidenceCommand, Line
    <3>4. LoreTyped'
      BY <1>1, <2>1, <3>1, <3>2, <3>3 DEF LoreTyped
    <3>5. Lore!EvidenceKept'
      <4>1. doing[p].line.of \in {l.of : l \in Lore!Lines}
        BY <2>4 DEF Lore!Same
      <4>2. UNCHANGED <<Lore!Lines, Lore!Unreadable>>
        BY <2>1 DEF Lore!Lines, Lore!Unreadable, Lore!Garbled, Lore!Whole, Lore!Conflicting
      <4>. QED  BY <2>1, <3>1, <4>1, <4>2 DEF LoreInv, Lore!EvidenceKept
    <3>6. \A q \in Process : FitsLedger(q)'
      BY <2>1, <3>1, <3>2, LedgerKept DEF Recording
    <3>7. \A q \in Process \ {p} : SeedsAhead(q)' /\ CatalogSeen(q)' /\ PacketSeen(q)'
      BY <1>1, <2>1, <3>2, OthersKept DEF LoreTyped
    <3>. QED  BY <2>1, <3>2, <3>4, <3>5, <3>6, <3>7, DirectoryKept DEF LoreInv
  <2>5. CASE ~Lore!Unreadable /\ ~(\E l \in Lore!Same(p) : l.says # doing[p].line.says) /\ Lore!Same(p) = {}
    <3>. DEFINE d == [doing[p] EXCEPT !.at = "catalog"]
                differ == \E q \in Process \ {p} :
                            /\ doing[q].at \in Recording
                            /\ doing[q].line.of = doing[p].line.of
                            /\ doing[q].line.says # doing[p].line.says
    <3>1. Lore!Set(p, d) /\ raced' = (raced \/ differ) /\ UNCHANGED recorded
      BY <1>3, <2>5 DEF Lore!CheckLedger, Lore!Goto, Recording
    <3>2. d \in EvidenceCommand /\ d.at = "catalog" /\ d.line = doing[p].line /\ d.since = doing[p].since
      BY <2>2, Onward DEF Recording
    <3>. HIDE DEF d, differ
    <3>3. d \in Doing /\ OnlyMoves(p) /\ doing'[p] = d /\ doing' \in [Process -> Doing]
      BY <1>1, <3>1, <3>2, SetMoves DEF Doing
    <3>4. SeedsAhead(p)' /\ CatalogSeen(p)' /\ PacketSeen(p)'
      BY <1>1, <2>1, <2>2, <3>2, <3>3, Kinds DEF SeedsAhead, CatalogSeen, PacketSeen
    <3>5. raced \in BOOLEAN /\ differ \in BOOLEAN
      BY <1>1 DEF LoreTyped, differ
    <3>6. LoreTyped'
      BY <1>1, <2>1, <3>1, <3>3, <3>5 DEF LoreTyped
    <3>7. UNCHANGED <<Lore!Lines, Lore!Unreadable>> /\ (Quiet' => Quiet) /\ (~raced' => ~raced /\ ~differ)
      BY <2>1, <3>1, <3>5 DEF Lore!Lines, Lore!Unreadable, Lore!Garbled, Lore!Whole, Lore!Conflicting, Quiet
    <3>8. Lore!EvidenceKept'
      BY <2>1, <3>1, <3>7 DEF LoreInv, Lore!EvidenceKept
    <3>9. ASSUME NEW q \in Process, doing'[q].at \in Recording
          PROVE  FitsLedger(q)'
      <4>1. ASSUME Quiet', NEW l \in Lore!Lines, l.of = doing'[q].line.of
            PROVE  l.says = doing'[q].line.says
        <5>1. CASE q = p
          BY <2>5, <3>2, <3>3, <4>1, <5>1 DEF Lore!Same
        <5>2. CASE q # p
          BY <3>3, <3>7, <3>9, <4>1, <5>2 DEF OnlyMoves, LoreInv, FitsLedger
        <5>. QED  BY <5>1, <5>2
      <4>2. ASSUME ~raced', NEW r \in Process, doing'[r].at \in Recording, doing'[r].line.of = doing'[q].line.of
            PROVE  doing'[r].line.says = doing'[q].line.says
        <5>1. CASE q = p /\ r = p
          BY <5>1
        <5>2. CASE q = p /\ r # p
          BY <3>2, <3>3, <3>7, <4>2, <5>2 DEF OnlyMoves, differ
        <5>3. CASE q # p /\ r = p
          BY <3>2, <3>3, <3>7, <3>9, <4>2, <5>3 DEF OnlyMoves, differ
        <5>4. CASE q # p /\ r # p
          BY <3>3, <3>7, <3>9, <4>2, <5>4 DEF OnlyMoves, LoreInv, FitsLedger
        <5>. QED  BY <5>1, <5>2, <5>3, <5>4
      <4>. QED  BY <3>7, <4>1, <4>2 DEF FitsLedger
    <3>10. \A q \in Process : FitsLedger(q)'
      BY <3>9 DEF FitsLedger
    <3>11. \A q \in Process \ {p} : SeedsAhead(q)' /\ CatalogSeen(q)' /\ PacketSeen(q)'
      BY <1>1, <2>1, <3>3, OthersKept DEF LoreTyped
    <3>. QED  BY <2>1, <3>4, <3>6, <3>8, <3>10, <3>11, DirectoryKept DEF LoreInv
  <2>. QED  BY <2>3, <2>4, <2>5
<1>4. CASE Lore!CheckCatalog(p)
  <2>1. /\ doing[p].at \in {"catalog", "again"}
        /\ UNCHANGED <<manifest, seeds, content, ledger, review, past, recorded, raced>>
    BY <1>4 DEF Lore!CheckCatalog, Lore!dir
  <2>2. doing[p] \in EvidenceCommand
    BY <1>1, <2>1, DoingShape DEF Recording
  <2>3. \/ Lore!Stop(p)
        \/ /\ doing[p].line.catalog = content.catalog
           /\ \E step \in {"again", "append"} : Lore!Goto(p, step)
    BY <1>4 DEF Lore!CheckCatalog, Lore!SameCatalog
  <2>. QED  BY <2>1, <2>2, <2>3, DirectoryKept, StopKeepsLore, GotoKeepsLore DEF Recording
<1>. QED  BY <1>2, <1>3, <1>4

\* AppendLine, AppendRest: a line that fits the ledger, or one in parts, after
\* which nothing is promised of the ledger.
LEMMA AppendStep ==
  ASSUME LoreInv, NEW p \in Process, Lore!AppendLine(p) \/ Lore!AppendRest(p)
  PROVE  LoreInv'
<1>1. LoreTyped /\ FitsLedger(p) /\ CatalogSeen(p)
  BY DEF LoreInv
<1>2. PICK part_ \in {"all", "head", "tail"} :
        /\ doing[p].at \in {"append", "tail"} /\ Lore!Write(p, part_)
        /\ \/ Lore!Stop(p) /\ recorded' = recorded \cup {doing[p].line.of}
           \/ Lore!Goto(p, "tail") /\ recorded' = recorded /\ part_ = "head"
  BY DEF Lore!AppendLine, Lore!AppendRest, Lore!At
<1>3. UNCHANGED <<manifest, seeds, content, review, past, raced>>
  BY DEF Lore!AppendLine, Lore!AppendRest
<1>4. doing[p] \in EvidenceCommand /\ doing[p].line \in Line
  BY <1>1, <1>2, DoingShape DEF Recording, EvidenceCommand
<1>. DEFINE d == [doing[p] EXCEPT !.at = "tail"]
<1>5. d \in EvidenceCommand /\ d.at = "tail" /\ d.line = doing[p].line /\ d.since = doing[p].since
  <2>1. "tail" \in {"root"} \cup Initialising \cup Recording
    BY DEF Recording
  <2>. QED  BY <1>4, <2>1, Onward
<1>6. /\ OnlyMoves(p) /\ doing' \in [Process -> Doing]
      /\ doing'[p] = Lore!Idle \/ doing'[p] = d
  <2>1. CASE Lore!Stop(p)
    BY <1>1, <2>1, Stopped
  <2>2. CASE Lore!Goto(p, "tail")
    BY <1>1, <1>5, <2>2, SetMoves DEF Lore!Goto, Doing
  <2>. QED  BY <1>2, <2>1, <2>2
<1>. HIDE DEF d
<1>7. SeedsAhead(p)' /\ CatalogSeen(p)' /\ PacketSeen(p)'
  BY <1>1, <1>2, <1>3, <1>4, <1>5, <1>6, Kinds DEF SeedsAhead, CatalogSeen, PacketSeen
<1>8. \A q \in Process : doing'[q].at \in Recording => doing[q].at \in Recording /\ doing'[q].line = doing[q].line
  BY <1>2, <1>5, <1>6, Kinds DEF OnlyMoves, Recording
<1>9. /\ ledger' \in Seq([line : Line, part : {"all", "head", "tail"}])
      /\ Quiet' => Quiet /\ part_ = "all"
      /\ Lore!Lines' \subseteq Lore!Lines \cup {doing[p].line} /\ Lore!Lines \subseteq Lore!Lines'
      /\ part_ = "all" => doing[p].line \in Lore!Lines'
  BY <1>1, <1>2, <1>3, <1>4, Written
<1>10. LoreTyped'
  BY <1>1, <1>2, <1>3, <1>4, <1>6, <1>9 DEF LoreTyped, Line
<1>11. Lore!EvidenceKept'
  <2>. SUFFICES ASSUME Quiet'
                PROVE  ~Lore!Unreadable' /\ recorded' \subseteq {l.of : l \in Lore!Lines'}
    BY DEF Quiet, Lore!EvidenceKept
  <2>1. Quiet /\ part_ = "all" /\ doing[p].line \in Lore!Lines'
    BY <1>9
  <2>2. ~Lore!Conflicting /\ recorded \subseteq {l.of : l \in Lore!Lines}
    BY <1>1, <2>1, QuietReadable DEF LoreInv, Lore!EvidenceKept, Quiet
  <2>3. \A l \in Lore!Lines : l.of = doing[p].line.of => l.says = doing[p].line.says
    BY <1>1, <1>2, <2>1 DEF FitsLedger, Recording
  <2>4. ~Lore!Conflicting'
    BY <1>9, <2>2, <2>3 DEF Lore!Conflicting
  <2>5. ~Lore!Unreadable'
    <3>1. \A i \in DOMAIN ledger' : i > 1 => i - 1 \in DOMAIN ledger'
      BY <1>10 DEF LoreTyped
    <3>2. \A i \in DOMAIN ledger' : Lore!Whole(i)'
      BY <3>1 DEF Quiet, Lore!Whole
    <3>. QED  BY <2>4, <3>2 DEF Lore!Unreadable, Lore!Garbled
  <2>6. recorded' \subseteq {l.of : l \in Lore!Lines'}
    BY <1>2, <1>9, <2>1, <2>2
  <2>. QED  BY <2>5, <2>6
<1>12. ASSUME NEW q \in Process, doing'[q].at \in Recording
       PROVE  FitsLedger(q)'
  <2>1. doing[q].at \in Recording /\ doing'[q].line = doing[q].line /\ FitsLedger(q)
    BY <1>8, <1>12 DEF LoreInv
  <2>2. ASSUME Quiet', NEW l \in Lore!Lines', l.of = doing[q].line.of
        PROVE  l.says = doing[q].line.says
    <3>1. Quiet /\ ~raced
      BY <1>9, <2>2 DEF Quiet
    <3>2. CASE l \in Lore!Lines
      BY <2>1, <2>2, <3>1, <3>2 DEF FitsLedger
    <3>3. CASE l = doing[p].line
      BY <1>2, <2>1, <2>2, <3>1, <3>3 DEF FitsLedger, Recording
    <3>. QED  BY <1>9, <3>2, <3>3
  <2>3. ASSUME ~raced', NEW r \in Process, doing'[r].at \in Recording, doing'[r].line.of = doing[q].line.of
        PROVE  doing'[r].line.says = doing[q].line.says
    BY <1>3, <1>8, <2>1, <2>3 DEF FitsLedger
  <2>. QED  BY <2>1, <2>2, <2>3 DEF FitsLedger
<1>13. \A q \in Process : FitsLedger(q)'
  BY <1>12 DEF FitsLedger
<1>14. \A q \in Process \ {p} : SeedsAhead(q)' /\ CatalogSeen(q)' /\ PacketSeen(q)'
  BY <1>1, <1>3, <1>6, OthersKept DEF LoreTyped
<1>. QED  BY <1>3, <1>7, <1>10, <1>11, <1>13, <1>14, DirectoryKept DEF LoreInv

\* An edit makes nothing that was read any newer, and the reviewer's packet, once
\* it is older than the candidate or the catalog, stays so.
LEMMA EditStep ==
  ASSUME LoreInv, NEW part_ \in {"candidate", "catalog", "fixtures"}, Lore!Edit(part_)
  PROVE  LoreInv'
<1>1. LoreTyped
  BY DEF LoreInv
<1>2. /\ content[part_] < MaxContent /\ content' = [content EXCEPT ![part_] = @ + 1]
      /\ past' = past \cup {content'}
      /\ UNCHANGED <<manifest, seeds, ledger, review, recorded, raced>>
      /\ doing' = [p \in Process |->
           IF doing[p].at # "idle" /\ doing[p].does = "evidence"
           THEN [doing[p] EXCEPT !.since = @ \cup {content'.catalog}] ELSE doing[p]]
  BY DEF Lore!Edit
<1>3. /\ content' \in Lore!Content
      /\ content.candidate <= content'.candidate /\ content.catalog <= content'.catalog
      /\ content.candidate \in Nat /\ content'.candidate \in Nat
      /\ content.catalog \in Nat /\ content'.catalog \in Nat
  <2>1. content \in Lore!Content
    BY <1>1 DEF LoreTyped
  <2>. QED  BY <1>2, <2>1, LoreAssumption DEF Lore!Content
<1>4. content'.catalog \in 1 .. MaxContent
  BY <1>3 DEF Lore!Content
<1>5. ASSUME NEW p \in Process
      PROVE  \/ /\ doing[p] \in EvidenceCommand /\ doing'[p] \in EvidenceCommand
                /\ doing'[p].at = doing[p].at /\ doing'[p].copies = doing[p].copies
                /\ doing'[p].line = doing[p].line
                /\ doing'[p].since = doing[p].since \cup {content'.catalog}
             \/ doing[p] \notin EvidenceCommand /\ doing'[p] = doing[p]
  <2>1. CASE doing[p] \in EvidenceCommand
    <3>1. doing'[p] = [doing[p] EXCEPT !.since = @ \cup {content'.catalog}]
      BY <1>1, <1>2, <2>1, DoingShape
    <3>. QED  BY <1>4, <2>1, <3>1 DEF EvidenceCommand
  <2>2. CASE doing[p] \notin EvidenceCommand
    BY <1>1, <1>2, <2>2, DoingShape DEF Doing, Lore!Idle
  <2>. QED  BY <2>1, <2>2
<1>6. LoreTyped'
  <2>1. \A p \in Process : doing'[p] \in Doing
    BY <1>1, <1>5, DoingShape DEF Doing
  <2>2. doing' \in [Process -> Doing]
    BY <1>2, <2>1
  <2>. QED  BY <1>1, <1>2, <1>3, <2>2 DEF LoreTyped
<1>7. Lore!SeedsComplete' /\ Lore!EvidenceKept' /\ Lore!ReviewOfOneTime'
  <2>1. Lore!SeedsComplete' /\ Lore!ReviewOfOneTime'
    BY <1>2 DEF LoreInv, Lore!SeedsComplete, Lore!ReviewOfOneTime
  <2>2. UNCHANGED <<Lore!Lines, Lore!Unreadable>>
    BY <1>2 DEF Lore!Unreadable, Lore!Garbled, Lore!Whole, Lore!Conflicting, Lore!Lines
  <2>. QED  BY <1>2, <2>1, <2>2 DEF LoreInv, Lore!EvidenceKept
<1>8. ASSUME NEW p \in Process
      PROVE  SeedsAhead(p)' /\ CatalogSeen(p)' /\ PacketSeen(p)'
  <2>1. SeedsAhead(p) /\ CatalogSeen(p) /\ PacketSeen(p)
    BY DEF LoreInv
  <2>2. SeedsAhead(p)'
    BY <1>2, <1>5, <2>1 DEF SeedsAhead
  <2>3. CatalogSeen(p)'
    BY <1>5, <2>1 DEF CatalogSeen
  <2>4. CASE doing[p] \in ReviewCommand
    <3>1. doing'[p] = doing[p]
      BY <1>5, <2>4, Kinds
    <3>2. doing[p].packet \in Lore!Content /\ doing[p].expected \in Lore!Content
      BY <2>4 DEF ReviewCommand
    <3>3. \A packet \in Lore!Content : NotAhead(packet) =>
            NotAhead(packet)' /\ (SameLesson(packet, content') => SameLesson(packet, content))
      BY <1>3 DEF NotAhead, SameLesson, Lore!Content
    <3>4. past \subseteq past'
      BY <1>2
    <3>5. PacketSeen(p)'
      BY <2>1, <2>4, <3>1, <3>2, <3>3, <3>4 DEF PacketSeen
    <3>. QED  BY <2>2, <2>3, <3>5
  <2>5. CASE doing[p] \notin ReviewCommand
    BY <1>5, <2>2, <2>3, <2>5, Kinds DEF PacketSeen
  <2>. QED  BY <2>2, <2>3, <2>4, <2>5
<1>9. \A p \in Process : FitsLedger(p)'
  <2>1. \A p \in Process : doing'[p].at = doing[p].at /\ (doing[p].at \in Recording => doing'[p].line = doing[p].line)
    BY <1>5
  <2>2. UNCHANGED Lore!Lines /\ (Quiet' <=> Quiet)
    BY <1>2 DEF Lore!Lines, Quiet
  <2>. QED  BY <1>2, <2>1, <2>2 DEF LoreInv, FitsLedger
<1>. QED  BY <1>6, <1>7, <1>8, <1>9 DEF LoreInv

LEMMA LoreNext ==
  ASSUME LoreInv, Lore!Next
  PROVE  LoreInv'
<1>1. ASSUME NEW p \in Process, Lore!Die(p)
      PROVE  LoreInv'
  BY <1>1, StopKeepsLore DEF Lore!Die, Lore!dir
<1>. QED  BY <1>1, InitialisationStep, ReviewStep, CheckStep, AppendStep, EditStep DEF Lore!Next, Lore!Step

LEMMA LoreStutter ==
  ASSUME LoreInv, UNCHANGED loreVars
  PROVE  LoreInv'
BY DEF loreVars, LoreInv, LoreTyped, Lore!SeedsComplete, Lore!EvidenceKept, Lore!ReviewOfOneTime,
   Lore!Unreadable, Lore!Garbled, Lore!Whole, Lore!Conflicting, Lore!Lines, SeedsAhead, FitsLedger, Quiet,
   CatalogSeen, PacketSeen, NotAhead, SameLesson

\* LoreDirectory: for any processes, seeds, observations and contents, what does
\* without a lock is kept: the manifest implies the seeds, whole lines of recordings
\* that did not race stay readable, and a review is of one time.
THEOREM LoreIsKept == EdgeSpec => []LoreKept
<1>1. EdgeInit => (part = "lore" => LoreInv)
  BY LoreInit DEF EdgeInit
<1>2. /\ part = "lore" => LoreInv
      /\ [EdgeNext]_<<part, browserVars, limiterVars, pageVars, clientVars, loreVars, operatorVars, tabVars>>
      => (part = "lore" => LoreInv)'
  BY LoreNext, LoreStutter DEF EdgeNext
<1>3. (part = "lore" => LoreInv) => LoreKept
  <2>. SUFFICES ASSUME LoreInv, NEW p \in Process, doing[p].at \in {"append", "tail"}
                PROVE  doing[p].line.catalog \in doing[p].since
    BY DEF LoreKept, Lore!LoreKept, Lore!CatalogWas, Lore!At, LoreInv
  <2>. QED  BY DoingShape DEF LoreInv, CatalogSeen, Recording
<1>. QED  BY <1>1, <1>2, <1>3, PTL DEF EdgeSpec

-----------------------------------------------------------------------------
(* The registry's clients: their invariant.                                  *)

Offer == [status : Clients!Status, integrity : Nat]
Sight == [pack : Pack, status : Clients!Status, integrity : Nat]

CallJob ==
  [op : {"install", "report", "revalidate"}, at : {"sent", "answered", "failed"}, pack : Pack,
   call : {"artifact", "usage", "release"},
   answer : {Clients!Failed} \cup [ok : BOOLEAN, release : Offer], id : Nat,
   locked : [Pack -> Nat], todo : SUBSET Pack, current : SUBSET Pack, yanked : SUBSET Pack]

ExportJob == [op : {"export"}, at : {"open", "write", "remove"}, ino : Nat]

Result ==
  {Clients!Failed} \cup [ok : {TRUE}]
    \cup [ok : {TRUE}, pack : Pack, reported : {FALSE}]
    \cup [ok : BOOLEAN, pack : Pack, id : Nat, reported : BOOLEAN]
    \cup [ok : {TRUE}, locked : [Pack -> Nat], current : SUBSET Pack, yanked : SUBSET Pack]

DoneJob == [op : {"install", "report", "revalidate", "export"}, at : {"idle"}, result : Result]

Jobs == {Clients!NoJob} \cup CallJob \cup ExportJob \cup DoneJob

ClientTyped ==
  /\ used.packs \subseteq Pack /\ used.commands \subseteq Command
  /\ registry \in [Pack -> Offer]
  /\ events \subseteq [id : Nat, pack : Pack] /\ ids \in Nat
  /\ lock \in [Pack -> Nat]
  /\ file \in [ino : Nat, content : {"none", "torn", "whole"}] /\ created \in Nat
  /\ exported \subseteq Nat
  /\ job \in [Command -> Jobs]
  /\ seen \in [Command -> SUBSET Sight]

\* An id stands for one event.
IdsSound ==
  /\ \A e \in events : e.id <= ids
  /\ \A e, f \in events : e.id = f.id => e = f

\* The file is the one that was created last with its name, if it was not taken.
FileSound ==
  /\ file.ino <= created /\ (file # Clients!NoFile => file.ino > 0)
  /\ Clients!ExportsStay

Reporting(c) == job[c] \in CallJob /\ job[c].call = "usage"

\* Nobody else reports under the id of c, and an answer that counts it means that
\* it was counted.
UsageSound(c) ==
  /\ Reporting(c) =>
       /\ job[c].id \in 1 .. ids
       /\ \A e \in events : e.id = job[c].id => e.pack = job[c].pack
       /\ \A d \in Command \ {c} : Reporting(d) => job[d].id # job[c].id
       /\ job[c].at = "answered" /\ job[c].answer.ok => \E e \in events : e.id = job[c].id
  /\ (Clients!Succeeded(c, "install") \/ Clients!Succeeded(c, "report")) /\ job[c].result.reported =>
       \E e \in events : e.id = job[c].result.id

Saw(c, j, p, status) == [pack |-> p, status |-> status, integrity |-> j.locked[p]] \in seen[c]

\* What is collected in j, a job of c or its result, was seen meanwhile.
Collected(c, j, rest) ==
  /\ \A p \in j.current : Saw(c, j, p, "published")
  /\ \A p \in j.yanked : Saw(c, j, p, "yanked")
  /\ j.current \cup j.yanked \cup rest = {p \in Pack : j.locked[p] # 0}

RevalidationSound(c) ==
  /\ job[c] \in CallJob =>
       /\ job[c].op = "revalidate" <=> job[c].call = "release"
       /\ job[c].op = "report" => job[c].call = "usage"
       /\ job[c].at = "failed" => job[c].op = "report"
  /\ job[c] \in CallJob /\ job[c].op = "revalidate" =>
       /\ Clients!Now \subseteq seen[c]
       /\ Collected(c, job[c], job[c].todo \cup {job[c].pack})
       /\ job[c].at = "answered" /\ job[c].answer.ok =>
            [pack |-> job[c].pack, status |-> job[c].answer.release.status,
             integrity |-> job[c].answer.release.integrity] \in seen[c]
  /\ Clients!Succeeded(c, "revalidate") => Collected(c, job[c].result, {})

\* Nobody else writes the file that c has opened, and its export has not succeeded;
\* while c is about to unlink the name, no file counts as exported.
ExportSound(c) ==
  /\ job[c].at = "write" =>
       /\ job[c].ino \in 1 .. created /\ job[c].ino \notin exported
       /\ \A d \in Command \ {c} : job[d].at = "write" => job[d].ino # job[c].ino
  /\ job[c].at = "remove" => exported = {}

ClientInv ==
  /\ ClientTyped /\ IdsSound /\ FileSound
  /\ \A c \in Command : UsageSound(c) /\ RevalidationSound(c) /\ ExportSound(c)

-----------------------------------------------------------------------------
(* The registry's clients: frames.                                           *)

\* The kinds of jobs differ by their operation and their place.
LEMMA JobShape ==
  ASSUME NEW j \in Jobs
  PROVE  /\ j.at \in {"sent", "answered", "failed"} => j \in CallJob
         /\ j.at \in {"open", "write", "remove"} => j \in ExportJob
         /\ j.at = "idle" => j \notin CallJob /\ j \notin ExportJob
         /\ j \in CallJob => j.at \in {"sent", "answered", "failed"}
         /\ j \in ExportJob => j.at \in {"open", "write", "remove"} /\ j.op = "export"
<1>1. \A k \in CallJob : k.at \in {"sent", "answered", "failed"}
  BY DEF CallJob
<1>2. \A k \in ExportJob : k.at \in {"open", "write", "remove"} /\ k.op = "export"
  BY DEF ExportJob
<1>3. \A k \in DoneJob : k.at = "idle"
  BY DEF DoneJob
<1>4. Clients!NoJob.at = "idle"
  BY DEF Clients!NoJob
<1>. QED  BY <1>1, <1>2, <1>3, <1>4 DEF Jobs

\* What a step of c may do that leaves everything sound about the others: it counts
\* only its own event, reports under its own id or a new one, and writes its own
\* file or a new one.
LEMMA OtherCommands ==
  ASSUME ClientInv, NEW c \in Command, NEW j \in Jobs, job' = [job EXCEPT ![c] = j],
         UNCHANGED <<used, registry>>,
         \A d \in Command \ {c} : seen'[d] = seen[d],
         ClientTyped', IdsSound', FileSound',
         ids <= ids', events \subseteq events',
         \A e \in events' \ events : Reporting(c) /\ e.id = job[c].id,
         Reporting(c)' => (Reporting(c) /\ j.id = job[c].id) \/ j.id = ids + 1,
         created <= created',
         \A ino \in exported' \ exported :
           /\ job[c].at = "write" /\ ino = job[c].ino
           /\ \A d \in Command \ {c} : job[d].at # "remove",
         j.at = "write" => (job[c].at = "write" /\ j.ino = job[c].ino) \/ j.ino = created + 1,
         UsageSound(c)', RevalidationSound(c)', ExportSound(c)'
  PROVE  ClientInv'
<1>1. job'[c] = j /\ \A d \in Command \ {c} : job'[d] = job[d]
  BY DEF ClientInv, ClientTyped
<1>2. ids \in Nat /\ ids' \in Nat /\ created \in Nat /\ created' \in Nat
  BY DEF ClientInv, ClientTyped
<1>3. ASSUME NEW d \in Command \ {c}
      PROVE  UsageSound(d)' /\ RevalidationSound(d)' /\ ExportSound(d)'
  <2>1. UsageSound(d) /\ RevalidationSound(d) /\ ExportSound(d) /\ job'[d] = job[d] /\ seen'[d] = seen[d]
    BY <1>1, <1>3 DEF ClientInv
  <2>2. ASSUME Reporting(d)
        PROVE  /\ job[d].id \in 1 .. ids'
               /\ \A e \in events' : e.id = job[d].id => e.pack = job[d].pack
               /\ \A b \in Command \ {d} : Reporting(b)' => job'[b].id # job[d].id
               /\ job[d].at = "answered" /\ job[d].answer.ok => \E e \in events' : e.id = job[d].id
    <3>1. Reporting(c) => job[d].id # job[c].id
      BY <1>3, <2>1, <2>2 DEF UsageSound
    <3>2. job[d].id \in 1 .. ids
      BY <2>1, <2>2 DEF UsageSound
    <3>3. \A e \in events' : e.id = job[d].id => e.pack = job[d].pack
      BY <2>1, <2>2, <3>1 DEF UsageSound
    <3>4. \A b \in Command \ {d} : Reporting(b)' => job'[b].id # job[d].id
      BY <1>1, <1>2, <2>1, <2>2, <3>1, <3>2 DEF UsageSound, Reporting
    <3>. QED  BY <1>2, <2>1, <2>2, <3>2, <3>3, <3>4 DEF UsageSound
  <2>3. UsageSound(d)'
    BY <2>1, <2>2 DEF UsageSound, Reporting, Clients!Succeeded
  <2>4. RevalidationSound(d)'
    BY <2>1 DEF RevalidationSound, Collected, Saw, Clients!Now, Clients!Succeeded
  <2>5. ExportSound(d)'
    BY <1>1, <1>2, <2>1 DEF ExportSound
  <2>. QED  BY <2>3, <2>4, <2>5
<1>. QED  BY <1>3 DEF ClientInv

\* A step of c that counts nothing, takes no id and touches no file.
LEMMA QuietCommand ==
  ASSUME ClientInv, NEW c \in Command, NEW j \in Jobs, job' = [job EXCEPT ![c] = j],
         UNCHANGED <<used, registry, events, file, created, ids, exported>>,
         lock' \in [Pack -> Nat],
         seen' = seen \/ \E s \in SUBSET Sight : seen' = [seen EXCEPT ![c] = s],
         Reporting(c)' => Reporting(c) /\ j.id = job[c].id,
         j.at \notin {"write", "remove"},
         UsageSound(c)', RevalidationSound(c)'
  PROVE  ClientInv'
<1>1. \A d \in Command \ {c} : seen'[d] = seen[d]
  BY DEF ClientInv, ClientTyped
<1>2. ClientTyped'
  BY DEF ClientInv, ClientTyped
<1>3. IdsSound' /\ FileSound' /\ ids <= ids' /\ created <= created'
  BY DEF ClientInv, ClientTyped, IdsSound, FileSound, Clients!ExportsStay
<1>4. ExportSound(c)'
  BY DEF ClientInv, ClientTyped, ExportSound
<1>. QED  BY <1>1, <1>2, <1>3, <1>4, OtherCommands

\* What c is told when it is through, and what a job is that has just ended.
LEMMA QuitKeepsClients ==
  ASSUME ClientInv, NEW c \in Command, job[c].at # "idle", NEW result \in Result,
         Clients!Quit(c, result), lock' \in [Pack -> Nat],
         UNCHANGED <<used, registry, events, file, created, ids, exported>>,
         result.ok /\ job[c].op \in {"install", "report"} /\ result.reported =>
           \E e \in events : e.id = result.id,
         result.ok /\ job[c].op = "revalidate" => Collected(c, result, {})
  PROVE  ClientInv'
<1>. DEFINE j == [op |-> job[c].op, at |-> "idle", result |-> result]
<1>1. job' = [job EXCEPT ![c] = j] /\ seen' = seen
  BY DEF Clients!Quit
<1>2. job[c].op \in {"install", "report", "revalidate", "export"}
  BY DEF ClientInv, ClientTyped, Jobs, CallJob, ExportJob, DoneJob, Clients!NoJob
<1>3. j \in Jobs /\ j.at = "idle" /\ j.op = job[c].op /\ j.result = result
  BY <1>2 DEF Jobs, DoneJob
<1>. HIDE DEF j
<1>4. job'[c] = j /\ ~Reporting(c)' /\ j \notin CallJob
  BY <1>1, <1>3, JobShape DEF ClientInv, ClientTyped, Reporting
<1>5. UsageSound(c)'
  BY <1>3, <1>4 DEF UsageSound, Clients!Succeeded
<1>6. RevalidationSound(c)'
  BY <1>1, <1>3, <1>4 DEF RevalidationSound, Collected, Saw, Clients!Succeeded
<1>. QED  BY <1>1, <1>3, <1>4, <1>5, <1>6, QuietCommand

\* One that begins, dies or is refused has nothing to show.
LEMMA FailedResult == Clients!Failed \in Result /\ ~Clients!Failed.ok
BY DEF Result, Clients!Failed

LEMMA ClientInit ==
  ASSUME Clients!Init
  PROVE  ClientInv
<1>1. used \in Workload /\ ids = 0 /\ created = 0 /\ events = {} /\ exported = {} /\ file = Clients!NoFile
  BY DEF Clients!Init
<1>2. registry \in [Pack -> Offer] /\ lock \in [Pack -> Nat] /\ seen \in [Command -> SUBSET Sight]
  BY DEF Clients!Init, Offer, Clients!Status
<1>3. job = [c \in Command |-> Clients!NoJob] /\ job \in [Command -> Jobs]
  BY DEF Clients!Init, Jobs
<1>4. file \in [ino : Nat, content : {"none", "torn", "whole"}] /\ file.ino = 0
  BY <1>1 DEF Clients!NoFile
<1>5. ClientTyped
  BY <1>1, <1>2, <1>3, <1>4, WorkloadAssumption DEF ClientTyped
<1>6. IdsSound /\ FileSound
  BY <1>1, <1>4 DEF IdsSound, FileSound, Clients!ExportsStay
<1>7. ASSUME NEW c \in Command
      PROVE  UsageSound(c) /\ RevalidationSound(c) /\ ExportSound(c)
  <2>1. job[c] \in Jobs /\ job[c].at = "idle" /\ job[c].op = "none"
    BY <1>3 DEF Clients!NoJob
  <2>2. job[c] \notin CallJob
    BY <2>1, JobShape
  <2>. QED  BY <2>1, <2>2 DEF UsageSound, RevalidationSound, ExportSound, Reporting, Clients!Succeeded
<1>. QED  BY <1>5, <1>6, <1>7 DEF ClientInv

-----------------------------------------------------------------------------
(* The registry's clients: their steps.                                      *)

LEMMA RequestStep ==
  ASSUME ClientInv, NEW c \in Command,
         Clients!NetworkError(c) \/ Clients!Serve(c) \/ Clients!RetryReport(c) \/ Clients!Reported(c)
  PROVE  ClientInv'
<1>1. ClientTyped /\ UsageSound(c) /\ RevalidationSound(c) /\ job[c] \in Jobs
  BY DEF ClientInv, ClientTyped
<1>2. lock' = lock /\ lock \in [Pack -> Nat] /\ UNCHANGED <<used, registry, file, created, ids, exported>>
  BY <1>1 DEF Clients!NetworkError, Clients!Serve, Clients!RetryReport, Clients!Reported, ClientTyped
<1>3. job[c] \in CallJob /\ job[c].at # "idle"
  BY <1>1, JobShape DEF Clients!NetworkError, Clients!Serve, Clients!RetryReport, Clients!Reported
<1>4. ASSUME Clients!Quit(c, Clients!Failed), UNCHANGED events
      PROVE  ClientInv'
  BY <1>2, <1>3, <1>4, FailedResult, QuitKeepsClients
<1>5. CASE Clients!NetworkError(c)
  <2>1. UNCHANGED events
    BY <1>5 DEF Clients!NetworkError
  <2>2. CASE job[c].op = "install" /\ job[c].call = "usage"
    <3>. DEFINE result == [ok |-> TRUE, pack |-> job[c].pack, reported |-> FALSE]
    <3>1. Clients!Quit(c, result)
      BY <1>5, <2>2 DEF Clients!NetworkError
    <3>2. result \in Result /\ ~result.reported
      BY <1>3 DEF Result, CallJob
    <3>. HIDE DEF result
    <3>. QED  BY <1>2, <1>3, <2>1, <2>2, <3>1, <3>2, QuitKeepsClients
  <2>3. CASE job[c].op = "report"
    <3>. DEFINE j == [job[c] EXCEPT !.at = "failed"]
    <3>1. job' = [job EXCEPT ![c] = j] /\ UNCHANGED seen
      BY <1>5, <2>3 DEF Clients!NetworkError
    <3>2. /\ j \in CallJob /\ j.at = "failed" /\ j.op = "report"
          /\ j.call = job[c].call /\ j.id = job[c].id /\ j.pack = job[c].pack
      BY <1>3, <2>3 DEF CallJob
    <3>. HIDE DEF j
    <3>3. j \in Jobs /\ job'[c] = j /\ \A d \in Command \ {c} : job'[d] = job[d]
      BY <1>1, <3>1, <3>2 DEF Jobs, ClientTyped
    <3>4. UsageSound(c)'
      BY <1>1, <1>2, <1>3, <2>1, <3>2, <3>3 DEF UsageSound, Reporting, Clients!Succeeded
    <3>5. RevalidationSound(c)'
      BY <1>1, <1>3, <2>3, <3>2, <3>3 DEF RevalidationSound, Clients!Succeeded
    <3>. QED  BY <1>2, <1>3, <2>1, <3>1, <3>2, <3>3, <3>4, <3>5, QuietCommand DEF Reporting
  <2>. QED  BY <1>4, <1>5, <2>1, <2>2, <2>3 DEF Clients!NetworkError
<1>6. CASE Clients!Serve(c)
  <2>. DEFINE a == [ok |-> Clients!Answer(c), release |-> registry[job[c].pack]]
              j == [job[c] EXCEPT !.at = "answered", !.answer = a]
  <2>1. /\ job[c].at = "sent" /\ job' = [job EXCEPT ![c] = j] /\ UNCHANGED seen
        /\ IF job[c].call = "usage" THEN Clients!UsageEvent(c) ELSE UNCHANGED events
    BY <1>1, <1>6 DEF Clients!Serve, ClientTyped
  <2>2. job[c].pack \in Pack /\ registry[job[c].pack] \in Offer /\ Clients!Answer(c) \in BOOLEAN
    <3>1. job[c].pack \in Pack /\ job[c].call \in {"artifact", "usage", "release"}
      BY <1>3 DEF CallJob
    <3>2. registry[job[c].pack] \in Offer
      BY <1>1, <3>1 DEF ClientTyped
    <3>3. Clients!Answer(c) \in BOOLEAN
      <4>1. CASE job[c].call = "artifact"
        BY <4>1 DEF Clients!Answer
      <4>2. CASE job[c].call = "release"
        BY <4>2 DEF Clients!Answer
      <4>3. CASE job[c].call = "usage"
        BY <4>3 DEF Clients!Answer
      <4>. QED  BY <3>1, <4>1, <4>2, <4>3
    <3>. QED  BY <3>1, <3>2, <3>3
  <2>3. a \in [ok : BOOLEAN, release : Offer] /\ a.ok = Clients!Answer(c) /\ a.release = registry[job[c].pack]
    BY <2>2
  <2>. HIDE DEF a
  <2>4. /\ j \in CallJob /\ j.at = "answered" /\ j.answer = a /\ j.op = job[c].op
        /\ j.call = job[c].call /\ j.id = job[c].id /\ j.pack = job[c].pack /\ j.locked = job[c].locked
        /\ j.todo = job[c].todo /\ j.current = job[c].current /\ j.yanked = job[c].yanked
    BY <1>3, <2>3 DEF CallJob
  <2>. HIDE DEF j
  <2>5. j \in Jobs /\ job'[c] = j /\ \A d \in Command \ {c} : job'[d] = job[d]
    BY <1>1, <2>1, <2>4 DEF Jobs, ClientTyped
  <2>. DEFINE event == [id |-> job[c].id, pack |-> job[c].pack]
  <2>6. event \in [id : Nat, pack : Pack]
    BY <1>3, <2>2 DEF CallJob
  <2>7. \/ UNCHANGED events /\ (Reporting(c) => ~Clients!Answer(c))
        \/ Reporting(c) /\ events' = events \cup {event}
    BY <1>3, <2>1 DEF Clients!UsageEvent, Clients!Answer, Reporting
  <2>8. events \subseteq events' /\ \A e \in events' \ events : Reporting(c) /\ e = event
    BY <2>7
  <2>9. UsageSound(c)'
    <3>1. Reporting(c) => \A e \in events' : e.id = job[c].id => e.pack = job[c].pack
      BY <1>1, <2>8 DEF UsageSound
    <3>2. Reporting(c) /\ Clients!Answer(c) => \E e \in events' : e.id = job[c].id
      <4>1. event.id = job[c].id
        OBVIOUS
      <4>. QED  BY <2>7, <4>1, Zenon
    <3>3. Reporting(c)' <=> Reporting(c)
      BY <1>3, <2>4, <2>5 DEF Reporting
    <3>4. Reporting(c) => job[c].id \in 1 .. ids /\ \A d \in Command \ {c} : Reporting(d)' => job'[d].id # job[c].id
      BY <1>1, <2>5 DEF UsageSound, Reporting
    <3>. QED  BY <1>2, <2>3, <2>4, <2>5, <3>1, <3>2, <3>3, <3>4 DEF UsageSound, Clients!Succeeded
  <2>10. RevalidationSound(c)'
    <3>1. [pack |-> job[c].pack, status |-> a.release.status, integrity |-> a.release.integrity] \in Clients!Now
      BY <2>2, <2>3 DEF Clients!Now
    <3>2. Clients!Now' = Clients!Now /\ seen' = seen
      BY <1>2, <2>1 DEF Clients!Now
    <3>3. job[c].op = "revalidate" => Collected(c, job[c], job[c].todo \cup {job[c].pack})'
      BY <1>1, <1>3, <2>4, <2>5, <3>2 DEF RevalidationSound, Collected, Saw
    <3>. QED  BY <1>1, <1>3, <2>4, <2>5, <3>1, <3>2, <3>3 DEF RevalidationSound, Clients!Succeeded
  <2>11. ClientTyped'
    BY <1>1, <1>2, <2>1, <2>5, <2>6, <2>8 DEF ClientTyped
  <2>12. IdsSound'
    <3>1. Reporting(c) => job[c].id <= ids /\ \A e \in events : e.id = job[c].id => e.pack = job[c].pack
      BY <1>1 DEF UsageSound, ClientTyped
    <3>2. \A e \in events : Reporting(c) /\ e.id = event.id => e = event
      BY <1>1, <3>1 DEF ClientTyped
    <3>. QED  BY <1>2, <2>8, <3>1, <3>2 DEF IdsSound, ClientInv
  <2>13. FileSound' /\ ExportSound(c)' /\ ids <= ids' /\ created <= created'
    <3>1. FileSound'
      BY <1>2 DEF ClientInv, FileSound, Clients!ExportsStay
    <3>2. ExportSound(c)'
      BY <2>4, <2>5 DEF ExportSound
    <3>3. ids <= ids' /\ created <= created'
      BY <1>1, <1>2 DEF ClientTyped
    <3>. QED  BY <3>1, <3>2, <3>3
  <2>14. \A e \in events' \ events : Reporting(c) /\ e.id = job[c].id
    BY <2>8
  <2>15. Reporting(c)' => Reporting(c) /\ j.id = job[c].id
    BY <1>3, <2>4, <2>5 DEF Reporting
  <2>16. exported' \ exported = {} /\ j.at # "write"
    BY <1>2, <2>4
  <2>17. \A d \in Command \ {c} : seen'[d] = seen[d]
    BY <2>1
  <2>. QED
    BY <1>2, <2>1, <2>5, <2>8, <2>9, <2>10, <2>11, <2>12, <2>13, <2>14, <2>15, <2>16, <2>17, OtherCommands
<1>7. CASE Clients!RetryReport(c)
  <2>1. job[c].at = "failed" /\ UNCHANGED events
    BY <1>7 DEF Clients!RetryReport
  <2>2. CASE job' = [job EXCEPT ![c] = Clients!Sent(c, "usage")] /\ UNCHANGED seen
    <3>. DEFINE j == Clients!Sent(c, "usage")
    <3>1. /\ j \in CallJob /\ j.at = "sent" /\ j.op = job[c].op /\ j.call = "usage"
          /\ j.id = job[c].id /\ j.pack = job[c].pack
      BY <1>3 DEF Clients!Sent, CallJob
    <3>. HIDE DEF j
    <3>2. j \in Jobs /\ job'[c] = j /\ \A d \in Command \ {c} : job'[d] = job[d]
      BY <1>1, <2>2, <3>1 DEF Jobs, ClientTyped, j
    <3>3. Reporting(c) /\ job[c].op = "report"
      BY <1>1, <1>3, <2>1 DEF RevalidationSound, Reporting
    <3>4. UsageSound(c)'
      BY <1>1, <1>2, <2>1, <3>1, <3>2, <3>3 DEF UsageSound, Reporting, Clients!Succeeded
    <3>5. RevalidationSound(c)'
      BY <3>1, <3>2, <3>3 DEF RevalidationSound, Clients!Succeeded
    <3>. QED  BY <1>2, <2>1, <2>2, <3>1, <3>2, <3>3, <3>4, <3>5, QuietCommand DEF j
  <2>. QED  BY <1>4, <1>7, <2>1, <2>2 DEF Clients!RetryReport
<1>8. CASE Clients!Reported(c)
  <2>. DEFINE result == [ok |-> job[c].op = "install" \/ job[c].answer.ok, pack |-> job[c].pack,
                         id |-> job[c].id, reported |-> job[c].answer.ok]
  <2>1. /\ job[c].at = "answered" /\ job[c].call = "usage" /\ Clients!Quit(c, result) /\ UNCHANGED events
    BY <1>8 DEF Clients!Reported
  <2>2. job[c].answer.ok \in BOOLEAN
    <3>1. job[c].answer \in {Clients!Failed} \cup [ok : BOOLEAN, release : Offer]
      BY <1>3 DEF CallJob
    <3>2. Clients!Failed.ok = FALSE
      BY DEF Clients!Failed
    <3>. QED  BY <3>1, <3>2
  <2>3. result \in Result /\ result.reported = job[c].answer.ok /\ result.id = job[c].id
    BY <1>3, <2>2 DEF Result, CallJob
  <2>. HIDE DEF result
  <2>4. job[c].op # "revalidate"
    BY <1>1, <1>3, <2>1 DEF RevalidationSound
  <2>5. result.reported => \E e \in events : e.id = result.id
    BY <1>1, <1>3, <2>1, <2>3 DEF UsageSound, Reporting
  <2>. QED  BY <1>2, <1>3, <2>1, <2>3, <2>4, <2>5, QuitKeepsClients
<1>. QED  BY <1>5, <1>6, <1>7, <1>8

\* The job that an operation starts with.
LEMMA JobStarts ==
  ASSUME ClientTyped, NEW p \in Pack, NEW op_ \in {"install", "report", "revalidate"},
         NEW call \in {"artifact", "usage", "release"}
  PROVE  LET j == Clients!Job(op_, p, call) IN
         /\ j \in CallJob /\ j.op = op_ /\ j.at = "sent" /\ j.pack = p /\ j.call = call
         /\ j.todo = {} /\ j.current = {} /\ j.yanked = {}
         /\ op_ = "revalidate" => j.locked = lock
         /\ \A n \in Nat : LET k == [j EXCEPT !.id = n] IN
              k \in CallJob /\ k.op = op_ /\ k.at = "sent" /\ k.pack = p /\ k.call = call /\ k.id = n
<1>. DEFINE j == Clients!Job(op_, p, call)
<1>1. /\ j \in CallJob /\ j.op = op_ /\ j.at = "sent" /\ j.pack = p /\ j.call = call
      /\ j.todo = {} /\ j.current = {} /\ j.yanked = {}
      /\ op_ = "revalidate" => j.locked = lock
  BY DEF ClientTyped, Clients!Job, CallJob
<1>2. ASSUME NEW n \in Nat
      PROVE  LET k == [j EXCEPT !.id = n] IN
             k \in CallJob /\ k.op = op_ /\ k.at = "sent" /\ k.pack = p /\ k.call = call /\ k.id = n
  <2>. HIDE DEF j
  <2>. QED  BY <1>1 DEF CallJob
<1>. QED  BY <1>1, <1>2

\* What the registry has now is all of it.
LEMMA NowSeen == ASSUME ClientTyped PROVE Clients!Now \in SUBSET Sight
BY DEF ClientTyped, Clients!Now, Sight, Offer

\* A request under a new id: nobody reports under it, and nothing was counted.
LEMMA NewReport ==
  ASSUME ClientInv, NEW c \in Command, NEW j \in CallJob, job' = [job EXCEPT ![c] = j],
         ids' = ids + 1, j.id = ids + 1, j.call = "usage", j.at = "sent", j.op \in {"install", "report"},
         \/ seen' = seen
         \/ \E s \in SUBSET Sight : seen' = [seen EXCEPT ![c] = s],
         lock' \in [Pack -> Nat], UNCHANGED <<used, registry, events, file, created, exported>>
  PROVE  ClientInv'
<1>1. /\ j \in Jobs /\ job'[c] = j /\ (\A d \in Command \ {c} : job'[d] = job[d])
      /\ (\A d \in Command \ {c} : seen'[d] = seen[d]) /\ ids \in Nat /\ created \in Nat
  BY DEF ClientInv, ClientTyped, Jobs
<1>2. ClientTyped'
  BY <1>1 DEF ClientInv, ClientTyped
<1>3. IdsSound' /\ FileSound'
  BY <1>1 DEF ClientInv, ClientTyped, IdsSound, FileSound, Clients!ExportsStay
<1>4. UsageSound(c)'
  <2>1. \A e \in events : e.id # ids + 1
    BY <1>1 DEF ClientInv, ClientTyped, IdsSound
  <2>2. \A d \in Command \ {c} : Reporting(d)' => job'[d].id # ids + 1
    BY <1>1 DEF ClientInv, UsageSound, Reporting
  <2>. QED  BY <1>1, <2>1, <2>2 DEF UsageSound, Reporting, Clients!Succeeded
<1>5. RevalidationSound(c)'
  BY <1>1 DEF RevalidationSound, Clients!Succeeded
<1>6. ExportSound(c)'
  BY <1>1 DEF ExportSound
<1>7. ids <= ids' /\ created <= created' /\ j.at # "write" /\ exported' \ exported = {} /\ events' \ events = {}
  BY <1>1
<1>. QED  BY <1>1, <1>2, <1>3, <1>4, <1>5, <1>6, <1>7, OtherCommands

LEMMA InstallStep ==
  ASSUME ClientInv, NEW c \in Command,
         \/ \E p \in used.packs : Clients!downloadArtifact(c, p) \/ Clients!reportUsage(c, p)
         \/ \E report \in BOOLEAN : Clients!installPack(c, report)
  PROVE  ClientInv'
<1>1. ClientTyped /\ UsageSound(c) /\ RevalidationSound(c) /\ job[c] \in Jobs /\ used.packs \subseteq Pack
  BY DEF ClientInv, ClientTyped
<1>2. ASSUME NEW p \in used.packs, Clients!downloadArtifact(c, p)
      PROVE  ClientInv'
  <2>. DEFINE j == Clients!Job("install", p, "artifact")
  <2>1. /\ j \in CallJob /\ j.op = "install" /\ j.at = "sent" /\ j.call = "artifact"
    BY <1>1, JobStarts
  <2>2. /\ job' = [job EXCEPT ![c] = j] /\ seen' = [seen EXCEPT ![c] = {}]
        /\ UNCHANGED <<used, registry, events, lock, file, created, ids, exported>>
    BY <1>2, <2>1 DEF Clients!downloadArtifact, Clients!Begin
  <2>. HIDE DEF j
  <2>3. j \in Jobs /\ job'[c] = j
    BY <1>1, <2>1, <2>2 DEF Jobs, ClientTyped
  <2>4. UsageSound(c)' /\ RevalidationSound(c)' /\ ~Reporting(c)'
    BY <2>1, <2>3 DEF UsageSound, RevalidationSound, Reporting, Clients!Succeeded
  <2>5. lock' \in [Pack -> Nat] /\ \E s \in SUBSET Sight : seen' = [seen EXCEPT ![c] = s]
    BY <1>1, <2>2 DEF ClientTyped
  <2>. QED  BY <2>1, <2>2, <2>3, <2>4, <2>5, QuietCommand
<1>3. ASSUME NEW p \in used.packs, Clients!reportUsage(c, p)
      PROVE  ClientInv'
  <2>. DEFINE j == [Clients!Job("report", p, "usage") EXCEPT !.id = ids + 1]
  <2>0. p \in Pack /\ ids + 1 \in Nat
    BY <1>1 DEF ClientTyped
  <2>1. j \in CallJob /\ j.op = "report" /\ j.at = "sent" /\ j.call = "usage" /\ j.id = ids + 1
    <3>1. \A n \in Nat : LET k == [Clients!Job("report", p, "usage") EXCEPT !.id = n] IN
            k \in CallJob /\ k.op = "report" /\ k.at = "sent" /\ k.pack = p /\ k.call = "usage" /\ k.id = n
      BY <1>1, <2>0, JobStarts
    <3>. QED  BY <2>0, <3>1
  <2>2. /\ job' = [job EXCEPT ![c] = j] /\ seen' = [seen EXCEPT ![c] = {}] /\ ids' = ids + 1
        /\ UNCHANGED <<used, registry, events, lock, file, created, exported>>
    BY <1>3, <2>1 DEF Clients!reportUsage, Clients!Begin
  <2>. HIDE DEF j
  <2>3. lock' \in [Pack -> Nat] /\ \E s \in SUBSET Sight : seen' = [seen EXCEPT ![c] = s]
    BY <1>1, <2>2 DEF ClientTyped
  <2>. QED  BY <2>1, <2>2, <2>3, NewReport
<1>4. ASSUME NEW report \in BOOLEAN, Clients!installPack(c, report)
      PROVE  ClientInv'
  <2>. DEFINE p == job[c].pack
              integrity == job[c].answer.release.integrity
              refused == ~job[c].answer.ok \/ lock[p] \notin {0, integrity}
  <2>1. /\ job[c].at = "answered" /\ job[c].call = "artifact"
        /\ UNCHANGED <<used, registry, events, file, created, exported>>
    BY <1>4 DEF Clients!installPack
  <2>2. job[c] \in CallJob /\ job[c].at # "idle"
    BY <1>1, <2>1, JobShape
  <2>3. p \in Pack /\ job[c].op = "install"
    BY <1>1, <2>1, <2>2 DEF CallJob, RevalidationSound
  <2>4. CASE refused
    <3>1. Clients!Quit(c, Clients!Failed) /\ UNCHANGED <<lock, ids>>
      BY <1>4, <2>4 DEF Clients!installPack
    <3>. QED  BY <1>1, <2>1, <2>2, <3>1, FailedResult, QuitKeepsClients DEF ClientTyped
  <2>5. CASE ~refused
    <3>1. integrity \in Nat
      <4>1. job[c].answer \in {Clients!Failed} \cup [ok : BOOLEAN, release : Offer]
        BY <2>2 DEF CallJob
      <4>2. job[c].answer \in [ok : BOOLEAN, release : Offer]
        BY <2>5, <4>1, FailedResult
      <4>. QED  BY <4>2 DEF Offer
    <3>2. lock' \in [Pack -> Nat]
      <4>1. lock' = [lock EXCEPT ![p] = integrity]
        BY <1>4, <2>5 DEF Clients!installPack
      <4>. QED  BY <1>1, <2>3, <3>1, <4>1 DEF ClientTyped
    <3>3. CASE report
      <4>. DEFINE sent == Clients!Sent(c, "usage")
                  j == [sent EXCEPT !.id = ids + 1]
      <4>1. ids \in Nat
        BY <1>1 DEF ClientTyped
      <4>2. sent \in CallJob /\ sent.op = "install" /\ sent.at = "sent" /\ sent.call = "usage"
        BY <2>2, <2>3 DEF Clients!Sent, CallJob
      <4>3. job' = [job EXCEPT ![c] = j] /\ seen' = seen /\ ids' = ids + 1
        BY <1>4, <2>5, <3>3 DEF Clients!installPack
      <4>. HIDE DEF sent
      <4>4. j \in CallJob /\ j.op = "install" /\ j.at = "sent" /\ j.call = "usage" /\ j.id = ids + 1
        BY <4>1, <4>2 DEF CallJob
      <4>. HIDE DEF j
      <4>. QED  BY <2>1, <3>2, <4>3, <4>4, NewReport
    <3>4. CASE ~report
      <4>. DEFINE result == [ok |-> TRUE, pack |-> p, reported |-> FALSE]
      <4>1. Clients!Quit(c, result) /\ UNCHANGED ids
        BY <1>4, <2>5, <3>4 DEF Clients!installPack
      <4>2. result \in Result /\ ~result.reported
        BY <2>3 DEF Result
      <4>. HIDE DEF result
      <4>. QED  BY <2>1, <2>2, <2>3, <3>2, <4>1, <4>2, QuitKeepsClients
    <3>. QED  BY <3>3, <3>4
  <2>. QED  BY <2>4, <2>5
<1>. QED  BY <1>2, <1>3, <1>4

\* revalidateInstalledPacks: what is collected was seen since it began.
LEMMA RevalidationStep ==
  ASSUME ClientInv, NEW c \in Command, Clients!revalidateInstalledPacks(c) \/ Clients!Revalidated(c)
  PROVE  ClientInv'
<1>1. ClientTyped /\ UsageSound(c) /\ RevalidationSound(c) /\ job[c] \in Jobs
  BY DEF ClientInv, ClientTyped
<1>2. lock' \in [Pack -> Nat] /\ UNCHANGED <<used, registry, events, file, created, ids, exported>>
  BY <1>1 DEF Clients!revalidateInstalledPacks, Clients!Revalidated, ClientTyped
<1>3. CASE Clients!revalidateInstalledPacks(c)
  <2>1. PICK p \in Clients!Locked :
          Clients!Begin(c, [Clients!Job("revalidate", p, "release") EXCEPT !.todo = Clients!Locked \ {p}])
    BY <1>3 DEF Clients!revalidateInstalledPacks
  <2>. DEFINE first == Clients!Job("revalidate", p, "release")
              j == [first EXCEPT !.todo = Clients!Locked \ {p}]
  <2>2. p \in Pack /\ Clients!Locked \subseteq Pack
    BY DEF Clients!Locked
  <2>3. /\ first \in CallJob /\ first.op = "revalidate" /\ first.at = "sent" /\ first.pack = p
        /\ first.call = "release" /\ first.current = {} /\ first.yanked = {} /\ first.locked = lock
    BY <1>1, <2>2, JobStarts
  <2>. HIDE DEF first
  <2>4. /\ j \in CallJob /\ j.op = "revalidate" /\ j.at = "sent" /\ j.pack = p /\ j.call = "release"
        /\ j.current = {} /\ j.yanked = {} /\ j.locked = lock /\ j.todo = Clients!Locked \ {p}
    BY <2>2, <2>3 DEF CallJob
  <2>5. job' = [job EXCEPT ![c] = j] /\ seen' = [seen EXCEPT ![c] = Clients!Now]
    BY <2>1, <2>4 DEF Clients!Begin, first
  <2>. HIDE DEF j
  <2>6. j \in Jobs /\ job'[c] = j /\ seen'[c] = Clients!Now /\ Clients!Now' = Clients!Now
    BY <1>1, <1>2, <2>4, <2>5 DEF Jobs, ClientTyped, Clients!Now
  <2>7. UsageSound(c)' /\ ~Reporting(c)'
    BY <2>4, <2>6 DEF UsageSound, Reporting, Clients!Succeeded
  <2>8. RevalidationSound(c)'
    BY <2>4, <2>6 DEF RevalidationSound, Collected, Clients!Locked, Clients!Succeeded
  <2>. QED  BY <1>1, <1>2, <2>4, <2>5, <2>6, <2>7, <2>8, NowSeen, QuietCommand
<1>4. CASE Clients!Revalidated(c)
  <2>. DEFINE p == job[c].pack
              status == job[c].answer.release.status
              current == IF status = "published" THEN job[c].current \cup {p} ELSE job[c].current
              yanked == IF status = "yanked" THEN job[c].yanked \cup {p} ELSE job[c].yanked
              next == [job[c] EXCEPT !.current = current, !.yanked = yanked]
  <2>1. job[c].op = "revalidate" /\ job[c].at = "answered"
    BY <1>4 DEF Clients!Revalidated
  <2>2. job[c] \in CallJob /\ job[c].at # "idle" /\ job[c].call = "release"
    BY <1>1, <2>1, JobShape DEF RevalidationSound
  <2>3. CASE Clients!Quit(c, Clients!Failed)
    BY <1>2, <2>2, <2>3, FailedResult, QuitKeepsClients
  <2>4. CASE job[c].answer.ok /\ Clients!MatchesLock(c) /\ status \in {"published", "yanked"}
    <3>1. Saw(c, job[c], p, status)
      BY <1>1, <2>1, <2>2, <2>4 DEF RevalidationSound, Saw, Clients!MatchesLock
    <3>2. /\ p \in Pack /\ current \in SUBSET Pack /\ yanked \in SUBSET Pack /\ job[c].locked \in [Pack -> Nat]
          /\ job[c].todo \in SUBSET Pack
      BY <2>2 DEF CallJob
    <3>3. Collected(c, job[c], job[c].todo \cup {p})
      BY <1>1, <2>1, <2>2 DEF RevalidationSound
    <3>4. /\ \A q \in current : Saw(c, job[c], q, "published")
          /\ \A q \in yanked : Saw(c, job[c], q, "yanked")
          /\ current \cup yanked \cup job[c].todo = {q \in Pack : job[c].locked[q] # 0}
      BY <2>4, <3>1, <3>3 DEF Collected
    <3>5. /\ next \in CallJob /\ next.current = current /\ next.yanked = yanked /\ next.todo = job[c].todo
          /\ next.locked = job[c].locked /\ next.op = "revalidate" /\ next.call = "release" /\ next.id = job[c].id
      BY <2>1, <2>2, <3>2 DEF CallJob
    <3>6. \/ job[c].todo = {} /\ Clients!Quit(c, [ok |-> TRUE, locked |-> job[c].locked,
                                                  current |-> current, yanked |-> yanked])
          \/ \E q \in job[c].todo :
               /\ job' = [job EXCEPT ![c] = [next EXCEPT !.pack = q, !.todo = @ \ {q}, !.at = "sent",
                                                         !.answer = Clients!Failed]]
               /\ UNCHANGED seen
      BY <1>4, <2>4, <3>5 DEF Clients!Revalidated
    <3>. HIDE DEF next, current, yanked
    <3>7. CASE job[c].todo = {} /\ Clients!Quit(c, [ok |-> TRUE, locked |-> job[c].locked,
                                                    current |-> current, yanked |-> yanked])
      <4>. DEFINE result == [ok |-> TRUE, locked |-> job[c].locked, current |-> current, yanked |-> yanked]
      <4>1. /\ result \in Result /\ result.locked = job[c].locked
            /\ result.current = current /\ result.yanked = yanked
        BY <3>2 DEF Result
      <4>. HIDE DEF result
      <4>2. Collected(c, result, {})
        BY <3>4, <3>7, <4>1 DEF Collected, Saw
      <4>. QED  BY <1>2, <2>1, <2>2, <3>7, <4>1, <4>2, QuitKeepsClients DEF result
    <3>8. ASSUME NEW q \in job[c].todo, seen' = seen,
                 job' = [job EXCEPT ![c] = [next EXCEPT !.pack = q, !.todo = @ \ {q}, !.at = "sent",
                                                        !.answer = Clients!Failed]]
          PROVE  ClientInv'
      <4>. DEFINE j == [next EXCEPT !.pack = q, !.todo = @ \ {q}, !.at = "sent", !.answer = Clients!Failed]
      <4>1. q \in Pack
        BY <3>2
      <4>2. /\ j \in CallJob /\ j.op = "revalidate" /\ j.at = "sent" /\ j.pack = q /\ j.call = "release"
            /\ j.current = current /\ j.yanked = yanked /\ j.locked = job[c].locked
            /\ j.todo = job[c].todo \ {q}
        BY <3>5, <4>1 DEF CallJob
      <4>3. job' = [job EXCEPT ![c] = j]
        BY <3>8
      <4>. HIDE DEF j
      <4>4. j \in Jobs /\ job'[c] = j
        BY <1>1, <4>2, <4>3 DEF Jobs, ClientTyped
      <4>5. UsageSound(c)' /\ ~Reporting(c)'
        BY <4>2, <4>4 DEF UsageSound, Reporting, Clients!Succeeded
      <4>6. job'[c].todo \cup {job'[c].pack} = job[c].todo
        BY <3>8, <4>2, <4>4
      <4>7. Collected(c, job[c], job[c].todo \cup {job[c].pack})'
        <5>1. /\ job'[c].current = current /\ job'[c].yanked = yanked /\ job'[c].locked = job[c].locked
              /\ seen' = seen
          BY <3>8, <4>2, <4>4
        <5>2. \A r \in current : Saw(c, job[c], r, "published")'
          BY <3>4, <5>1 DEF Saw
        <5>3. \A r \in yanked : Saw(c, job[c], r, "yanked")'
          BY <3>4, <5>1 DEF Saw
        <5>4. current \cup yanked \cup (job'[c].todo \cup {job'[c].pack}) = {r \in Pack : job'[c].locked[r] # 0}
          BY <3>4, <4>6, <5>1
        <5>. QED  BY <5>1, <5>2, <5>3, <5>4 DEF Collected
      <4>8. Clients!Now' \subseteq seen'[c]
        BY <1>1, <1>2, <2>1, <2>2, <3>8 DEF RevalidationSound, Clients!Now
      <4>9. RevalidationSound(c)'
        BY <4>2, <4>4, <4>7, <4>8 DEF RevalidationSound, Clients!Succeeded
      <4>. QED  BY <1>2, <3>8, <4>2, <4>3, <4>4, <4>5, <4>9, QuietCommand
    <3>. QED  BY <3>6, <3>7, <3>8
  <2>. QED  BY <1>4, <2>3, <2>4 DEF Clients!Revalidated
<1>. QED  BY <1>3, <1>4

\* An export: a file is created under a new inode, so that only its own command
\* writes it; and when a name is unlinked, no file counts as exported.
LEMMA ExportStep ==
  ASSUME ClientInv, NEW c \in Command,
         \/ Clients!Export(c) \/ Clients!OpenFile(c) \/ Clients!WriteFile(c)
         \/ Clients!WriteFails(c) \/ Clients!RemoveFile(c)
  PROVE  ClientInv'
<1>1. /\ ClientTyped /\ UsageSound(c) /\ RevalidationSound(c) /\ ExportSound(c) /\ job[c] \in Jobs
      /\ IdsSound /\ FileSound /\ ids \in Nat /\ created \in Nat
  BY DEF ClientInv, ClientTyped
<1>2. UNCHANGED <<used, registry, events, lock, ids>> /\ lock' \in [Pack -> Nat]
  BY <1>1 DEF Clients!Export, Clients!OpenFile, Clients!WriteFile, Clients!WriteFails,
     Clients!RemoveFile, ClientTyped
<1>3. CASE Clients!Export(c)
  <2>. DEFINE j == [op |-> "export", at |-> "open", ino |-> 0]
  <2>1. j \in ExportJob /\ j.op = "export" /\ j.at = "open"
    BY DEF ExportJob
  <2>2. /\ job' = [job EXCEPT ![c] = j] /\ seen' = [seen EXCEPT ![c] = {}]
        /\ UNCHANGED <<file, created, exported>>
    BY <1>3, <2>1 DEF Clients!Export, Clients!Begin
  <2>. HIDE DEF j
  <2>3. j \in Jobs /\ job'[c] = j /\ j \notin CallJob
    BY <1>1, <2>1, <2>2 DEF Jobs, ClientTyped, CallJob
  <2>4. UsageSound(c)' /\ RevalidationSound(c)' /\ ~Reporting(c)'
    BY <2>1, <2>3 DEF UsageSound, RevalidationSound, Reporting, Clients!Succeeded
  <2>5. \E s \in SUBSET Sight : seen' = [seen EXCEPT ![c] = s]
    BY <2>2
  <2>. QED  BY <1>2, <2>1, <2>2, <2>3, <2>4, <2>5, QuietCommand
<1>4. CASE Clients!OpenFile(c)
  <2>1. job[c].at = "open" /\ job[c] \in ExportJob
    BY <1>1, <1>4, JobShape DEF Clients!OpenFile
  <2>2. CASE file # Clients!NoFile
    <3>1. Clients!Quit(c, Clients!Failed) /\ UNCHANGED <<file, created, exported>>
      BY <1>4, <2>2 DEF Clients!OpenFile
    <3>. QED  BY <1>2, <2>1, <3>1, FailedResult, QuitKeepsClients
  <2>3. CASE file = Clients!NoFile
    <3>. DEFINE j == [job[c] EXCEPT !.at = "write", !.ino = created + 1]
    <3>1. /\ job' = [job EXCEPT ![c] = j] /\ seen' = seen /\ created' = created + 1 /\ exported' = exported
          /\ file' = [ino |-> created + 1, content |-> "torn"]
      BY <1>1, <1>4, <2>3 DEF Clients!OpenFile, ClientTyped
    <3>2. j \in ExportJob /\ j.at = "write" /\ j.op = "export" /\ j.ino = created + 1
      <4>1. created + 1 \in Nat
        BY <1>1
      <4>2. \A k \in ExportJob, n \in Nat : LET m == [k EXCEPT !.at = "write", !.ino = n] IN
              m \in ExportJob /\ m.at = "write" /\ m.op = "export" /\ m.ino = n
        BY DEF ExportJob
      <4>. QED  BY <2>1, <4>1, <4>2
    <3>. HIDE DEF j
    <3>3. j \in Jobs /\ job'[c] = j /\ j \notin CallJob /\ \A d \in Command \ {c} : job'[d] = job[d]
      BY <1>1, <3>1, <3>2 DEF Jobs, ClientTyped, CallJob
    <3>4. exported = {}
      BY <1>1, <2>3 DEF FileSound, Clients!ExportsStay, Clients!NoFile
    <3>5. ClientTyped' /\ IdsSound'
      BY <1>1, <1>2, <3>1, <3>3 DEF ClientTyped, IdsSound
    <3>6. FileSound'
      BY <1>1, <3>1, <3>4 DEF FileSound, Clients!ExportsStay, Clients!NoFile
    <3>7. UsageSound(c)' /\ RevalidationSound(c)' /\ ~Reporting(c)'
      BY <3>2, <3>3 DEF UsageSound, RevalidationSound, Reporting, Clients!Succeeded
    <3>8. ExportSound(c)'
      <4>1. \A d \in Command \ {c} : job[d].at = "write" => job[d].ino \in 1 .. created
        BY DEF ClientInv, ExportSound
      <4>. QED  BY <1>1, <3>1, <3>2, <3>3, <3>4, <4>1 DEF ExportSound
    <3>9. j \in Jobs /\ ids <= ids' /\ created <= created' /\ events \subseteq events'
      BY <1>1, <1>2, <3>1, <3>3
    <3>10. UNCHANGED <<used, registry>> /\ (\A d \in Command \ {c} : seen'[d] = seen[d]) /\ events' \ events = {}
           /\ exported' \ exported = {} /\ j.ino = created + 1 /\ job' = [job EXCEPT ![c] = j]
      BY <1>2, <3>1, <3>2
    <3>. QED  BY <3>5, <3>6, <3>7, <3>8, <3>9, <3>10, OtherCommands
  <2>. QED  BY <2>2, <2>3
<1>5. ASSUME \/ Clients!WriteFile(c) \/ Clients!RemoveFile(c)
             \/ Clients!WriteFails(c) /\ ~Clients!RemovesOwn(c)
      PROVE  ClientInv'
  <2>1. /\ job[c].at \in {"write", "remove"} /\ job[c] \in ExportJob /\ job[c].op = "export"
        /\ job[c].at = "write" => job[c].ino \in 1 .. created /\ job[c].ino \notin exported
        /\ job[c].at = "remove" => exported = {}
    BY <1>1, <1>5, JobShape DEF Clients!WriteFile, Clients!WriteFails, Clients!RemoveFile, ExportSound
  <2>2. PICK result \in {[ok |-> TRUE], Clients!Failed} : Clients!Quit(c, result)
    BY <1>5 DEF Clients!WriteFile, Clients!WriteFails, Clients!RemoveFile
  <2>. DEFINE j == [op |-> job[c].op, at |-> "idle", result |-> result]
  <2>3. job' = [job EXCEPT ![c] = j] /\ seen' = seen
    BY <2>2 DEF Clients!Quit
  <2>4. j \in DoneJob /\ j.at = "idle" /\ j.op = "export"
    <3>1. result \in Result
      <4>1. [ok |-> TRUE] \in [ok : {TRUE}]
        OBVIOUS
      <4>2. [ok |-> TRUE] \in Result
        BY <4>1, Zenon DEF Result
      <4>. QED  BY <2>2, <4>2, FailedResult
    <3>. QED  BY <2>1, <3>1 DEF DoneJob
  <2>. HIDE DEF j
  <2>5. j \in Jobs /\ job'[c] = j /\ j \notin CallJob
    BY <1>1, <2>3, <2>4, JobShape DEF Jobs, ClientTyped
  <2>6. UsageSound(c)' /\ RevalidationSound(c)' /\ ExportSound(c)' /\ ~Reporting(c)'
    BY <2>4, <2>5 DEF UsageSound, RevalidationSound, ExportSound, Reporting, Clients!Succeeded
  <2>7. /\ created' = created
        /\ \/ file' = file /\ exported' = exported
           \/ /\ job[c].at = "write" /\ file.ino = job[c].ino /\ file' = [file EXCEPT !.content = "whole"]
              /\ exported' \subseteq exported \cup {job[c].ino}
              /\ exported' = exported \/ ~Clients!Unlinking
           \/ job[c].at = "remove" /\ file' = Clients!NoFile /\ exported' = exported
    <3>1. CASE Clients!WriteFile(c)
      BY <3>1 DEF Clients!WriteFile
    <3>2. CASE Clients!RemoveFile(c)
      BY <3>2 DEF Clients!RemoveFile
    <3>3. CASE Clients!WriteFails(c)
      BY <1>5, <3>3 DEF Clients!WriteFails
    <3>. QED  BY <1>5, <3>1, <3>2, <3>3
  \* A file with the inode of c is the one of no export that succeeded.
  <2>8. job[c].at = "write" /\ file.ino = job[c].ino => exported = {}
    BY <1>1, <2>1 DEF FileSound, Clients!ExportsStay
  <2>9. file \in [ino : Nat, content : {"none", "torn", "whole"}]
    BY <1>1 DEF ClientTyped
  <2>10. FileSound' /\ file' \in [ino : Nat, content : {"none", "torn", "whole"}] /\ exported' \subseteq Nat
    <3>1. CASE file' = file /\ exported' = exported
      BY <1>1, <2>7, <3>1 DEF FileSound, Clients!ExportsStay, ClientTyped
    <3>2. CASE /\ job[c].at = "write" /\ file.ino = job[c].ino /\ file' = [file EXCEPT !.content = "whole"]
               /\ exported' \subseteq exported \cup {job[c].ino}
      <4>1. file' = [ino |-> job[c].ino, content |-> "whole"]
        BY <2>9, <3>2
      <4>2. /\ exported' \subseteq {job[c].ino}
            /\ job[c].ino \in Nat /\ job[c].ino > 0 /\ job[c].ino <= created'
        BY <1>1, <2>1, <2>7, <2>8, <3>2
      <4>3. file'.ino = job[c].ino /\ file'.content = "whole"
        BY <4>1
      <4>. QED  BY <2>9, <4>1, <4>2, <4>3 DEF FileSound, Clients!ExportsStay
    <3>3. CASE job[c].at = "remove" /\ file' = Clients!NoFile /\ exported' = exported
      BY <1>1, <2>1, <2>7, <3>3 DEF FileSound, Clients!ExportsStay, Clients!NoFile
    <3>. QED  BY <2>7, <3>1, <3>2, <3>3
  <2>11. ClientTyped' /\ IdsSound'
    BY <1>1, <1>2, <2>3, <2>5, <2>7, <2>10 DEF ClientTyped, IdsSound
  <2>12. j \in Jobs /\ ids <= ids' /\ created <= created' /\ events' \ events = {} /\ events \subseteq events'
    BY <1>1, <1>2, <2>5, <2>7
  <2>13. UNCHANGED <<used, registry>> /\ (\A d \in Command \ {c} : seen'[d] = seen[d]) /\ j.at # "write"
    BY <1>2, <2>3, <2>4
  <2>14. \A ino \in exported' \ exported :
           /\ job[c].at = "write" /\ ino = job[c].ino
           /\ \A d \in Command \ {c} : job[d].at # "remove"
    BY <2>7 DEF Clients!Unlinking
  <2>. QED  BY <2>1, <2>3, <2>6, <2>10, <2>11, <2>12, <2>13, <2>14, OtherCommands
<1>6. ASSUME Clients!WriteFails(c), Clients!RemovesOwn(c)
      PROVE  ClientInv'
  <2>. DEFINE j == [job[c] EXCEPT !.at = "remove"]
  <2>1. /\ job[c].at = "write" /\ job[c] \in ExportJob
        /\ job' = [job EXCEPT ![c] = j] /\ UNCHANGED <<seen, file, created, exported>>
    BY <1>1, <1>6, JobShape DEF Clients!WriteFails, ClientTyped
  <2>2. j \in ExportJob /\ j.at = "remove" /\ j.op = "export"
    BY <2>1 DEF ExportJob
  <2>. HIDE DEF j
  <2>3. j \in Jobs /\ job'[c] = j /\ j \notin CallJob
    BY <1>1, <2>1, <2>2 DEF Jobs, ClientTyped, CallJob
  \* The name is the one of its own file, whose export has not succeeded.
  <2>4. exported = {}
    BY <1>1, <1>6, <2>1 DEF FileSound, ExportSound, Clients!ExportsStay, Clients!RemovesOwn
  <2>5. UsageSound(c)' /\ RevalidationSound(c)' /\ ~Reporting(c)'
    BY <2>2, <2>3 DEF UsageSound, RevalidationSound, Reporting, Clients!Succeeded
  <2>6. ExportSound(c)'
    BY <2>1, <2>2, <2>3, <2>4 DEF ExportSound
  <2>7. ClientTyped' /\ IdsSound' /\ FileSound'
    BY <1>1, <1>2, <2>1, <2>3 DEF ClientTyped, IdsSound, FileSound, Clients!ExportsStay
  <2>8. /\ UNCHANGED <<used, registry>> /\ \A d \in Command \ {c} : seen'[d] = seen[d]
        /\ ids <= ids' /\ created <= created' /\ events' \ events = {} /\ events \subseteq events'
        /\ exported' \ exported = {} /\ j.at # "write"
    BY <1>1, <1>2, <2>1, <2>2
  <2>. QED  BY <2>1, <2>3, <2>5, <2>6, <2>7, <2>8, OtherCommands
<1>. QED  BY <1>3, <1>4, <1>5, <1>6

\* A command that dies has nothing to show.
LEMMA DieStep ==
  ASSUME ClientInv, NEW c \in Command, Clients!Die(c)
  PROVE  ClientInv'
<1>1. /\ job' = [job EXCEPT ![c] = Clients!NoJob] /\ seen' = [seen EXCEPT ![c] = {}]
      /\ UNCHANGED <<used, registry, events, lock, file, created, ids, exported>>
  BY DEF Clients!Die
<1>2. Clients!NoJob.op = "none" /\ Clients!NoJob.at = "idle" /\ Clients!NoJob \in Jobs
  BY DEF Clients!NoJob, Jobs
<1>3. job'[c] = Clients!NoJob /\ Clients!NoJob \notin CallJob /\ lock' \in [Pack -> Nat]
  BY <1>1, <1>2, JobShape DEF ClientInv, ClientTyped
<1>4. UsageSound(c)' /\ RevalidationSound(c)' /\ ~Reporting(c)'
  BY <1>2, <1>3 DEF UsageSound, RevalidationSound, Reporting, Clients!Succeeded
<1>5. \E s \in SUBSET Sight : seen' = [seen EXCEPT ![c] = s]
  BY <1>1
<1>. QED  BY <1>1, <1>2, <1>3, <1>4, <1>5, QuietCommand

-----------------------------------------------------------------------------
(* The registry's clients: what else happens, and the theorem.               *)

\* The registry goes on, and a revalidation sees it.
LEMMA RegistryStep ==
  ASSUME ClientInv, NEW p \in Pack, NEW status \in Clients!Status, NEW integrity \in Nat,
         Clients!Registry(p, status, integrity)
  PROVE  ClientInv'
<1>. DEFINE sight == [pack |-> p, status |-> status, integrity |-> integrity]
<1>1. /\ registry' = [registry EXCEPT ![p] = [status |-> status, integrity |-> integrity]]
      /\ UNCHANGED <<used, events, lock, file, created, ids, job, exported>>
      /\ seen' = [c \in Command |->
           IF job[c].at = "idle" \/ job[c].op # "revalidate" THEN seen[c] ELSE seen[c] \cup {sight}]
  BY DEF Clients!Registry, Clients!client
<1>2. sight \in Sight
  BY DEF Sight
<1>3. [status |-> status, integrity |-> integrity] \in Offer
  BY DEF Offer
<1>. HIDE DEF sight
<1>4. ClientTyped'
  <2>1. registry' \in [Pack -> Offer]
    BY <1>1, <1>3 DEF ClientInv, ClientTyped
  <2>2. seen' \in [Command -> SUBSET Sight]
    BY <1>1, <1>2 DEF ClientInv, ClientTyped
  <2>. QED  BY <1>1, <2>1, <2>2 DEF ClientInv, ClientTyped
<1>5. IdsSound' /\ FileSound'
  BY <1>1 DEF ClientInv, IdsSound, FileSound, Clients!ExportsStay
<1>6. ASSUME NEW c \in Command
      PROVE  UsageSound(c)' /\ RevalidationSound(c)' /\ ExportSound(c)'
  <2>1. UsageSound(c) /\ RevalidationSound(c) /\ ExportSound(c) /\ job' = job /\ seen[c] \subseteq seen'[c]
    BY <1>1 DEF ClientInv
  <2>2. UsageSound(c)' /\ ExportSound(c)'
    BY <1>1, <2>1 DEF UsageSound, ExportSound, Reporting, Clients!Succeeded
  <2>3. ASSUME job[c] \in CallJob, job[c].op = "revalidate", Clients!Now \subseteq seen[c]
        PROVE  Clients!Now' \subseteq seen'[c]
    <3>1. sight \in seen'[c]
      BY <1>1, <2>3, JobShape DEF CallJob
    <3>2. ASSUME NEW q \in Pack
          PROVE  [pack |-> q, status |-> registry'[q].status, integrity |-> registry'[q].integrity] \in seen'[c]
      <4>1. CASE q = p
        <5>1. registry'[q] = [status |-> status, integrity |-> integrity]
          BY <1>1, <4>1 DEF ClientInv, ClientTyped
        <5>. QED  BY <3>1, <4>1, <5>1 DEF sight
      <4>2. CASE q # p
        <5>1. registry'[q] = registry[q]
          BY <1>1, <4>2 DEF ClientInv, ClientTyped
        <5>. QED  BY <2>1, <2>3, <5>1 DEF Clients!Now
      <4>. QED  BY <4>1, <4>2
    <3>. QED  BY <3>2 DEF Clients!Now
  <2>4. RevalidationSound(c)'
    BY <2>1, <2>3 DEF RevalidationSound, Collected, Saw, Clients!Succeeded
  <2>. QED  BY <2>2, <2>4
<1>. QED  BY <1>4, <1>5, <1>6 DEF ClientInv

\* Someone uninstalls a pack or takes the file.
LEMMA OthersStep ==
  ASSUME ClientInv, (\E p \in Pack : Clients!Uninstall(p)) \/ Clients!TakeFile
  PROVE  ClientInv'
<1>1. /\ UNCHANGED <<used, registry, events, created, ids, job, seen>> /\ lock' \in [Pack -> Nat]
      /\ \/ file' = file /\ exported' = exported
         \/ file' = Clients!NoFile /\ exported' = exported \ {file.ino}
  BY DEF Clients!Uninstall, Clients!TakeFile, ClientInv, ClientTyped
<1>2. ClientTyped'
  <2>1. Clients!NoFile \in [ino : Nat, content : {"none", "torn", "whole"}]
    BY DEF Clients!NoFile
  <2>2. file' \in [ino : Nat, content : {"none", "torn", "whole"}] /\ exported' \subseteq Nat
    BY <1>1, <2>1 DEF ClientInv, ClientTyped
  <2>. QED  BY <1>1, <2>2 DEF ClientInv, ClientTyped
<1>3. IdsSound'
  BY <1>1 DEF ClientInv, IdsSound
<1>4. FileSound'
  <2>1. CASE file' = file /\ exported' = exported
    BY <1>1, <2>1 DEF ClientInv, FileSound, Clients!ExportsStay
  <2>2. CASE file' = Clients!NoFile /\ exported' = exported \ {file.ino}
    <3>1. exported' = {}
      BY <2>2 DEF ClientInv, FileSound, Clients!ExportsStay
    <3>2. Clients!NoFile.ino = 0 /\ created \in Nat
      BY DEF Clients!NoFile, ClientInv, ClientTyped
    <3>. QED  BY <1>1, <2>2, <3>1, <3>2 DEF FileSound, Clients!ExportsStay
  <2>. QED  BY <1>1, <2>1, <2>2
<1>5. ASSUME NEW c \in Command
      PROVE  UsageSound(c)' /\ RevalidationSound(c)' /\ ExportSound(c)'
  <2>1. UsageSound(c) /\ RevalidationSound(c) /\ ExportSound(c) /\ exported' \subseteq exported
    BY <1>1 DEF ClientInv
  <2>. QED  BY <1>1, <2>1 DEF UsageSound, RevalidationSound, ExportSound, Reporting, Collected, Saw,
              Clients!Now, Clients!Succeeded
<1>. QED  BY <1>2, <1>3, <1>4, <1>5 DEF ClientInv

LEMMA ClientNext ==
  ASSUME ClientInv, Clients!Next
  PROVE  ClientInv'
<1>1. used.packs \subseteq Pack /\ used.commands \subseteq Command
  BY DEF ClientInv, ClientTyped
<1>2. ASSUME NEW c \in used.commands, Clients!Step(c)
      PROVE  ClientInv'
  BY <1>1, <1>2, RequestStep, InstallStep, RevalidationStep, ExportStep, DieStep DEF Clients!Step
<1>3. ASSUME NEW p \in used.packs, NEW status \in Clients!Status, NEW integrity \in 1 .. MaxIntegrity,
             Clients!Registry(p, status, integrity)
      PROVE  ClientInv'
  BY <1>1, <1>3, RegistryStep
<1>. QED  BY <1>2, <1>3, OthersStep DEF Clients!Next

LEMMA ClientStutter ==
  ASSUME ClientInv, UNCHANGED clientVars
  PROVE  ClientInv'
BY DEF clientVars, ClientInv, ClientTyped, IdsSound, FileSound, Clients!ExportsStay, UsageSound,
   RevalidationSound, ExportSound, Reporting, Collected, Saw, Clients!Now, Clients!Succeeded

\* RegistryClient: for any commands, packs and bounds, what a client reports is so:
\* a usage that it says was reported was counted, once; what a revalidation calls
\* current or yanked was so since it began; and an export that succeeded stays whole
\* until someone takes it, unless a failed one was already about to unlink the name.
THEOREM ResultsAreSo == EdgeSpec => []ResultsHold
<1>1. EdgeInit => (part = "clients" => ClientInv)
  BY ClientInit DEF EdgeInit
<1>2. /\ part = "clients" => ClientInv
      /\ [EdgeNext]_<<part, browserVars, limiterVars, pageVars, clientVars, loreVars, operatorVars, tabVars>>
      => (part = "clients" => ClientInv)'
  BY ClientNext, ClientStutter DEF EdgeNext
<1>3. (part = "clients" => ClientInv) => ResultsHold
  <2>. SUFFICES ASSUME ClientInv
                PROVE  Clients!ReportsCount /\ Clients!RevalidationHolds /\ Clients!ExportsStay
    BY DEF ResultsHold, Clients!ResultsHold
  <2>1. Clients!ReportsCount
    BY DEF ClientInv, IdsSound, UsageSound, Clients!ReportsCount
  <2>2. Clients!RevalidationHolds
    BY DEF ClientInv, RevalidationSound, Collected, Saw, Clients!RevalidationHolds
  <2>3. Clients!ExportsStay
    BY DEF ClientInv, FileSound
  <2>. QED  BY <2>1, <2>2, <2>3
<1>. QED  BY <1>1, <1>2, <1>3, PTL DEF EdgeSpec

-----------------------------------------------------------------------------
(* The console: its invariant.                                               *)

\* What the lists of a tab can be of, and what they can list.
Subject == Query \cup Name \cup Tab!Identity \cup {None}
Item == [of : Subject, name : Name]
Kind == Tab!Public \cup Tab!Protected

ListState ==
  [id : Nat, of : Subject, items : Seq(Item), cursor : Cursor \cup {0}, seen : SUBSET Cursor,
   pages : 0 .. MaxPages, more : BOOLEAN, loading : BOOLEAN]

PageRequest ==
  [what : Kind, id : Nat, key : Subject, cursor : Cursor \cup {0}, workspace : Nat, append : BOOLEAN]
DiffRequest == [what : {"diff"}, id : Nat, key : Name, of : SUBSET Item]
OwnRequest == [what : {"me", "usage", "review"}, workspace : Nat, key : Tab!Identity \cup {None}]
PlainRequest == [what : {"session", "logout"}]
TabRequest == PageRequest \cup DiffRequest \cup OwnRequest \cup PlainRequest

TabTyped ==
  /\ shown \in [Kind -> ListState]
  /\ selected \in Name \cup {None}
  /\ comparison \in [id : Nat, loading : BOOLEAN, shown : (SUBSET Item) \cup {None}]
  /\ {access, actor, usage} \subseteq Tab!Identity \cup {None}
  /\ workspace \in Nat /\ hidden \in BOOLEAN
  /\ flight \subseteq TabRequest
  /\ view \in View /\ clicks \in 0 .. MaxClicks[view]

\* The requests for pages of list k that are not answered.
Asked(k) == {r \in flight : r.what = k}

\* A list l of kind k, whose requests are `asked`, shows what it is of, once, and waits
\* for the one request that has its id.
Reads(k, l, asked, ws) ==
  /\ \A i \in DOMAIN l.items : l.items[i].of = l.of
  /\ \A i, j \in DOMAIN l.items : l.items[i].name = l.items[j].name => i = j
  /\ k \in Tab!Protected /\ l.of = None => l.items = <<>> /\ ~l.more
  /\ l.loading => \E r \in asked : r.id = l.id
  /\ \A r \in asked : r.id <= l.id
  /\ \A r \in asked : r.id = l.id =>
       /\ l.loading /\ l.pages < MaxPages
       /\ k \in Tab!Public => r.key = l.of
       /\ k \in Tab!Protected => r.workspace = ws /\ r.key \in {None, l.of}
  /\ \A r, s \in asked : r.id = l.id /\ s.id = l.id => r = s

\* What the workspace shows and has asked for is for w, which the tab is authorised
\* with unless it was left.
Belongs(w) ==
  /\ {access, actor, usage} \subseteq {None, w}
  /\ ~hidden => access = w
  /\ \A k \in Tab!Protected : shown[k].of \in {None, w}
  /\ \A r \in flight :
       r.what \in {"me", "usage", "review"} \cup Tab!Protected =>
         /\ r.workspace <= workspace
         /\ r.workspace = workspace => r.key \in {None, w}

\* What is compared, or about to be, is listed.
Listed == Tab!ToSet(shown["releases"].items)

Compares ==
  /\ comparison.shown # None => comparison.shown \subseteq Listed
  /\ \A r \in flight : r.what = "diff" =>
       r.id <= comparison.id /\ (r.id = comparison.id => r.of \subseteq Listed)

TabInv ==
  /\ TabTyped
  /\ \A k \in Kind : Reads(k, shown[k], Asked(k), workspace)
  /\ shown["releases"].of = selected
  /\ Compares
  /\ \E w \in Tab!Identity \cup {None} : Belongs(w)

-----------------------------------------------------------------------------
(* What becomes of one list.                                                 *)

LEMMA Subjects ==
  /\ None \in Subject /\ Name \subseteq Subject /\ Query \subseteq Subject
  /\ Tab!Identity \subseteq Subject
  /\ Tab!Public = {"catalog", "releases"} /\ Tab!Protected = {"pending", "audit"}
  /\ Kind = {"catalog", "releases", "pending", "audit"}
  /\ Kind = Tab!Public \cup Tab!Protected
BY DEF Subject, Kind, Tab!Public, Tab!Protected

LEMMA ClearedList ==
  ASSUME NEW l \in ListState
  PROVE  /\ Tab!Cleared(l) \in ListState
         /\ Tab!Cleared(l).id = l.id + 1 /\ Tab!Cleared(l).of = None
         /\ Tab!Cleared(l).items = <<>> /\ ~Tab!Cleared(l).more /\ ~Tab!Cleared(l).loading
<1>1. 0 \in 0 .. MaxPages /\ <<>> \in Seq(Item) /\ l.id + 1 \in Nat
  BY TabAssumption DEF ListState
<1>. QED  BY <1>1, Subjects DEF ListState, Tab!Cleared

LEMMA RestartedList ==
  ASSUME NEW l \in ListState, NEW of \in Subject
  PROVE  /\ Tab!Restarted(l, of) \in ListState
         /\ Tab!Restarted(l, of).id = l.id + 1 /\ Tab!Restarted(l, of).of = of
         /\ Tab!Restarted(l, of).items = <<>> /\ ~Tab!Restarted(l, of).more
         /\ Tab!Restarted(l, of).loading
         /\ Tab!Restarted(l, of).pages = 0 /\ Tab!Restarted(l, of).cursor = 0
<1>1. 0 \in 0 .. MaxPages /\ <<>> \in Seq(Item) /\ l.id + 1 \in Nat
  BY TabAssumption DEF ListState
<1>. QED  BY <1>1 DEF ListState, Tab!Cleared, Tab!Restarted

\* A list that is cleared waits for none of the requests that it made.
LEMMA ClearedReads ==
  ASSUME NEW k \in Kind, NEW l \in ListState, NEW asked \in SUBSET PageRequest, NEW ws, NEW ws2,
         Reads(k, l, asked, ws)
  PROVE  Reads(k, Tab!Cleared(l), asked, ws2)
<1>1. \A r \in asked : r.id \in Nat /\ r.id <= l.id
  BY DEF Reads, PageRequest
<1>2. l.id \in Nat
  BY DEF ListState
<1>3. \A r \in asked : r.id <= l.id + 1 /\ r.id # l.id + 1
  BY <1>1, <1>2
<1>. QED  BY <1>3, ClearedList DEF Reads

\* A list that starts again waits for the request that it starts with.
LEMMA RestartedReads ==
  ASSUME NEW k \in Kind, NEW l \in ListState, NEW asked \in SUBSET PageRequest, NEW ws, NEW ws2,
         NEW of \in Subject, NEW page \in PageRequest,
         Reads(k, l, asked, ws), page.id = l.id + 1, page.key = of, page.workspace = ws2
  PROVE  Reads(k, Tab!Restarted(l, of), asked \cup {page}, ws2)
<1>1. \A r \in asked : r.id \in Nat /\ r.id <= l.id
  BY DEF Reads, PageRequest
<1>2. l.id \in Nat
  BY DEF ListState
<1>3. \A r \in asked : r.id <= l.id + 1 /\ r.id # l.id + 1
  BY <1>1, <1>2
<1>4. MaxPages \in Nat /\ 0 < MaxPages
  BY TabAssumption
<1>. QED  BY <1>2, <1>3, <1>4, RestartedList DEF Reads

\* What a list no longer waits for may be answered or not.
LEMMA DroppedReads ==
  ASSUME NEW k \in Kind, NEW l \in ListState, NEW asked \in SUBSET PageRequest, NEW ws,
         NEW r \in asked, Reads(k, l, asked, ws), r.id # l.id
  PROVE  Reads(k, l, asked \ {r}, ws)
BY DEF Reads

\* Once the request that it waits for is answered, a list waits for none.
LEMMA EndedReads ==
  ASSUME NEW k \in Kind, NEW l \in ListState, NEW asked \in SUBSET PageRequest, NEW ws,
         NEW r \in asked, Reads(k, l, asked, ws), r.id = l.id,
         NEW m \in ListState, m.id = l.id, m.of = l.of, ~m.loading,
         \A i \in DOMAIN m.items : m.items[i].of = l.of,
         \A i, j \in DOMAIN m.items : m.items[i].name = m.items[j].name => i = j,
         k \in Tab!Protected /\ l.of = None => m.items = <<>> /\ ~m.more
  PROVE  Reads(k, m, asked \ {r}, ws)
BY DEF Reads

\* The next page of a list that does not wait.
LEMMA MoreReads ==
  ASSUME NEW k \in Kind, NEW l \in ListState, NEW asked \in SUBSET PageRequest, NEW ws,
         NEW page \in PageRequest, Reads(k, l, asked, ws), ~l.loading, l.pages < MaxPages,
         page.id = l.id, page.workspace = ws,
         k \in Tab!Public => page.key = l.of,
         k \in Tab!Protected => page.key \in {None, l.of}
  PROVE  Reads(k, [l EXCEPT !.loading = TRUE], asked \cup {page}, ws)
<1>1. \A r \in asked : r.id # l.id
  BY DEF Reads
<1>2. l.id \in Nat
  BY DEF ListState
<1>3. [l EXCEPT !.loading = TRUE] \in ListState
  BY DEF ListState
<1>. QED  BY <1>1, <1>2, <1>3 DEF Reads, ListState

LEMMA SameCardinality == ASSUME NEW S PROVE Tab!Cardinality(S) = Cardinality(S)
BY DEF Cardinality, Tab!Cardinality

\* A finite set is told in some order, without repetition.
LEMMA Told ==
  ASSUME NEW S, IsFiniteSet(S)
  PROVE  /\ Tab!SetToSeq(S) \in Seq(S)
         /\ \A i, j \in DOMAIN Tab!SetToSeq(S) : Tab!SetToSeq(S)[i] = Tab!SetToSeq(S)[j] => i = j
<1>1. Cardinality(S) \in Nat /\ ExistsBijection(1 .. Cardinality(S), S)
  BY FS_CardinalityType
<1>2. \E f \in [1 .. Cardinality(S) -> S] : Tab!IsInjective(f)
  BY <1>1 DEF ExistsBijection, Bijection, Injection, IsInjective, Tab!IsInjective
<1>3. Tab!SetToSeq(S) \in [1 .. Cardinality(S) -> S] /\ Tab!IsInjective(Tab!SetToSeq(S))
  BY <1>2, SameCardinality DEF Tab!SetToSeq
<1>. QED  BY <1>1, <1>3 DEF Tab!IsInjective

\* Items that are appended to those that a list has, under other names.
LEMMA Appended ==
  ASSUME NEW s \in Seq(Item), NEW t \in Seq(Item),
         \A i, j \in DOMAIN s : s[i].name = s[j].name => i = j,
         \A i, j \in DOMAIN t : t[i].name = t[j].name => i = j,
         \A i \in DOMAIN s : \A j \in DOMAIN t : s[i].name # t[j].name
  PROVE  /\ s \o t \in Seq(Item)
         /\ Tab!ToSet(s) \subseteq Tab!ToSet(s \o t)
         /\ \A i \in DOMAIN (s \o t) :
              (s \o t)[i] \in Tab!ToSet(s) \/ \E j \in DOMAIN t : (s \o t)[i] = t[j]
         /\ \A i, j \in DOMAIN (s \o t) : (s \o t)[i].name = (s \o t)[j].name => i = j
<1>1. /\ s \o t \in Seq(Item)
      /\ \A i \in DOMAIN (s \o t) :
           /\ i \in Nat
           /\ \/ i \in DOMAIN s /\ (s \o t)[i] = s[i]
              \/ i - Len(s) \in DOMAIN t /\ (s \o t)[i] = t[i - Len(s)]
      /\ \A i \in DOMAIN s : i \in DOMAIN (s \o t) /\ (s \o t)[i] = s[i]
      /\ Len(s) \in Nat
  OBVIOUS
<1>2. Tab!ToSet(s) \subseteq Tab!ToSet(s \o t)
  BY <1>1 DEF Tab!ToSet
<1>3. \A i \in DOMAIN (s \o t) :
        (s \o t)[i] \in Tab!ToSet(s) \/ \E j \in DOMAIN t : (s \o t)[i] = t[j]
  BY <1>1 DEF Tab!ToSet
<1>4. \A i, j \in DOMAIN (s \o t) : (s \o t)[i].name = (s \o t)[j].name => i = j
  <2>. SUFFICES ASSUME NEW i \in DOMAIN (s \o t), NEW j \in DOMAIN (s \o t),
                       (s \o t)[i].name = (s \o t)[j].name
                PROVE  i = j
    OBVIOUS
  <2>. DEFINE u == s \o t
  <2>1. i \in Nat /\ j \in Nat /\ Len(s) \in Nat /\ u[i].name = u[j].name
    BY <1>1
  <2>2. \/ i \in DOMAIN s /\ u[i] = s[i]
        \/ i - Len(s) \in DOMAIN t /\ u[i] = t[i - Len(s)]
    BY <1>1
  <2>3. \/ j \in DOMAIN s /\ u[j] = s[j]
        \/ j - Len(s) \in DOMAIN t /\ u[j] = t[j - Len(s)]
    BY <1>1
  <2>. HIDE DEF u
  <2>. QED  BY <2>1, <2>2, <2>3
<1>. QED  BY <1>1, <1>2, <1>3, <1>4

LEMMA StoppedList ==
  ASSUME NEW l \in ListState
  PROVE  /\ Tab!Stopped(l) \in ListState /\ Tab!Stopped(l).id = l.id /\ Tab!Stopped(l).of = l.of
         /\ Tab!Stopped(l).items = l.items /\ ~Tab!Stopped(l).loading /\ ~Tab!Stopped(l).more
BY DEF Tab!Stopped, ListState

\* A page that comes adds what the list did not have.
LEMMA AddedList ==
  ASSUME TabTyped, NEW r \in PageRequest, NEW names \in Contents, NEW next \in Cursor \cup {0},
         NEW l, l = shown[r.what], NEW m, m = Tab!Added(r, names, next), l.pages < MaxPages,
         \A i, j \in DOMAIN l.items : l.items[i].name = l.items[j].name => i = j
  PROVE  /\ m \in ListState /\ m.id = l.id /\ m.of = l.of /\ ~m.loading
         /\ Tab!ToSet(l.items) \subseteq Tab!ToSet(m.items)
         /\ \A i \in DOMAIN m.items : m.items[i] \in Tab!ToSet(l.items) \/ m.items[i].of = r.key
         /\ \A i, j \in DOMAIN m.items : m.items[i].name = m.items[j].name => i = j
<1> DEFINE old(s) == {i.name : i \in Tab!ToSet(s.items)}
           new(s) == {[of |-> r.key, name |-> n] : n \in names \ old(s)}
           with(s, t) == [s EXCEPT !.items = @ \o t, !.cursor = next, !.pages = @ + 1,
                                   !.seen = @ \cup ({r.cursor} \ {0}),
                                   !.more = next # 0 /\ s.pages + 1 < MaxPages, !.loading = FALSE]
           either(s, g) == IF r.what \in Tab!Public /\ g.items = <<>> THEN Tab!Stopped(g) ELSE g
<1>1. m = either(l, with(l, Tab!SetToSeq(new(l))))
  <2>1. Tab!Added(r, names, next) = either(shown[r.what], with(shown[r.what], Tab!SetToSeq(new(shown[r.what]))))
    BY Zenon DEF Tab!Added
  <2>. HIDE DEF with, new, either
  <2>. QED  BY <2>1
<1>2. l \in ListState
  BY DEF TabTyped, PageRequest
<1>3. names \subseteq Name /\ IsFiniteSet(names)
  BY TabAssumption
<1>4. IsFiniteSet(new(l)) /\ new(l) \subseteq Item
  <2>1. IsFiniteSet(names \ old(l))
    BY <1>3, FS_Subset
  <2>. DEFINE f == [n \in names \ old(l) |-> [of |-> r.key, name |-> n]]
  <2>2. f \in Surjection(names \ old(l), new(l))
    BY DEF Surjection
  <2>3. new(l) \subseteq Item
    BY <1>3 DEF Item, PageRequest
  <2>. HIDE DEF old, new, f
  <2>. QED  BY <2>1, <2>2, <2>3, FS_Surjection DEF ExistsSurjection
<1>5. PICK t \in Seq(new(l)) :
        t = Tab!SetToSeq(new(l)) /\ \A i, j \in DOMAIN t : t[i] = t[j] => i = j
  <2>. HIDE DEF new
  <2>. QED  BY <1>4, Told
<1>6. \A i \in DOMAIN t : t[i].of = r.key /\ t[i].name \notin old(l)
  BY <1>5
<1>7. \A i, j \in DOMAIN t : t[i].name = t[j].name => i = j
  BY <1>5
<1>8. t \in Seq(Item) /\ l.items \in Seq(Item)
  <2>. HIDE DEF new
  <2>. QED  BY <1>2, <1>4, <1>5 DEF ListState
<1>9. \A i \in DOMAIN l.items : l.items[i].name \in old(l)
  BY DEF Tab!ToSet
<1> DEFINE u == l.items \o t
           g == with(l, t)
<1>10. /\ u \in Seq(Item)
       /\ Tab!ToSet(l.items) \subseteq Tab!ToSet(u)
       /\ \A i \in DOMAIN u : u[i] \in Tab!ToSet(l.items) \/ u[i].of = r.key
       /\ \A i, j \in DOMAIN u : u[i].name = u[j].name => i = j
  <2>. HIDE DEF old, new
  <2>1. \A i \in DOMAIN l.items : \A j \in DOMAIN t : l.items[i].name # t[j].name
    BY <1>6, <1>9
  <2>2. /\ u \in Seq(Item)
        /\ Tab!ToSet(l.items) \subseteq Tab!ToSet(u)
        /\ \A i \in DOMAIN u : u[i] \in Tab!ToSet(l.items) \/ \E j \in DOMAIN t : u[i] = t[j]
        /\ \A i, j \in DOMAIN u : u[i].name = u[j].name => i = j
    BY <1>7, <1>8, <2>1, Appended
  <2>. HIDE DEF u
  <2>. QED  BY <1>6, <2>2
<1>11. g \in ListState /\ g.id = l.id /\ g.of = l.of /\ g.items = u /\ ~g.loading
  <2>. DEFINE go == next # 0 /\ l.pages + 1 < MaxPages
             n == l.pages + 1
             read == l.seen \cup ({r.cursor} \ {0})
  <2>1. n \in 0 .. MaxPages
    BY <1>2, TabAssumption DEF ListState
  <2>2. read \in SUBSET Cursor
    BY <1>2 DEF ListState, PageRequest
  <2>3. go \in BOOLEAN
    OBVIOUS
  <2>. HIDE DEF u
  <2>4. g = [l EXCEPT !.items = u, !.cursor = next, !.pages = n, !.seen = read, !.more = go,
                      !.loading = FALSE]
    BY Zenon DEF u
  <2>. HIDE DEF g, go, n, read
  <2>5. u \in Seq(Item)
    BY <1>10
  <2>. QED  BY <1>2, <2>1, <2>2, <2>3, <2>4, <2>5 DEF ListState
<1>12. m \in {g, Tab!Stopped(g)}
  <2>. HIDE DEF with, new
  <2>. QED  BY <1>1, <1>5
<1>. HIDE DEF g, u
<1>. QED  BY <1>10, <1>11, <1>12, StoppedList

\* A request that fails leaves what is listed.
LEMMA BrokenList ==
  ASSUME TabTyped, NEW r \in PageRequest, NEW circular \in BOOLEAN,
         NEW l, l = shown[r.what], NEW m, m = Tab!Broken(r, circular)
  PROVE  /\ m \in ListState /\ m.id = l.id /\ m.of = l.of /\ ~m.loading /\ m.items = l.items
         /\ r.what \in Tab!Protected => ~m.more
<1>1. l \in ListState
  BY DEF TabTyped, PageRequest
<1>. QED  BY <1>1 DEF Tab!Broken, Tab!Stopped, ListState
-----------------------------------------------------------------------------
(* What becomes of the tab.                                                  *)

\* Each kind of request is told by what it asks for.
LEMMA TabRequestShape ==
  ASSUME NEW r \in TabRequest
  PROVE  /\ r.what \in Kind => r \in PageRequest
         /\ r.what = "diff" => r \in DiffRequest
         /\ r.what \in {"me", "usage", "review"} => r \in OwnRequest
         /\ r \in PageRequest => r.what \in Kind
         /\ r.what \in Kind \cup {"diff", "me", "usage", "review", "session", "logout"}
BY Subjects DEF TabRequest, PageRequest, DiffRequest, OwnRequest, PlainRequest

LEMMA PageShape ==
  ASSUME TabTyped, NEW k \in Kind, NEW l \in ListState, NEW key \in Subject
  PROVE  /\ Tab!Page(k, l, key) \in PageRequest
         /\ Tab!Page(k, l, key).what = k /\ Tab!Page(k, l, key).id = l.id
         /\ Tab!Page(k, l, key).key = key /\ Tab!Page(k, l, key).workspace = workspace
<1>1. (l.pages > 0) \in BOOLEAN /\ l.id \in Nat /\ l.cursor \in Cursor \cup {0} /\ workspace \in Nat
  BY DEF ListState, TabTyped
<1>. QED  BY <1>1 DEF Tab!Page, PageRequest

LEMMA Clicked == TabTyped /\ Tab!Click /\ UNCHANGED view => clicks' \in 0 .. MaxClicks[view]'
BY TabAssumption DEF TabTyped, Tab!Click

\* Steps that change no list and nothing that lists wait for.
LEMMA QuietTab ==
  ASSUME TabInv, TabTyped', UNCHANGED <<shown, selected, comparison, workspace>>,
         \A r : r \in flight' /\ r.what \in Kind \cup {"diff"} <=>
                r \in flight /\ r.what \in Kind \cup {"diff"},
         NEW w \in Tab!Identity \cup {None}, Belongs(w)'
  PROVE  TabInv'
<1>1. \A k \in Kind : Asked(k)' = Asked(k)
  BY DEF Asked
<1>2. \A k \in Kind : Reads(k, shown[k], Asked(k), workspace)'
  BY <1>1 DEF TabInv, Reads
<1>3. Compares'
  BY DEF TabInv, Compares, Listed
<1>. QED  BY <1>2, <1>3 DEF TabInv

\* clearProtectedWorkspace, for another request id of the workspace.
LEMMA EmptiedTab ==
  ASSUME TabInv, Tab!Emptied, workspace' = workspace + 1,
         access' \in Tab!Identity \cup {None}, UNCHANGED <<view, selected, comparison, hidden>>,
         clicks' \in 0 .. MaxClicks[view]',
         \A r : r \in flight' /\ r.what \in Kind \cup {"diff"} <=>
                r \in flight /\ r.what \in Kind \cup {"diff"},
         flight' \subseteq flight \cup {Tab!Me}
  PROVE  TabInv'
<1> USE Subjects
<1>1. \A k \in Kind : shown[k] \in ListState
  BY DEF TabInv, TabTyped
<1>2. shown' = [shown EXCEPT !["pending"] = Tab!Cleared(shown["pending"]),
                             !["audit"] = Tab!Cleared(shown["audit"])]
  BY DEF Tab!Emptied
<1>3. /\ \A k \in Tab!Public : shown'[k] = shown[k]
      /\ \A k \in Tab!Protected : shown'[k] = Tab!Cleared(shown[k])
      /\ shown' \in [Kind -> ListState]
  <2>1. shown \in [Kind -> ListState]
    BY DEF TabInv, TabTyped
  <2>2. Tab!Cleared(shown["pending"]) \in ListState /\ Tab!Cleared(shown["audit"]) \in ListState
    BY <1>1, ClearedList
  <2>. QED  BY <1>2, <2>1, <2>2
<1>4. Tab!Me \in TabRequest /\ Tab!Me.workspace = workspace + 1 /\ Tab!Me.key = access' /\ Tab!Me.what = "me"
  BY DEF Tab!Me, TabRequest, OwnRequest, TabInv, TabTyped
<1>5. TabTyped'
  BY <1>3, <1>4 DEF TabInv, TabTyped, Tab!Emptied
<1>6. \A k \in Kind : Asked(k)' = Asked(k) /\ Asked(k) \in SUBSET PageRequest
  BY TabRequestShape DEF Asked, TabInv, TabTyped
<1>7. ASSUME NEW k \in Kind
      PROVE  Reads(k, shown[k], Asked(k), workspace)'
  <2>1. Reads(k, shown[k], Asked(k), workspace)
    BY DEF TabInv
  <2>2. CASE k \in Tab!Public
    BY <1>3, <1>6, <2>1, <2>2 DEF Reads
  <2>3. CASE k \in Tab!Protected
    BY <1>1, <1>3, <1>6, <2>1, <2>3, ClearedReads
  <2>. QED  BY <2>2, <2>3
<1>8. Compares' /\ shown'["releases"].of = selected'
  BY <1>3 DEF TabInv, Compares, Listed
<1>9. PICK w \in Tab!Identity \cup {None} : w = access'
  OBVIOUS
<1>10. Belongs(w)'
  <2>1. \A k \in Tab!Protected : shown'[k].of = None
    BY <1>1, <1>3, ClearedList
  <2>2. \A r \in flight : r.what \in {"me", "usage", "review"} \cup Tab!Protected =>
          r.workspace \in Nat /\ r.workspace <= workspace
    BY TabRequestShape DEF TabInv, TabTyped, Belongs, OwnRequest, PageRequest
  <2>3. workspace \in Nat
    BY DEF TabInv, TabTyped
  <2>4. \A r \in flight : r.what \in {"me", "usage", "review"} \cup Tab!Protected =>
          r.workspace <= workspace' /\ r.workspace # workspace'
    BY <2>2, <2>3
  <2>5. \A r \in flight' : r.what \in {"me", "usage", "review"} \cup Tab!Protected =>
          /\ r.workspace <= workspace'
          /\ r.workspace = workspace' => r.key \in {None, w}
    BY <1>4, <1>9, <2>3, <2>4
  <2>. QED  BY <1>9, <2>1, <2>5 DEF Belongs, Tab!Emptied
<1>. QED  BY <1>5, <1>7, <1>8, <1>10 DEF TabInv

\* The workspace's lists `kinds` are read again, for what else is asked and known.
LEMMA ReadAgainTab ==
  ASSUME TabInv, NEW kinds \in SUBSET Tab!Protected, Tab!ReadAgain(kinds),
         UNCHANGED <<view, selected, comparison, access, workspace, usage, hidden>>,
         clicks' \in 0 .. MaxClicks[view]',
         NEW w \in Tab!Identity \cup {None}, Belongs(w), actor' \in {None, w},
         NEW gone, NEW also \in SUBSET OwnRequest,
         \A r \in gone : r.what \notin Kind \cup {"diff"},
         \A r \in also : r.workspace = workspace /\ r.key \in {None, w},
         flight' = (flight \ gone) \cup Tab!FirstPages(kinds) \cup also
  PROVE  TabInv'
<1> USE Subjects
<1>1. /\ shown \in [Kind -> ListState] /\ access \in Subject /\ workspace \in Nat
      /\ actor' \in Tab!Identity \cup {None}
  BY DEF TabInv, TabTyped
<1>2. /\ \A k \in kinds : shown'[k] = Tab!Restarted(shown[k], access)
      /\ \A k \in Kind \ kinds : shown'[k] = shown[k]
      /\ DOMAIN shown' = Kind
  BY <1>1 DEF Tab!ReadAgain
<1>3. shown' \in [Kind -> ListState]
  <2>1. ASSUME NEW k \in Kind
        PROVE  shown'[k] \in ListState
    <3>1. shown[k] \in ListState /\ Tab!Restarted(shown[k], access) \in ListState
      BY <1>1, RestartedList
    <3>. QED  BY <1>2, <3>1
  <2>2. shown' = [k \in Kind |-> shown'[k]]
    BY <1>1 DEF Tab!ReadAgain
  <2>. QED  BY <2>1, <2>2
<1> DEFINE page(k) == Tab!Page(k, shown'[k], access)
<1>4. \A k \in kinds :
        /\ page(k) \in PageRequest /\ page(k).what = k /\ page(k).key = access
        /\ page(k).workspace = workspace /\ page(k).id = shown[k].id + 1
  <2>. SUFFICES ASSUME NEW k \in kinds
                PROVE  /\ page(k) \in PageRequest /\ page(k).what = k /\ page(k).key = access
                       /\ page(k).workspace = workspace /\ page(k).id = shown[k].id + 1
    OBVIOUS
  <2>1. k \in Kind /\ shown[k] \in ListState /\ shown'[k] \in ListState
    BY <1>1, <1>3
  <2>2. shown'[k].id = shown[k].id + 1
    <3>1. Tab!Restarted(shown[k], access).id = shown[k].id + 1
      BY <1>1, <2>1, RestartedList
    <3>. QED  BY <1>2, <3>1
  <2>3. TabTyped
    BY DEF TabInv
  <2>. QED  BY <1>1, <2>1, <2>2, <2>3, PageShape
<1>5. Tab!FirstPages(kinds) = {page(k) : k \in kinds}
  BY DEF Tab!FirstPages
<1>. HIDE DEF page
<1>6. flight \subseteq TabRequest /\ flight' \subseteq TabRequest
  BY <1>4, <1>5 DEF TabInv, TabTyped, TabRequest
<1>7. TabTyped'
  BY <1>1, <1>3, <1>6 DEF TabInv, TabTyped
<1>8. \A r \in also : r.what \in {"me", "usage", "review"}
  BY DEF OwnRequest
<1>9. ASSUME NEW k \in Kind
      PROVE  Reads(k, shown[k], Asked(k), workspace)'
  <2>1. Reads(k, shown[k], Asked(k), workspace) /\ Asked(k) \in SUBSET PageRequest
    BY <1>6, TabRequestShape DEF TabInv, Asked
  <2>2. CASE k \in kinds
    <3>1. Asked(k)' = Asked(k) \cup {page(k)}
      BY <1>4, <1>5, <1>8, <2>2 DEF Asked
    <3>2. Reads(k, Tab!Restarted(shown[k], access), Asked(k) \cup {page(k)}, workspace)
      BY <1>1, <1>4, <2>1, <2>2, RestartedReads
    <3>. QED  BY <1>2, <2>2, <3>1, <3>2
  <2>3. CASE k \notin kinds
    <3>1. Asked(k)' = Asked(k)
      BY <1>4, <1>5, <1>8, <2>3 DEF Asked
    <3>. QED  BY <1>2, <2>1, <2>3, <3>1
  <2>. QED  BY <2>2, <2>3
<1>10. Compares' /\ shown'["releases"].of = selected'
  <2>1. \A r \in flight' : r.what = "diff" => r \in flight
    BY <1>4, <1>5, <1>8
  <2>. QED  BY <1>2, <2>1 DEF TabInv, Compares, Listed
<1>11. Belongs(w)'
  <2>1. ASSUME NEW k \in Tab!Protected
        PROVE  shown'[k].of \in {None, w}
    <3>1. k \in Kind /\ shown[k] \in ListState
      BY <1>1
    <3>2. Tab!Restarted(shown[k], access).of = access
      <4>1. shown[k] \in ListState /\ access \in Subject
        BY <1>1, <3>1
      <4>. QED  BY <4>1, RestartedList
    <3>. QED  BY <1>2, <3>1, <3>2 DEF Belongs
  <2>2. \A r \in flight' : r.what \in {"me", "usage", "review"} \cup Tab!Protected =>
          /\ r.workspace <= workspace
          /\ r.workspace = workspace => r.key \in {None, w}
    BY <1>1, <1>4, <1>5 DEF Belongs
  <2>. QED  BY <2>1, <2>2 DEF Belongs
<1>. QED  BY <1>7, <1>9, <1>10, <1>11 DEF TabInv
-----------------------------------------------------------------------------
(* The workspace's steps.                                                    *)

\* Whose the workspace is, and that of what it asked it is told as much.
LEMMA Owner ==
  ASSUME TabInv
  PROVE  \E w \in Tab!Identity \cup {None} :
           /\ Belongs(w)
           /\ \A r \in flight : r.what \in {"me", "usage", "review"} /\ r.workspace = workspace
                => r.key \in {None, w}
BY DEF TabInv, Belongs

LEMMA IdentityShape == Session \in Tab!Identity /\ Bearer \subseteq Tab!Identity
BY DEF Tab!Identity

LEMMA ConnectStep ==
  ASSUME TabInv, NEW identity \in Bearer, Tab!Submit(identity)
  PROVE  TabInv'
<1>1. clicks' \in 0 .. MaxClicks[view]'
  BY Clicked DEF TabInv, Tab!Submit
<1>2. \A r : r \in flight' /\ r.what \in Kind \cup {"diff"} <=>
             r \in flight /\ r.what \in Kind \cup {"diff"}
  BY Subjects DEF Tab!Submit, Tab!Me
<1>. QED  BY <1>1, <1>2, IdentityShape, EmptiedTab DEF Tab!Submit, Tab!Connect, Tab!catalogVars

LEMMA RestoredStep ==
  ASSUME TabInv, NEW r \in flight, Tab!Restored(r)
  PROVE  TabInv'
<1>1. clicks' \in 0 .. MaxClicks[view]'
  BY DEF TabInv, TabTyped, Tab!Restored
<1>2. \A q : q \in flight' /\ q.what \in Kind \cup {"diff"} <=>
             q \in flight /\ q.what \in Kind \cup {"diff"}
  BY Subjects DEF Tab!Restored, Tab!Me
<1>3. CASE Tab!Connect(Session) /\ flight' = (flight \ {r}) \cup {Tab!Me}
  BY <1>1, <1>2, <1>3, IdentityShape, EmptiedTab DEF Tab!Restored, Tab!Connect, Tab!catalogVars
<1>4. CASE flight' = flight \ {r} /\ UNCHANGED <<access, workspace, actor, usage, shown>>
  <2>1. TabTyped'
    BY <1>1, <1>4 DEF TabInv, TabTyped, Tab!Restored, Tab!catalogVars
  <2>2. PICK w \in Tab!Identity \cup {None} : Belongs(w)
    BY Owner
  <2>3. Belongs(w)'
    BY <1>4, <2>2 DEF Belongs, Tab!Restored
  <2>. QED  BY <1>2, <1>4, <2>1, <2>3, QuietTab DEF Tab!Restored, Tab!catalogVars
<1>. QED  BY <1>3, <1>4 DEF Tab!Restored

LEMMA SignedOutStep ==
  ASSUME TabInv, NEW r \in flight, Tab!SignedOut(r)
  PROVE  TabInv'
<1>1. clicks' \in 0 .. MaxClicks[view]'
  BY DEF TabInv, TabTyped, Tab!SignedOut
<1>2. \A q : q \in flight' /\ q.what \in Kind \cup {"diff"} <=>
             q \in flight /\ q.what \in Kind \cup {"diff"}
  BY Subjects DEF Tab!SignedOut
<1>3. CASE Tab!Connect(None)
  BY <1>1, <1>2, <1>3, EmptiedTab DEF Tab!SignedOut, Tab!Connect, Tab!catalogVars
<1>4. CASE UNCHANGED <<access, workspace, actor, usage, shown>>
  <2>1. TabTyped'
    BY <1>1, <1>4 DEF TabInv, TabTyped, Tab!SignedOut, Tab!catalogVars
  <2>2. PICK w \in Tab!Identity \cup {None} : Belongs(w)
    BY Owner
  <2>3. Belongs(w)'
    BY <1>4, <2>2 DEF Belongs, Tab!SignedOut
  <2>. QED  BY <1>2, <1>4, <2>1, <2>3, QuietTab DEF Tab!SignedOut, Tab!catalogVars
<1>. QED  BY <1>3, <1>4 DEF Tab!SignedOut

LEMMA UnknownStep ==
  ASSUME TabInv, NEW r \in flight, Tab!Unknown(r)
  PROVE  TabInv'
<1>1. clicks' \in 0 .. MaxClicks[view]'
  BY DEF TabInv, TabTyped, Tab!Unknown
<1>2. \A q : q \in flight' /\ q.what \in Kind \cup {"diff"} <=>
             q \in flight /\ q.what \in Kind \cup {"diff"}
  BY Subjects DEF Tab!Unknown
<1>3. CASE r.workspace = workspace
  <2>1. access' \in Tab!Identity \cup {None}
    BY <1>3 DEF TabInv, TabTyped, Tab!Unknown
  <2>. QED  BY <1>1, <1>2, <1>3, <2>1, EmptiedTab DEF Tab!Unknown, Tab!catalogVars
<1>4. CASE r.workspace # workspace
  <2>1. TabTyped'
    BY <1>1, <1>4 DEF TabInv, TabTyped, Tab!Unknown, Tab!catalogVars
  <2>2. PICK w \in Tab!Identity \cup {None} : Belongs(w)
    BY Owner
  <2>3. Belongs(w)'
    BY <1>4, <2>2 DEF Belongs, Tab!Unknown
  <2>. QED  BY <1>2, <1>4, <2>1, <2>3, QuietTab DEF Tab!Unknown, Tab!catalogVars
<1>. QED  BY <1>3, <1>4

LEMMA KnownStep ==
  ASSUME TabInv, NEW r \in flight, Tab!Known(r)
  PROVE  TabInv'
<1>1. PICK w \in Tab!Identity \cup {None} :
        Belongs(w) /\ (r.what = "me" /\ r.workspace = workspace => r.key \in {None, w})
  BY Owner
<1> DEFINE u == [what |-> "usage", workspace |-> workspace, key |-> access]
<1>2. u \in OwnRequest /\ u.workspace = workspace /\ u.key \in {None, w}
  BY <1>1 DEF OwnRequest, TabInv, TabTyped, Belongs
<1>3. /\ actor' \in {None, w} /\ Tab!ReadAgain(Tab!Protected)
      /\ flight' = (flight \ {r}) \cup Tab!FirstPages(Tab!Protected) \cup {u}
      /\ r.what = "me"
      /\ UNCHANGED <<view, selected, comparison, access, workspace, usage, hidden, clicks>>
  BY <1>1 DEF Tab!Known, Tab!catalogVars
<1>4. clicks' \in 0 .. MaxClicks[view]'
  BY <1>3 DEF TabInv, TabTyped
<1>. HIDE DEF u
<1> DEFINE gone == {r}
           also == {u}
           kinds == Tab!Protected
<1>5. \A q \in gone : q.what \notin Kind \cup {"diff"}
  BY <1>3, Subjects
<1>6. also \in SUBSET OwnRequest /\ \A q \in also : q.workspace = workspace /\ q.key \in {None, w}
  BY <1>2
<1>7. kinds \in SUBSET Tab!Protected /\ Tab!ReadAgain(kinds)
  BY <1>3
<1>8. flight' = (flight \ gone) \cup Tab!FirstPages(kinds) \cup also
  BY <1>3
<1>. HIDE DEF gone, also, kinds
<1>. QED  BY <1>1, <1>3, <1>4, <1>5, <1>6, <1>7, <1>8, ReadAgainTab

LEMMA ReviewedStep ==
  ASSUME TabInv, NEW r \in flight, Tab!Reviewed(r)
  PROVE  TabInv'
<1>1. PICK w \in Tab!Identity \cup {None} : Belongs(w)
  BY Owner
<1>2. /\ r.what = "review"
      /\ UNCHANGED <<view, selected, comparison, access, workspace, actor, usage, hidden, clicks>>
  BY DEF Tab!Reviewed, Tab!catalogVars, Tab!workspaceVars
<1>3. clicks' \in 0 .. MaxClicks[view]'
  BY <1>2 DEF TabInv, TabTyped
<1>4. ASSUME NEW kinds \in SUBSET Tab!Protected, Tab!ReadAgain(kinds),
             flight' = (flight \ {r}) \cup Tab!FirstPages(kinds)
      PROVE  TabInv'
  <2> DEFINE gone == {r}
             also == {}
  <2>1. flight' = (flight \ gone) \cup Tab!FirstPages(kinds) \cup also
    BY <1>4
  <2>2. \A q \in gone : q.what \notin Kind \cup {"diff"}
    BY <1>2, Subjects
  <2>3. actor' \in {None, w}
    BY <1>1, <1>2 DEF Belongs
  <2>4. also \in SUBSET OwnRequest /\ \A q \in also : q.workspace = workspace /\ q.key \in {None, w}
    OBVIOUS
  <2>. HIDE DEF gone, also
  <2>. QED  BY <1>1, <1>2, <1>3, <1>4, <2>1, <2>2, <2>3, <2>4, ReadAgainTab
<1>5. CASE flight' = flight \ {r} /\ UNCHANGED shown
  <2>1. TabTyped'
    BY <1>2, <1>3, <1>5 DEF TabInv, TabTyped
  <2>2. Belongs(w)'
    BY <1>1, <1>2, <1>5 DEF Belongs
  <2>3. \A q : q \in flight' /\ q.what \in Kind \cup {"diff"} <=>
               q \in flight /\ q.what \in Kind \cup {"diff"}
    BY <1>2, <1>5, Subjects
  <2>. QED  BY <1>2, <1>5, <2>1, <2>2, <2>3, QuietTab
<1>. QED  BY <1>4, <1>5, Subjects DEF Tab!Reviewed

LEMMA RefreshStep ==
  ASSUME TabInv, Tab!refreshAudit
  PROVE  TabInv'
<1>1. PICK w \in Tab!Identity \cup {None} : Belongs(w)
  BY Owner
<1> DEFINE kinds == {"audit"}
           none == {}
<1>2. /\ UNCHANGED <<view, selected, comparison, access, workspace, actor, usage, hidden>>
      /\ Tab!ReadAgain(kinds)
      /\ flight' = (flight \ none) \cup Tab!FirstPages(kinds) \cup none
  BY DEF Tab!refreshAudit, Tab!catalogVars, Tab!workspaceVars
<1>3. clicks' \in 0 .. MaxClicks[view]'
  BY Clicked DEF TabInv, Tab!refreshAudit
<1>4. actor' \in {None, w}
  BY <1>1, <1>2 DEF Belongs
<1>5. /\ kinds \in SUBSET Tab!Protected /\ none \in SUBSET OwnRequest
      /\ \A q \in none : q.what \notin Kind \cup {"diff"}
      /\ \A q \in none : q.workspace = workspace /\ q.key \in {None, w}
  BY Subjects
<1>. HIDE DEF kinds, none
<1>. QED  BY <1>1, <1>2, <1>3, <1>4, <1>5, ReadAgainTab

LEMMA UsageStep ==
  ASSUME TabInv, NEW r \in flight, Tab!Usage(r)
  PROVE  TabInv'
<1>1. PICK w \in Tab!Identity \cup {None} :
        Belongs(w) /\ (r.what = "usage" /\ r.workspace = workspace => r.key \in {None, w})
  BY Owner
<1>2. /\ usage' \in {usage, None, w} /\ flight' = flight \ {r} /\ r.what = "usage"
      /\ UNCHANGED <<view, shown, selected, comparison, access, workspace, actor, hidden, clicks>>
  BY <1>1 DEF Tab!Usage, Tab!catalogVars
<1>3. TabTyped'
  BY <1>2 DEF TabInv, TabTyped
<1>4. Belongs(w)'
  BY <1>1, <1>2 DEF Belongs
<1>5. \A q : q \in flight' /\ q.what \in Kind \cup {"diff"} <=>
             q \in flight /\ q.what \in Kind \cup {"diff"}
  BY <1>2, Subjects
<1>. QED  BY <1>2, <1>3, <1>4, <1>5, QuietTab

LEMMA WorkspaceClicks ==
  ASSUME TabInv,
         \/ \E item \in Tab!ToSet(shown["pending"].items) : Tab!reviewRelease(item)
         \/ Tab!signOutSession
         \/ Tab!pagehide
  PROVE  TabInv'
<1>1. PICK w \in Tab!Identity \cup {None} : Belongs(w)
  BY Owner
<1> DEFINE reviewing == [what |-> "review", workspace |-> workspace, key |-> access]
           logout == [what |-> "logout"]
<1>2. reviewing \in TabRequest /\ logout \in TabRequest /\ workspace \in Nat
  BY DEF TabRequest, OwnRequest, PlainRequest, TabInv, TabTyped
<1>3. /\ flight' \in {flight \cup {reviewing}, flight \cup {logout}, flight}
      /\ UNCHANGED <<view, shown, selected, comparison, workspace, usage>>
      /\ \/ UNCHANGED <<access, actor, hidden>>
         \/ access' = None /\ actor' = None /\ hidden'
      /\ Tab!Click
  BY DEF Tab!reviewRelease, Tab!signOutSession, Tab!pagehide, Tab!catalogVars, Tab!workspaceVars
<1>4. clicks' \in 0 .. MaxClicks[view]'
  BY <1>3, Clicked DEF TabInv
<1>5. flight' \subseteq TabRequest
  <2>. HIDE DEF reviewing, logout
  <2>. QED  BY <1>2, <1>3 DEF TabInv, TabTyped
<1>6. hidden' \in BOOLEAN
  BY DEF TabInv, TabTyped, Tab!reviewRelease, Tab!signOutSession, Tab!pagehide, Tab!workspaceVars
<1>7. TabTyped'
  <2>. HIDE DEF reviewing, logout
  <2>. QED  BY <1>3, <1>4, <1>5, <1>6 DEF TabInv, TabTyped
<1>8. Belongs(w)'
  BY <1>1, <1>2, <1>3, Subjects DEF Belongs
<1>9. \A q : q \in flight' /\ q.what \in Kind \cup {"diff"} <=>
             q \in flight /\ q.what \in Kind \cup {"diff"}
  BY <1>3, Subjects
<1>. HIDE DEF reviewing, logout
<1>. QED  BY <1>3, <1>7, <1>8, <1>9, QuietTab
-----------------------------------------------------------------------------
(* The catalog's steps, and answers to lists.                                *)

\* A package in the detail, or none: its releases are read from the start, whatever
\* the catalog is then.
LEMMA DetailTab ==
  ASSUME TabInv, NEW lists \in [Kind -> ListState], NEW package \in Name \cup {None},
         \A k \in Kind \ {"catalog"} : lists[k] = shown[k],
         Tab!Detail(lists, package),
         UNCHANGED <<view, access, workspace, actor, usage, hidden>>,
         clicks' \in 0 .. MaxClicks[view]',
         NEW gone \in SUBSET TabRequest, NEW also \in SUBSET PageRequest,
         \A r \in gone \cup also : r.what = "catalog",
         Reads("catalog", lists["catalog"], (Asked("catalog") \ gone) \cup also, workspace),
         flight' = (flight \ gone) \cup also \cup
                   (IF package = None THEN {} ELSE {Tab!Page("releases", shown'["releases"], package)})
  PROVE  TabInv'
<1> USE Subjects
<1> DEFINE next == IF package = None THEN Tab!Cleared(lists["releases"])
                   ELSE Tab!Restarted(lists["releases"], package)
           page == Tab!Page("releases", shown'["releases"], package)
           pages == IF package = None THEN {} ELSE {page}
<1>1. lists["releases"] \in ListState /\ lists["releases"] = shown["releases"] /\ package \in Subject
  OBVIOUS
<1>2. /\ next \in ListState /\ next.of = package /\ next.id = shown["releases"].id + 1
      /\ shown["releases"].id \in Nat
  <2>1. shown["releases"].id \in Nat
    BY <1>1 DEF ListState
  <2>2. CASE package = None
    BY <1>1, <2>1, <2>2, ClearedList
  <2>3. CASE package # None
    BY <1>1, <2>1, <2>3, RestartedList
  <2>. QED  BY <2>1, <2>2, <2>3
<1>3. shown' = [lists EXCEPT !["releases"] = next]
  BY DEF Tab!Detail
<1>. HIDE DEF next
<1>4. /\ shown' \in [Kind -> ListState]
      /\ shown'["catalog"] = lists["catalog"] /\ shown'["releases"] = next
      /\ \A k \in Tab!Protected : shown'[k] = shown[k]
  BY <1>2, <1>3
<1>5. page \in PageRequest /\ page.what = "releases" /\ page.id = next.id /\ page.key = package
      /\ page.workspace = workspace
  BY <1>1, <1>2, <1>4, PageShape DEF TabInv
<1>6. flight' = (flight \ gone) \cup also \cup pages
  OBVIOUS
<1>. HIDE DEF page
<1>7. selected' = package /\ comparison' = [id |-> comparison.id + 1, loading |-> FALSE, shown |-> None]
  BY DEF Tab!Detail, Tab!NoComparison
<1>8. flight' \subseteq TabRequest
  BY <1>5, <1>6 DEF TabInv, TabTyped, TabRequest
<1>9. TabTyped'
  <2>1. comparison.id + 1 \in Nat
    BY DEF TabInv, TabTyped
  <2>2. comparison' \in [id : Nat, loading : BOOLEAN, shown : (SUBSET Item) \cup {None}]
    BY <1>7, <2>1
  <2>. QED  BY <1>4, <1>7, <1>8, <2>2 DEF TabInv, TabTyped
<1>10. \A k \in Kind : Asked(k) \in SUBSET PageRequest /\ Reads(k, shown[k], Asked(k), workspace)
  BY TabRequestShape DEF Asked, TabInv, TabTyped
<1>11. Reads("catalog", shown["catalog"], Asked("catalog"), workspace)'
  <2>1. Asked("catalog")' = (Asked("catalog") \ gone) \cup also
    BY <1>5, <1>6 DEF Asked
  <2>. QED  BY <1>4, <2>1
<1>12. Reads("releases", shown["releases"], Asked("releases"), workspace)'
  <2>1. CASE package = None
    <3>1. Asked("releases")' = Asked("releases")
      BY <1>6, <2>1 DEF Asked
    <3>2. Reads("releases", Tab!Cleared(shown["releases"]), Asked("releases"), workspace)
      BY <1>1, <1>10, ClearedReads
    <3>. QED  BY <1>1, <1>4, <2>1, <3>1, <3>2 DEF next
  <2>2. CASE package # None
    <3>1. Asked("releases")' = Asked("releases") \cup {page}
      BY <1>5, <1>6, <2>2 DEF Asked
    <3>2. Reads("releases", Tab!Restarted(shown["releases"], package), Asked("releases") \cup {page}, workspace)
      BY <1>1, <1>2, <1>5, <1>10, RestartedReads
    <3>. QED  BY <1>1, <1>4, <2>2, <3>1, <3>2 DEF next
  <2>. QED  BY <2>1, <2>2
<1>13. ASSUME NEW k \in Tab!Protected
       PROVE  Reads(k, shown[k], Asked(k), workspace)'
  <2>1. Asked(k)' = Asked(k)
    BY <1>5, <1>6 DEF Asked
  <2>. QED  BY <1>4, <1>10, <2>1
<1>14. \A k \in Kind : Reads(k, shown[k], Asked(k), workspace)'
  BY <1>11, <1>12, <1>13
<1>15. Compares'
  <2>1. comparison.id \in Nat /\ \A r \in flight : r.what = "diff" => r.id \in Nat /\ r.id <= comparison.id
    BY TabRequestShape DEF TabInv, TabTyped, Compares, DiffRequest
  <2>2. \A r \in flight' : r.what = "diff" => r.id <= comparison.id + 1 /\ r.id # comparison.id + 1
    BY <1>5, <1>6, <2>1
  <2>. QED  BY <1>7, <2>2 DEF Compares
<1>16. PICK w \in Tab!Identity \cup {None} : Belongs(w)
  BY Owner
<1>17. Belongs(w)'
  <2>1. \A r \in flight' : r.what \in {"me", "usage", "review"} \cup Tab!Protected => r \in flight
    BY <1>5, <1>6
  <2>. QED  BY <1>4, <1>16, <2>1 DEF Belongs
<1>. QED  BY <1>2, <1>4, <1>7, <1>9, <1>14, <1>15, <1>17 DEF TabInv

LEMMA SearchStep ==
  ASSUME TabInv, NEW query \in Query, Tab!loadPublicPackages(query)
  PROVE  TabInv'
<1> USE Subjects
<1> DEFINE catalog == Tab!Restarted(shown["catalog"], query)
           lists == [shown EXCEPT !["catalog"] = catalog]
           page == Tab!Page("catalog", lists["catalog"], query)
           gone == {}
           also == {page}
           package == None
<1>1. shown \in [Kind -> ListState] /\ query \in Subject /\ TabTyped
  BY DEF TabInv, TabTyped
<1>2. catalog \in ListState /\ catalog.id = shown["catalog"].id + 1
  BY <1>1, RestartedList
<1>3. Tab!Detail(lists, package) /\ flight' = flight \cup {page}
  BY DEF Tab!loadPublicPackages
<1>. HIDE DEF catalog
<1>4. lists \in [Kind -> ListState] /\ lists["catalog"] = catalog
      /\ \A k \in Kind \ {"catalog"} : lists[k] = shown[k]
  BY <1>1, <1>2
<1>. HIDE DEF lists
<1>5. /\ page \in PageRequest /\ page.what = "catalog" /\ page.id = shown["catalog"].id + 1
      /\ page.key = query /\ page.workspace = workspace
  BY <1>1, <1>2, <1>4, PageShape
<1>. HIDE DEF page
<1>6. Asked("catalog") \in SUBSET PageRequest /\ Reads("catalog", shown["catalog"], Asked("catalog"), workspace)
  BY TabRequestShape DEF Asked, TabInv, TabTyped
<1>7. Reads("catalog", lists["catalog"], Asked("catalog") \cup {page}, workspace)
  BY <1>1, <1>4, <1>5, <1>6, RestartedReads DEF catalog
<1>8. /\ Reads("catalog", lists["catalog"], (Asked("catalog") \ gone) \cup also, workspace)
      /\ gone \in SUBSET TabRequest /\ also \in SUBSET PageRequest
      /\ \A r \in gone \cup also : r.what = "catalog"
      /\ package \in Name \cup {None}
      /\ flight' = (flight \ gone) \cup also \cup
                   (IF package = None THEN {} ELSE {Tab!Page("releases", shown'["releases"], package)})
  BY <1>3, <1>5, <1>7
<1>9. /\ UNCHANGED <<view, access, workspace, actor, usage, hidden>>
      /\ clicks' \in 0 .. MaxClicks[view]'
  BY <1>1, Clicked DEF Tab!loadPublicPackages, Tab!workspaceVars
<1>. HIDE DEF gone, also, package
<1>. QED  BY <1>3, <1>4, <1>8, <1>9, DetailTab

LEMMA SelectPackageStep ==
  ASSUME TabInv, NEW item \in Tab!ToSet(shown["catalog"].items), Tab!selectPackage(item)
  PROVE  TabInv'
<1> USE Subjects
<1> DEFINE package == item.name
           none == {}
<1>1. shown \in [Kind -> ListState] /\ TabTyped
  BY DEF TabInv, TabTyped
<1>2. package \in Name /\ package # None
  <2>1. shown["catalog"].items \in Seq(Item)
    BY <1>1 DEF ListState
  <2>2. item \in Item
    BY <2>1 DEF Tab!ToSet
  <2>. QED  BY <2>2, TabAssumption DEF Item
<1>3. /\ Reads("catalog", shown["catalog"], (Asked("catalog") \ none) \cup none, workspace)
      /\ none \in SUBSET TabRequest /\ none \in SUBSET PageRequest
      /\ \A r \in none \cup none : r.what = "catalog"
  BY DEF TabInv
<1>4. /\ Tab!Detail(shown, package)
      /\ flight' = flight \cup {Tab!Page("releases", shown'["releases"], package)}
      /\ UNCHANGED <<view, access, workspace, actor, usage, hidden>>
      /\ Tab!Click
  BY DEF Tab!selectPackage, Tab!workspaceVars
<1>5. clicks' \in 0 .. MaxClicks[view]'
  BY <1>1, <1>4, Clicked
<1>. HIDE DEF package
<1>6. flight' = (flight \ none) \cup none \cup
                (IF package = None THEN {} ELSE {Tab!Page("releases", shown'["releases"], package)})
  BY <1>2, <1>4
<1>. HIDE DEF none
<1>. QED  BY <1>1, <1>2, <1>3, <1>4, <1>5, <1>6, DetailTab

\* A list that goes on by itself: with its next request, or with what comes of one.
LEMMA OneList ==
  ASSUME TabInv, NEW k \in Kind, NEW m \in ListState, shown' = [shown EXCEPT ![k] = m],
         m.of = shown[k].of, Tab!ToSet(shown[k].items) \subseteq Tab!ToSet(m.items),
         UNCHANGED <<view, selected, comparison, access, workspace, actor, usage, hidden>>,
         clicks' \in 0 .. MaxClicks[view]',
         NEW gone \in SUBSET TabRequest, NEW also \in SUBSET PageRequest,
         \A r \in gone \cup also : r.what = k,
         \A w : Belongs(w) => \A r \in also : k \in Tab!Protected => r.workspace = workspace /\ r.key \in {None, w},
         Reads(k, m, (Asked(k) \ gone) \cup also, workspace),
         flight' = (flight \ gone) \cup also
  PROVE  TabInv'
<1> USE Subjects
<1>1. shown \in [Kind -> ListState]
  BY DEF TabInv, TabTyped
<1>2. shown' \in [Kind -> ListState] /\ shown'[k] = m /\ \A j \in Kind \ {k} : shown'[j] = shown[j]
  BY <1>1
<1>3. flight' \subseteq TabRequest
  BY DEF TabInv, TabTyped, TabRequest
<1>4. TabTyped'
  BY <1>2, <1>3 DEF TabInv, TabTyped
<1>5. ASSUME NEW j \in Kind
      PROVE  Reads(j, shown[j], Asked(j), workspace)'
  <2>1. CASE j = k
    <3>1. Asked(k)' = (Asked(k) \ gone) \cup also
      BY DEF Asked
    <3>. QED  BY <1>2, <2>1, <3>1
  <2>2. CASE j # k
    <3>1. Asked(j)' = Asked(j)
      BY <2>2 DEF Asked
    <3>. QED  BY <1>2, <2>2, <3>1 DEF TabInv
  <2>. QED  BY <2>1, <2>2
<1>6. shown'["releases"].of = selected'
  BY <1>2 DEF TabInv
<1>7. Compares'
  <2>1. Listed \subseteq Listed'
    BY <1>2 DEF Listed
  <2>2. \A r \in flight' : r.what = "diff" => r \in flight
    OBVIOUS
  <2>. QED  BY <2>1, <2>2 DEF TabInv, Compares
<1>8. PICK w \in Tab!Identity \cup {None} : Belongs(w)
  BY Owner
<1>9. Belongs(w)'
  <2>1. \A j \in Tab!Protected : shown'[j].of \in {None, w}
    BY <1>2, <1>8 DEF Belongs
  <2>2. workspace \in Nat
    BY DEF TabInv, TabTyped
  <2>3. \A r \in flight' : r.what \in {"me", "usage", "review"} \cup Tab!Protected =>
          r.workspace <= workspace /\ (r.workspace = workspace => r.key \in {None, w})
    BY <1>8, <2>2 DEF Belongs
  <2>. QED  BY <1>8, <2>1, <2>3 DEF Belongs
<1>. QED  BY <1>4, <1>5, <1>6, <1>7, <1>9 DEF TabInv
LEMMA MoreStep ==
  ASSUME TabInv, NEW k \in Kind, Tab!LoadMore(k)
  PROVE  TabInv'
<1> USE Subjects
<1> DEFINE l == shown[k]
           m == [l EXCEPT !.loading = TRUE]
           key == IF k \in Tab!Public THEN l.of ELSE access
           page == Tab!Page(k, l, key)
           gone == {}
           also == {page}
<1>1. shown \in [Kind -> ListState] /\ TabTyped /\ l \in ListState
  BY DEF TabInv, TabTyped
<1>2. /\ l.more /\ ~l.loading /\ l.pages < MaxPages
      /\ shown' = [shown EXCEPT ![k].loading = TRUE]
      /\ flight' = flight \cup {page}
      /\ UNCHANGED <<view, selected, comparison, access, workspace, actor, usage, hidden>>
      /\ Tab!Click
  BY DEF Tab!LoadMore, Tab!catalogVars, Tab!workspaceVars
<1>3. m \in ListState /\ m.of = l.of /\ m.items = l.items
  BY <1>1 DEF ListState
<1>4. shown' = [shown EXCEPT ![k] = m]
  BY <1>1, <1>2
<1>5. key \in Subject
  BY <1>1 DEF TabTyped, ListState
<1>6. page \in PageRequest /\ page.what = k /\ page.id = l.id /\ page.key = key /\ page.workspace = workspace
  BY <1>1, <1>5, PageShape
<1>7. Asked(k) \in SUBSET PageRequest /\ Reads(k, l, Asked(k), workspace)
  BY TabRequestShape DEF Asked, TabInv, TabTyped
<1>8. k \in Tab!Protected => key \in {None, l.of}
  BY <1>2, <1>7, Owner DEF Reads, Belongs
<1>9. \A w : Belongs(w) => \A r \in also : k \in Tab!Protected => r.workspace = workspace /\ r.key \in {None, w}
  BY <1>6 DEF Belongs
<1>. HIDE DEF page
<1>10. Reads(k, m, Asked(k) \cup {page}, workspace)
  BY <1>1, <1>2, <1>6, <1>7, <1>8, MoreReads
<1>11. clicks' \in 0 .. MaxClicks[view]'
  BY <1>1, <1>2, Clicked
<1>12. /\ gone \in SUBSET TabRequest /\ also \in SUBSET PageRequest
       /\ \A r \in gone \cup also : r.what = k
       /\ Reads(k, m, (Asked(k) \ gone) \cup also, workspace)
       /\ flight' = (flight \ gone) \cup also
  BY <1>2, <1>6, <1>10
<1>13. Tab!ToSet(shown[k].items) \subseteq Tab!ToSet(m.items)
  BY <1>3
<1>. HIDE DEF gone, also, m
<1>. QED  BY <1>2, <1>3, <1>4, <1>9, <1>11, <1>12, <1>13, OneList

\* What comes of the one request that a list waits for.
LEMMA Turned ==
  ASSUME TabInv, NEW r \in flight, r \in PageRequest, NEW l, l = shown[r.what], r.id = l.id,
         NEW m, \/ \E circular \in BOOLEAN : m = Tab!Broken(r, circular)
                \/ /\ r.key # None
                   /\ \E names \in Contents, next \in Cursor \cup {0} : m = Tab!Added(r, names, next)
  PROVE  /\ m \in ListState /\ m.of = l.of /\ Tab!ToSet(l.items) \subseteq Tab!ToSet(m.items)
         /\ Reads(r.what, m, Asked(r.what) \ {r}, workspace)
<1> USE Subjects
<1> DEFINE k == r.what
<1>1. TabTyped /\ k \in Kind /\ l \in ListState
  BY DEF TabInv, TabTyped, PageRequest
<1>2. /\ r \in Asked(k) /\ Asked(k) \in SUBSET PageRequest /\ Reads(k, l, Asked(k), workspace)
  BY <1>1, TabRequestShape DEF Asked, TabInv, TabTyped
<1>3. /\ l.pages < MaxPages
      /\ \A i \in DOMAIN l.items : l.items[i].of = l.of
      /\ \A i, j \in DOMAIN l.items : l.items[i].name = l.items[j].name => i = j
      /\ k \in Tab!Public => r.key = l.of
      /\ k \in Tab!Protected => r.key \in {None, l.of}
      /\ k \in Tab!Protected /\ l.of = None => l.items = <<>>
  BY <1>2 DEF Reads
<1>4. ASSUME NEW circular \in BOOLEAN, m = Tab!Broken(r, circular)
      PROVE  /\ m \in ListState /\ m.of = l.of /\ Tab!ToSet(l.items) \subseteq Tab!ToSet(m.items)
             /\ Reads(k, m, Asked(k) \ {r}, workspace)
  <2>1. /\ m \in ListState /\ m.id = l.id /\ m.of = l.of /\ ~m.loading /\ m.items = l.items
        /\ k \in Tab!Protected => ~m.more
    BY <1>1, <1>4, BrokenList
  <2>2. Reads(k, m, Asked(k) \ {r}, workspace)
    BY <1>1, <1>2, <1>3, <2>1, EndedReads
  <2>. QED  BY <2>1, <2>2
<1>5. ASSUME r.key # None, NEW names \in Contents, NEW next \in Cursor \cup {0},
             m = Tab!Added(r, names, next)
      PROVE  /\ m \in ListState /\ m.of = l.of /\ Tab!ToSet(l.items) \subseteq Tab!ToSet(m.items)
             /\ Reads(k, m, Asked(k) \ {r}, workspace)
  <2>1. /\ m \in ListState /\ m.id = l.id /\ m.of = l.of /\ ~m.loading
        /\ Tab!ToSet(l.items) \subseteq Tab!ToSet(m.items)
        /\ \A i \in DOMAIN m.items : m.items[i] \in Tab!ToSet(l.items) \/ m.items[i].of = r.key
        /\ \A i, j \in DOMAIN m.items : m.items[i].name = m.items[j].name => i = j
    BY <1>1, <1>3, <1>5, AddedList
  <2>2. r.key = l.of
    BY <1>1, <1>3, <1>5
  <2>3. \A item \in Tab!ToSet(l.items) : item.of = l.of
    BY <1>3 DEF Tab!ToSet
  <2>4. \A i \in DOMAIN m.items : m.items[i].of = l.of
    BY <2>1, <2>2, <2>3
  <2>5. ~(k \in Tab!Protected /\ l.of = None)
    BY <1>5, <2>2
  <2>6. Reads(k, m, Asked(k) \ {r}, workspace)
    BY <1>1, <1>2, <2>1, <2>4, <2>5, EndedReads
  <2>. QED  BY <2>1, <2>6
<1>. QED  BY <1>4, <1>5

LEMMA ListAnswerStep ==
  ASSUME TabInv, NEW r \in flight, Tab!Answer(r)
  PROVE  TabInv'
<1> USE Subjects
<1> DEFINE k == r.what
           l == shown[k]
<1>1. shown \in [Kind -> ListState] /\ TabTyped /\ k \in Kind /\ l \in ListState
  BY DEF TabInv, TabTyped, Tab!Answer
<1>2. r \in PageRequest /\ r \in TabRequest
  BY <1>1, TabRequestShape DEF TabTyped
<1>3. /\ UNCHANGED <<view, access, workspace, actor, usage, hidden>>
      /\ clicks' \in 0 .. MaxClicks[view]'
  BY <1>1 DEF Tab!Answer, Tab!workspaceVars, TabTyped
<1>4. /\ r \in Asked(k) /\ Asked(k) \in SUBSET PageRequest /\ Reads(k, l, Asked(k), workspace)
  BY <1>1, TabRequestShape DEF Asked, TabInv, TabTyped
<1>5. ASSUME NEW m \in ListState, m.of = l.of, Tab!ToSet(l.items) \subseteq Tab!ToSet(m.items),
             Reads(k, m, Asked(k) \ {r}, workspace),
             shown' = [shown EXCEPT ![k] = m], flight' = flight \ {r}, UNCHANGED <<selected, comparison>>
      PROVE  TabInv'
  <2> DEFINE gone == {r}
             also == {}
  <2>1. /\ gone \in SUBSET TabRequest /\ also \in SUBSET PageRequest
        /\ \A q \in gone \cup also : q.what = k
        /\ \A w : Belongs(w) =>
             \A q \in also : k \in Tab!Protected => q.workspace = workspace /\ q.key \in {None, w}
        /\ Reads(k, m, (Asked(k) \ gone) \cup also, workspace)
        /\ flight' = (flight \ gone) \cup also
    BY <1>2, <1>5
  <2>. HIDE DEF gone, also
  <2>. QED  BY <1>1, <1>3, <1>5, <2>1, OneList
<1>6. CASE ~Tab!Current(r)
  <2>1. r.id # l.id
    BY <1>1, <1>2, <1>4, <1>6 DEF Reads, Tab!Current, TabInv
  <2>2. Reads(k, l, Asked(k) \ {r}, workspace)
    BY <1>1, <1>4, <2>1, DroppedReads
  <2>3. flight' = flight \ {r} /\ UNCHANGED <<shown, selected, comparison>>
    BY <1>6 DEF Tab!Answer, Tab!catalogVars
  <2>4. shown' = [shown EXCEPT ![k] = l]
    BY <1>1, <2>3
  <2>. QED  BY <1>1, <1>5, <2>2, <2>3, <2>4
<1>7. CASE Tab!Current(r)
  <2>1. r.id = l.id
    BY <1>7 DEF Tab!Current
  <2>2. ASSUME NEW m, \/ \E circular \in BOOLEAN : m = Tab!Broken(r, circular)
                      \/ /\ r.key # None
                         /\ \E names \in Contents, next \in Cursor \cup {0} : m = Tab!Added(r, names, next)
        PROVE  /\ m \in ListState /\ m.of = l.of /\ Tab!ToSet(l.items) \subseteq Tab!ToSet(m.items)
               /\ Reads(k, m, Asked(k) \ {r}, workspace)
    BY <1>2, <2>1, <2>2, Turned
  <2>3. CASE shown' = [shown EXCEPT ![k] = Tab!Broken(r, FALSE)] /\ flight' = flight \ {r}
             /\ UNCHANGED <<selected, comparison>>
    <3>1. PICK m : m = Tab!Broken(r, FALSE)
      OBVIOUS
    <3>. QED  BY <1>5, <2>2, <2>3, <3>1
  <2>4. ASSUME NEW m, r.key # None,
               \E names \in Contents, next \in Cursor \cup {0} :
                  m = IF Tab!Continues(r, next) THEN Tab!Added(r, names, next) ELSE Tab!Broken(r, TRUE),
               LET lists == [shown EXCEPT ![k] = m] IN
               IF k = "catalog" /\ ~r.append /\ m.pages = 1 /\ m.items # <<>>
               THEN /\ Tab!Detail(lists, Head(m.items).name)
                    /\ flight' = (flight \ {r}) \cup {Tab!Page("releases", shown'["releases"], selected')}
               ELSE shown' = lists /\ flight' = flight \ {r} /\ UNCHANGED <<selected, comparison>>
        PROVE  TabInv'
    <3>1. /\ m \in ListState /\ m.of = l.of /\ Tab!ToSet(l.items) \subseteq Tab!ToSet(m.items)
          /\ Reads(k, m, Asked(k) \ {r}, workspace)
      BY <2>2, <2>4
    <3> DEFINE lists == [shown EXCEPT ![k] = m]
               package == Head(m.items).name
               gone == {r}
               also == {}
    <3>2. CASE k = "catalog" /\ ~r.append /\ m.pages = 1 /\ m.items # <<>>
      <4>1. lists \in [Kind -> ListState] /\ lists["catalog"] = m
            /\ \A j \in Kind \ {"catalog"} : lists[j] = shown[j]
        BY <1>1, <3>1, <3>2
      <4>2. package \in Name /\ package # None
        <5>1. m.items \in Seq(Item)
          BY <3>1 DEF ListState
        <5>2. Head(m.items) \in Item
          BY <3>2, <5>1
        <5>. QED  BY <5>2, TabAssumption DEF Item
      <4>3. /\ Tab!Detail(lists, package)
            /\ flight' = (flight \ {r}) \cup {Tab!Page("releases", shown'["releases"], selected')}
        BY <2>4, <3>2
      <4>4. selected' = package
        BY <4>3 DEF Tab!Detail
      <4>. HIDE DEF package, lists
      <4>5. /\ gone \in SUBSET TabRequest /\ also \in SUBSET PageRequest
            /\ \A q \in gone \cup also : q.what = "catalog"
            /\ Reads("catalog", lists["catalog"], (Asked("catalog") \ gone) \cup also, workspace)
            /\ flight' = (flight \ gone) \cup also \cup
                 (IF package = None THEN {} ELSE {Tab!Page("releases", shown'["releases"], package)})
        BY <1>2, <3>1, <3>2, <4>1, <4>2, <4>3, <4>4
      <4>. HIDE DEF gone, also
      <4>. QED  BY <1>3, <4>1, <4>2, <4>3, <4>5, DetailTab
    <3>3. CASE ~(k = "catalog" /\ ~r.append /\ m.pages = 1 /\ m.items # <<>>)
      BY <1>5, <2>4, <3>1, <3>3
    <3>. QED  BY <3>2, <3>3
  <2>5. CASE /\ r.key # None
             /\ \E names \in Contents, next \in Cursor \cup {0} :
                  LET m == IF Tab!Continues(r, next) THEN Tab!Added(r, names, next) ELSE Tab!Broken(r, TRUE)
                      lists == [shown EXCEPT ![k] = m]
                  IN  IF k = "catalog" /\ ~r.append /\ m.pages = 1 /\ m.items # <<>>
                      THEN /\ Tab!Detail(lists, Head(m.items).name)
                           /\ flight' = (flight \ {r}) \cup {Tab!Page("releases", shown'["releases"], selected')}
                      ELSE shown' = lists /\ flight' = flight \ {r} /\ UNCHANGED <<selected, comparison>>
    BY <2>4, <2>5
  <2>. QED  BY <1>7, <2>3, <2>5 DEF Tab!Answer, Tab!catalogVars
<1>. QED  BY <1>6, <1>7
LEMMA CompareStep ==
  ASSUME TabInv, NEW from \in Tab!ToSet(shown["releases"].items), NEW to \in Tab!ToSet(shown["releases"].items),
         Tab!loadVersionComparison(from, to)
  PROVE  TabInv'
<1> USE Subjects
<1> DEFINE diff == [what |-> "diff", id |-> comparison.id + 1, key |-> selected, of |-> {from, to}]
<1>1. TabTyped /\ selected \in Name /\ comparison.id \in Nat /\ comparison.id + 1 \in Nat
  BY DEF TabInv, TabTyped, Tab!loadVersionComparison
<1>2. Listed \subseteq Item /\ {from, to} \subseteq Listed
  <2>1. shown["releases"].items \in Seq(Item)
    BY <1>1 DEF TabTyped, ListState
  <2>. QED  BY <2>1 DEF Listed, Tab!ToSet
<1>3. diff \in DiffRequest /\ diff.what = "diff" /\ diff.id = comparison.id + 1 /\ diff.of = {from, to}
  BY <1>1, <1>2 DEF DiffRequest
<1>4. /\ flight' = flight \cup {diff}
      /\ comparison' = [id |-> comparison.id + 1, loading |-> TRUE, shown |-> None]
      /\ UNCHANGED <<view, shown, selected, access, workspace, actor, usage, hidden>>
      /\ Tab!Click
  BY DEF Tab!loadVersionComparison, Tab!workspaceVars
<1>. HIDE DEF diff
<1>5. TabTyped'
  <2>1. comparison' \in [id : Nat, loading : BOOLEAN, shown : (SUBSET Item) \cup {None}]
    BY <1>1, <1>4
  <2>2. clicks' \in 0 .. MaxClicks[view]'
    BY <1>1, <1>4, Clicked
  <2>3. flight' \subseteq TabRequest
    BY <1>1, <1>3, <1>4 DEF TabTyped, TabRequest
  <2>. QED  BY <1>1, <1>4, <2>1, <2>2, <2>3 DEF TabTyped
<1>6. ASSUME NEW k \in Kind
      PROVE  Reads(k, shown[k], Asked(k), workspace)'
  <2>1. Asked(k)' = Asked(k)
    BY <1>3, <1>4 DEF Asked
  <2>. QED  BY <1>4, <2>1 DEF TabInv
<1>7. Compares'
  <2>1. \A r \in flight : r.what = "diff" => r.id \in Nat /\ r.id <= comparison.id
    BY <1>1, TabRequestShape DEF TabInv, TabTyped, Compares, DiffRequest
  <2>2. \A r \in flight : r.what = "diff" => r.id <= comparison.id + 1 /\ r.id # comparison.id + 1
    BY <1>1, <2>1
  <2>. QED  BY <1>1, <1>2, <1>3, <1>4, <2>2 DEF Compares, Listed
<1>8. PICK w \in Tab!Identity \cup {None} : Belongs(w)
  BY Owner
<1>9. Belongs(w)'
  BY <1>3, <1>4, <1>8 DEF Belongs
<1>. QED  BY <1>4, <1>5, <1>6, <1>7, <1>9 DEF TabInv

LEMMA ComparedStep ==
  ASSUME TabInv, NEW r \in flight, Tab!Compared(r)
  PROVE  TabInv'
<1> USE Subjects
<1>1. /\ r.what = "diff" /\ flight' = flight \ {r}
      /\ UNCHANGED <<view, shown, selected, access, workspace, actor, usage, hidden, clicks>>
      /\ \/ UNCHANGED comparison
         \/ r.id = comparison.id /\ \E of \in {None, r.of} :
              comparison' = [comparison EXCEPT !.loading = FALSE, !.shown = of]
  BY DEF Tab!Compared, Tab!workspaceVars
<1>2. TabTyped /\ r \in DiffRequest
  BY <1>1, TabRequestShape DEF TabInv, TabTyped
<1>3. /\ comparison' \in [id : Nat, loading : BOOLEAN, shown : (SUBSET Item) \cup {None}]
      /\ comparison'.id = comparison.id
      /\ \/ comparison'.shown \in {comparison.shown, None}
         \/ r.id = comparison.id /\ comparison'.shown = r.of
  BY <1>1, <1>2 DEF TabTyped, DiffRequest
<1>4. TabTyped'
  BY <1>1, <1>2, <1>3 DEF TabTyped
<1>5. ASSUME NEW k \in Kind
      PROVE  Reads(k, shown[k], Asked(k), workspace)'
  <2>1. Asked(k)' = Asked(k)
    BY <1>1 DEF Asked
  <2>. QED  BY <1>1, <2>1 DEF TabInv
<1>6. Compares'
  BY <1>1, <1>3 DEF TabInv, Compares, Listed
<1>7. PICK w \in Tab!Identity \cup {None} : Belongs(w)
  BY Owner
<1>8. Belongs(w)'
  BY <1>1, <1>7 DEF Belongs
<1>. QED  BY <1>1, <1>4, <1>5, <1>6, <1>8 DEF TabInv

LEMMA TabInit ==
  ASSUME Tab!Init
  PROVE  TabInv
<1> USE Subjects
<1> DEFINE empty == [id |-> 0, of |-> None, items |-> <<>>, cursor |-> 0, seen |-> {}, pages |-> 0,
                     more |-> FALSE, loading |-> FALSE]
           session == [what |-> "session"]
<1>1. empty \in ListState
  <2>1. 0 \in 0 .. MaxPages /\ <<>> \in Seq(Item)
    BY TabAssumption
  <2>. QED  BY <2>1 DEF ListState
<1>2. /\ shown \in [Kind -> {empty}] /\ flight \subseteq {session}
      /\ access = None /\ actor = None /\ usage = None /\ workspace = 0 /\ ~hidden /\ hidden \in BOOLEAN
      /\ selected = None /\ comparison = [id |-> 0, loading |-> FALSE, shown |-> None]
      /\ view \in View /\ clicks = 0
  BY DEF Tab!Init
<1>3. session \in TabRequest
  BY DEF TabRequest, PlainRequest
<1>4. TabTyped
  <2>1. shown \in [Kind -> ListState]
    BY <1>1, <1>2
  <2>2. flight \subseteq TabRequest
    BY <1>2, <1>3
  <2>3. comparison \in [id : Nat, loading : BOOLEAN, shown : (SUBSET Item) \cup {None}]
    BY <1>2
  <2>4. clicks \in 0 .. MaxClicks[view]
    BY <1>2, TabAssumption
  <2>. QED  BY <1>2, <2>1, <2>2, <2>3, <2>4 DEF TabTyped
<1>5. \A k \in Kind : Reads(k, shown[k], Asked(k), workspace)
  <2>. SUFFICES ASSUME NEW k \in Kind
                PROVE  Reads(k, shown[k], Asked(k), workspace)
    OBVIOUS
  <2>1. shown[k] = empty
    BY <1>2
  <2>2. \A r \in flight : r.what \notin Kind
    BY <1>2
  <2>3. Asked(k) = {}
    BY <2>2 DEF Asked
  <2>. QED  BY <2>1, <2>3 DEF Reads
<1>6. Compares /\ shown["releases"].of = selected
  BY <1>2 DEF Compares
<1>7. Belongs(None)
  BY <1>2 DEF Belongs
<1>. QED  BY <1>4, <1>5, <1>6, <1>7 DEF TabInv

LEMMA TabNext ==
  ASSUME TabInv, Tab!Next
  PROVE  TabInv'
<1>1. DOMAIN shown = Kind
  BY DEF TabInv, TabTyped
<1>2. ASSUME NEW r \in flight,
             \/ Tab!Answer(r) \/ Tab!Compared(r) \/ Tab!Restored(r) \/ Tab!Known(r) \/ Tab!Unknown(r)
             \/ Tab!Usage(r) \/ Tab!Reviewed(r) \/ Tab!SignedOut(r)
      PROVE  TabInv'
  BY <1>2, ListAnswerStep, ComparedStep, RestoredStep, KnownStep, UnknownStep, UsageStep, ReviewedStep,
     SignedOutStep
<1>. QED  BY <1>1, <1>2, MoreStep, SearchStep, SelectPackageStep, CompareStep, ConnectStep, RefreshStep,
             WorkspaceClicks DEF Tab!Next

LEMMA TabStutter ==
  ASSUME TabInv, UNCHANGED tabVars
  PROVE  TabInv'
<1>1. \A k \in Kind : Reads(k, shown[k], Asked(k), workspace)'
  BY DEF TabInv, tabVars, Reads, Asked
<1>2. \A w : Belongs(w) => Belongs(w)'
  BY DEF tabVars, Belongs
<1>3. TabTyped' /\ Compares' /\ shown'["releases"].of = selected'
  BY DEF TabInv, tabVars, TabTyped, Compares, Listed
<1>. QED  BY <1>1, <1>2, <1>3 DEF TabInv

\* Console: for any queries, identities, pages and number of clicks, whatever order
\* the requests of a tab are answered in, it shows what it asked for, for whoever it
\* is authorised as now, and a list that reads has a request that ends it.
THEOREM TabShowsWhatItAsked == EdgeSpec => []ShownAsAsked
<1>1. EdgeInit => (part = "tab" => TabInv)
  BY TabInit DEF EdgeInit
<1>2. /\ part = "tab" => TabInv
      /\ [EdgeNext]_<<part, browserVars, limiterVars, pageVars, clientVars, loreVars, operatorVars, tabVars>>
      => (part = "tab" => TabInv)'
  BY TabNext, TabStutter DEF EdgeNext
<1>3. (part = "tab" => TabInv) => ShownAsAsked
  <2>. SUFFICES ASSUME TabInv
                PROVE  Tab!ShownAsAsked
    BY DEF ShownAsAsked
  <2>1. DOMAIN shown = Kind
    BY DEF TabInv, TabTyped
  <2>2. ASSUME NEW k \in Kind
        PROVE  LET l == shown[k] IN
               /\ \A i \in DOMAIN l.items : l.items[i].of = l.of
               /\ \A i, j \in DOMAIN l.items : l.items[i] = l.items[j] => i = j
               /\ l.loading => \E r \in flight : r.what = k /\ Tab!Current(r)
    <3>1. Reads(k, shown[k], Asked(k), workspace)
      BY DEF TabInv
    <3>2. \A r \in Asked(k) : r.id = shown[k].id => Tab!Current(r)
      BY <3>1, Subjects DEF Reads, Asked, Tab!Current, TabInv
    <3>. QED  BY <3>1, <3>2 DEF Reads, Asked
  <2>3. PICK w \in Tab!Identity \cup {None} : Belongs(w)
    BY Owner
  <2>4. Tab!Whose \subseteq {w} \ {None}
    <3>1. ASSUME NEW k \in Tab!Protected, NEW item \in Tab!ToSet(shown[k].items)
          PROVE  item.of \in {w} \ {None}
      <4>1. k \in Kind /\ Reads(k, shown[k], Asked(k), workspace)
        BY Subjects DEF TabInv
      <4>2. item.of = shown[k].of /\ shown[k].items # <<>>
        BY <4>1 DEF Reads, Tab!ToSet
      <4>. QED  BY <2>3, <4>1, <4>2 DEF Reads, Belongs
    <3>. QED  BY <2>3, <3>1, Subjects DEF Tab!Whose, Tab!Shown, Belongs
  <2>5. Tab!Cardinality(Tab!Whose) <= 1
    <3>1. IsFiniteSet({w}) /\ Cardinality({w}) = 1
      BY FS_Singleton
    <3>2. Tab!Whose \subseteq {w}
      BY <2>4
    <3>. QED  BY <3>1, <3>2, FS_Subset, SameCardinality
  <2>6. ~hidden => Tab!Whose \subseteq {access}
    BY <2>3, <2>4 DEF Belongs
  <2>7. /\ shown["releases"].of = selected
        /\ comparison.shown # None => comparison.shown \subseteq Tab!ToSet(shown["releases"].items)
    BY DEF TabInv, Compares, Listed
  <2>. QED  BY <2>1, <2>2, <2>5, <2>6, <2>7 DEF Tab!ShownAsAsked
<1>. QED  BY <1>1, <1>2, <1>3, PTL DEF EdgeSpec

=============================================================================
