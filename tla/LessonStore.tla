----------------------------- MODULE LessonStore -----------------------------
(***************************************************************************)
(* The local lore store of src/store.ts: a directory of lesson files that   *)
(* any number of operating-system processes (CLI runs, MCP servers, CI      *)
(* jobs) read and write with no daemon between them.                        *)
(*                                                                         *)
(* A write (putLesson, approveLesson, rejectLesson, deprecateLesson) runs   *)
(* under a lock file of its lesson, created exclusively; it loads the       *)
(* lesson, decides, writes a temporary file and puts it in place with one   *)
(* link or rename, then removes the lock file. Nothing removes the lock of  *)
(* a process that died: an operator does that by hand. Authors edit         *)
(* candidate files and fixtures in an editor that knows nothing of locks.   *)
(***************************************************************************)

CONSTANTS
  Proc,      \* the processes that share the directory
  Lesson,    \* lesson ids
  Body,      \* everything a lesson file says beside its status
  Unfit,     \* bodies with an invalid detector configuration
  Block,     \* bodies of severity "block": approved only if their fixtures agree
  Free,      \* no lock file
  Careful    \* TRUE: the operator removes a lock only once its process is gone

ASSUME BodyAssumption == Unfit \subseteq Body /\ Block \subseteq Body
ASSUME FreeAssumption == Free \notin Proc
ASSUME CarefulAssumption == Careful \in BOOLEAN

VARIABLES
  file,      \* file[l]: the lesson file under its final name
  fixtures,  \* fixtures[l]: the block bodies that l's fixture files accept now
  lock,      \* lock[l]: the process that created l's lock file, or Free
  pidKnown,  \* pidKnown[l]: l's lock file already holds the pid of its process
  pc,        \* pc[p]: where p is in the operation it runs
  op,        \* op[p]: that operation
  seen,      \* seen[p]: the lesson p loaded under the lock
  tmp,       \* tmp[p]: p's temporary file
  res        \* res[p]: how the operation of p ends, once known

vars == <<file, fixtures, lock, pidKnown, pc, op, seen, tmp, res>>

Lifecycle == INSTANCE LessonLifecycle

Status == Lifecycle!Status
Record == Lifecycle!Record
Absent == Lifecycle!Absent
RecordOf(s, b) == Lifecycle!RecordOf(s, b)

NoBody == {}

\* A file that was opened and not yet completely written.
Torn  == RecordOf("torn", NoBody)
NoTmp == RecordOf("none", NoBody)

\* putLesson carries the lesson to write; the others only name one.
Operation ==
  [kind : {"create", "overwrite"}, lesson : Lesson, body : Body]
    \cup [kind : {"approve", "reject", "deprecate"}, lesson : Lesson, body : {NoBody}]

NoOp == [kind |-> "none", lesson |-> Free, body |-> NoBody]

\* The places where a process may be: "opened" has created the lock file,
\* "entered" has put its pid there, "vetting" has loaded a lesson to approve,
\* "ready" has decided to write, "writing" and "synced" have a partial and a
\* complete temporary file, "linked" and "installed" have the lesson in place,
\* "closing" knows its outcome and has the lock left to remove, "unlinking" has
\* looked at the lock file and found its own.
Pc == {"idle", "opened", "entered", "vetting", "ready", "writing", "synced",
       "linked", "installed", "closing", "unlinking"}

Result == {"none", "ok", "refused", "failed", "crashed"}

TypeOK ==
  /\ file \in [Lesson -> Record \cup {Absent}]
  /\ fixtures \in [Lesson -> SUBSET Block]
  /\ lock \in [Lesson -> Proc \cup {Free}]
  /\ pidKnown \in [Lesson -> BOOLEAN]
  /\ pc \in [Proc -> Pc]
  /\ op \in [Proc -> Operation \cup {NoOp}]
  /\ seen \in [Proc -> Record \cup {Absent}]
  /\ tmp \in [Proc -> Record \cup {NoTmp, Torn}]
  /\ res \in [Proc -> Result]

Init ==
  /\ file \in [Lesson -> Lifecycle!Seed \cup {Absent}]
  /\ fixtures \in [Lesson -> SUBSET Block]
  /\ lock = [l \in Lesson |-> Free]
  /\ pidKnown = [l \in Lesson |-> FALSE]
  /\ pc = [p \in Proc |-> "idle"]
  /\ op = [p \in Proc |-> NoOp]
  /\ seen = [p \in Proc |-> Absent]
  /\ tmp = [p \in Proc |-> NoTmp]
  /\ res = [p \in Proc |-> "none"]

-----------------------------------------------------------------------------
(* What an operation decides from the lesson it loaded.                     *)

\* The status an operation leaves the lesson in.
Target(k) ==
  IF k = "approve" THEN "approved"
  ELSE IF k = "reject" THEN "rejected"
  ELSE IF k = "deprecate" THEN "deprecated"
  ELSE "candidate"

\* The lesson already is what the operation would make of it: return it as is.
Idempotent(o, r) ==
  o.kind \in {"approve", "reject", "deprecate"} /\ r.status = Target(o.kind)

PermittedFromAny(o, r) ==
  \/ o.kind = "create" /\ r.status = "absent"
  \/ o.kind = "overwrite" /\ r.status \in {"absent", "candidate"}
  \/ o.kind \in {"approve", "reject"} /\ r.status # "absent"
  \/ o.kind = "deprecate" /\ r.status = "approved"

PermittedIfAbsent(o, r) ==
  \/ o.kind = "create" /\ r.status = "absent"
  \/ o.kind = "overwrite" /\ r.status \in {"absent", "candidate"}
  \/ o.kind \in {"approve", "reject"} /\ r.status \in {"absent", "candidate"}
  \/ o.kind = "deprecate" /\ r.status = "approved"

\* The transitions each operation lets through.
Permitted(o, r) ==
  \/ o.kind = "create" /\ r.status = "absent"
  \/ o.kind = "overwrite" /\ r.status \in {"absent", "candidate"}
  \/ o.kind \in {"approve", "reject"} /\ r.status = "candidate"
  \/ o.kind = "deprecate" /\ r.status = "approved"

\* The detector is configured properly and, for a block lesson, hits the bad
\* fixtures and leaves the good ones alone.
Vetted(b, accepted) == b \notin Unfit /\ (b \in Block => b \in accepted)

WrittenFromDisk(p) ==
  IF op[p].kind \in {"create", "overwrite"}
    THEN RecordOf("candidate", op[p].body)
    ELSE RecordOf(Target(op[p].kind), file[op[p].lesson].body)

\* What the operation writes: its own body, or the loaded body in a new status.
Written(p) ==
  IF op[p].kind \in {"create", "overwrite"}
    THEN RecordOf("candidate", op[p].body)
    ELSE RecordOf(Target(op[p].kind), seen[p].body)

-----------------------------------------------------------------------------
(* The lock file (withLessonWriteLock).                                     *)

OpenLockUnlessPidKnown(p, o) ==
  /\ pc[p] = "idle"
  /\ lock[o.lesson] = Free \/ ~pidKnown[o.lesson]
  /\ lock' = [lock EXCEPT ![o.lesson] = p]
  /\ pidKnown' = [pidKnown EXCEPT ![o.lesson] = FALSE]
  /\ pc' = [pc EXCEPT ![p] = "opened"]
  /\ op' = [op EXCEPT ![p] = o]
  /\ res' = [res EXCEPT ![p] = "none"]
  /\ UNCHANGED <<file, fixtures, seen, tmp>>

\* Only one process can create the file. The others get EEXIST and fail at
\* once, whoever the lock belongs to: nothing changes, so nothing is modelled.
OpenLock(p, o) ==
  /\ pc[p] = "idle"
  /\ lock[o.lesson] = Free
  /\ lock' = [lock EXCEPT ![o.lesson] = p]
  /\ pidKnown' = [pidKnown EXCEPT ![o.lesson] = FALSE]
  /\ pc' = [pc EXCEPT ![p] = "opened"]
  /\ op' = [op EXCEPT ![p] = o]
  /\ res' = [res EXCEPT ![p] = "none"]
  /\ UNCHANGED <<file, fixtures, seen, tmp>>

\* The pid goes through the descriptor: to the lock file p created, even if
\* that file no longer has a name.
RecordPid(p) ==
  LET l == op[p].lesson IN
  /\ pc[p] = "opened"
  /\ pidKnown' = [pidKnown EXCEPT ![l] = (lock[l] = p) \/ @]
  /\ pc' = [pc EXCEPT ![p] = "entered"]
  /\ UNCHANGED <<file, fixtures, lock, op, seen, tmp, res>>

\* The outcome goes to the caller and the process forgets the operation.
Return(p, outcome) ==
  /\ pc' = [pc EXCEPT ![p] = "idle"]
  /\ op' = [op EXCEPT ![p] = NoOp]
  /\ seen' = [seen EXCEPT ![p] = Absent]
  /\ tmp' = [tmp EXCEPT ![p] = NoTmp]
  /\ res' = [res EXCEPT ![p] = outcome]

\* Mutation: the cleanup unlinks whatever has the name.
CheckLockByName(p) ==
  /\ pc[p] = "closing"
  /\ pc' = [pc EXCEPT ![p] = "unlinking"]
  /\ UNCHANGED <<file, fixtures, lock, pidKnown, op, seen, tmp, res>>

\* lstat: is the lock file still the one p created? If it is another one it stays
\* where it is (and the caller gets an error that says so).
CheckLock(p) ==
  /\ pc[p] = "closing"
  /\ IF lock[op[p].lesson] = p
       THEN pc' = [pc EXCEPT ![p] = "unlinking"] /\ UNCHANGED <<op, seen, tmp, res>>
       ELSE Return(p, "none")
  /\ UNCHANGED <<file, fixtures, lock, pidKnown>>

\* unlink(2) goes by the name: it removes the file that has it by now.
Unlock(p) ==
  /\ pc[p] = "unlinking"
  /\ lock' = [lock EXCEPT ![op[p].lesson] = Free]
  /\ Return(p, "none")
  /\ UNCHANGED <<file, fixtures, pidKnown>>

-----------------------------------------------------------------------------
(* The operation, under the lock.                                           *)

Finish(p, outcome) ==
  /\ pc' = [pc EXCEPT ![p] = "closing"]
  /\ res' = [res EXCEPT ![p] = outcome]

\* loadStore and getLesson, and the status checks on what they return.
Load(p) ==
  LET o == op[p]
      r == file[o.lesson]
  IN
  /\ pc[p] = "entered"
  /\ seen' = [seen EXCEPT ![p] = r]
  /\ \/ Idempotent(o, r) /\ Finish(p, "ok")
     \/ /\ ~Idempotent(o, r) /\ Permitted(o, r)
        /\ pc' = [pc EXCEPT ![p] = IF o.kind = "approve" THEN "vetting" ELSE "ready"]
        /\ UNCHANGED res
     \/ ~Idempotent(o, r) /\ ~Permitted(o, r) /\ Finish(p, "refused")
  /\ UNCHANGED <<file, fixtures, lock, pidKnown, op, tmp>>

VetOrHang(p) ==
  /\ pc[p] = "vetting"
  /\ Vetted(seen[p].body, fixtures[op[p].lesson])
  /\ pc' = [pc EXCEPT ![p] = "ready"]
  /\ UNCHANGED <<file, fixtures, lock, pidKnown, op, seen, tmp, res>>

\* assertLessonDetectorConfiguration and assertBlockLessonFixtures: they look
\* at the loaded lesson, and at the fixture files as they are now.
Vet(p) ==
  /\ pc[p] = "vetting"
  /\ IF Vetted(seen[p].body, fixtures[op[p].lesson])
       THEN pc' = [pc EXCEPT ![p] = "ready"] /\ UNCHANGED res
       ELSE Finish(p, "refused")
  /\ UNCHANGED <<file, fixtures, lock, pidKnown, op, seen, tmp>>

\* writeFileAtomically, step by step.
OpenTemp(p) ==
  /\ pc[p] = "ready"
  /\ tmp' = [tmp EXCEPT ![p] = Torn]
  /\ pc' = [pc EXCEPT ![p] = "writing"]
  /\ UNCHANGED <<file, fixtures, lock, pidKnown, op, seen, res>>

FillTempLater(p) ==
  /\ pc[p] = "writing"
  /\ pc' = [pc EXCEPT ![p] = "synced"]
  /\ UNCHANGED <<file, fixtures, lock, pidKnown, op, seen, tmp, res>>

FillTemp(p) ==
  /\ pc[p] = "writing"
  /\ tmp' = [tmp EXCEPT ![p] = Written(p)]
  /\ pc' = [pc EXCEPT ![p] = "synced"]
  /\ UNCHANGED <<file, fixtures, lock, pidKnown, op, seen, res>>

\* link(2) for a create: it fails with EEXIST if the name is taken.
Link(p) ==
  LET l == op[p].lesson IN
  /\ pc[p] = "synced"
  /\ op[p].kind = "create"
  /\ IF file[l] = Absent
       THEN /\ file' = [file EXCEPT ![l] = tmp[p]]
            /\ pc' = [pc EXCEPT ![p] = "linked"]
            /\ UNCHANGED <<tmp, res>>
       ELSE /\ tmp' = [tmp EXCEPT ![p] = NoTmp]
            /\ Finish(p, "refused")
            /\ UNCHANGED file
  /\ UNCHANGED <<fixtures, lock, pidKnown, op, seen>>

UnlinkTemp(p) ==
  /\ pc[p] = "linked"
  /\ tmp' = [tmp EXCEPT ![p] = NoTmp]
  /\ pc' = [pc EXCEPT ![p] = "installed"]
  /\ UNCHANGED <<file, fixtures, lock, pidKnown, op, seen, res>>

\* rename(2) for every other operation.
Rename(p) ==
  /\ pc[p] = "synced"
  /\ op[p].kind # "create"
  /\ file' = [file EXCEPT ![op[p].lesson] = tmp[p]]
  /\ tmp' = [tmp EXCEPT ![p] = NoTmp]
  /\ pc' = [pc EXCEPT ![p] = "installed"]
  /\ UNCHANGED <<fixtures, lock, pidKnown, op, seen, res>>

SyncDirectory(p) ==
  /\ pc[p] = "installed"
  /\ Finish(p, "ok")
  /\ UNCHANGED <<file, fixtures, lock, pidKnown, op, seen, tmp>>

FailSilently(p) ==
  /\ pc[p] \in {"opened", "ready", "writing", "synced", "linked", "installed"}
  /\ tmp' = [tmp EXCEPT ![p] = NoTmp]
  /\ Finish(p, "ok")
  /\ UNCHANGED <<file, fixtures, lock, pidKnown, op, seen>>

\* A system call fails (disk full, I/O error). The temporary file is cleaned up
\* and the error reported, even where the lesson is already in place.
Fail(p) ==
  /\ pc[p] \in {"opened", "ready", "writing", "synced", "linked", "installed"}
  /\ tmp' = [tmp EXCEPT ![p] = NoTmp]
  /\ Finish(p, "failed")
  /\ UNCHANGED <<file, fixtures, lock, pidKnown, op, seen>>

-----------------------------------------------------------------------------
(* The surroundings: crashes, the operator, and authors with an editor.     *)

\* Whatever is on disk stays there: the lock file, and the temporary file under
\* a random name that no reader takes for a lesson.
Crash(p) ==
  /\ pc[p] # "idle"
  /\ Return(p, "crashed")
  /\ UNCHANGED <<file, fixtures, lock, pidKnown>>

\* The process that created l's lock file still runs the operation on l.
Held(l) == lock[l] \in Proc /\ pc[lock[l]] # "idle" /\ op[lock[l]].lesson = l

OperatorUnlock(l) ==
  /\ lock[l] # Free
  /\ Careful => ~Held(l)
  /\ lock' = [lock EXCEPT ![l] = Free]
  /\ UNCHANGED <<file, fixtures, pidKnown, pc, op, seen, tmp, res>>

EditCandidate(l, b) ==
  /\ file[l].status = "candidate"
  /\ file' = [file EXCEPT ![l] = RecordOf("candidate", b)]
  /\ UNCHANGED <<fixtures, lock, pidKnown, pc, op, seen, tmp, res>>

EditFixtures(l, accepted) ==
  /\ fixtures' = [fixtures EXCEPT ![l] = accepted]
  /\ UNCHANGED <<file, lock, pidKnown, pc, op, seen, tmp, res>>

-----------------------------------------------------------------------------

Begin(p) == \E o \in Operation : OpenLock(p, o)

\* What the code does next once it has the lock: there is nothing it waits for.
Step(p) ==
  \/ RecordPid(p) \/ Load(p) \/ Vet(p)
  \/ OpenTemp(p) \/ FillTemp(p) \/ Link(p) \/ UnlinkTemp(p) \/ Rename(p) \/ SyncDirectory(p)
  \/ CheckLock(p) \/ Unlock(p)

Environment(l) ==
  \/ OperatorUnlock(l)
  \/ \E b \in Body : EditCandidate(l, b)
  \/ \E accepted \in SUBSET Block : EditFixtures(l, accepted)

Next ==
  \/ \E p \in Proc : Begin(p) \/ Step(p) \/ Fail(p) \/ Crash(p)
  \/ \E l \in Lesson : Environment(l)

\* A process goes on with what it started unless it dies, and the operator
\* eventually removes the lock of a dead process (a careless one may remove
\* others, but nobody counts on it).
Fairness ==
  /\ \A p \in Proc : WF_vars(Step(p))
  /\ \A l \in Lesson : WF_vars(~Held(l) /\ OperatorUnlock(l))

Spec == Init /\ [][Next]_vars

FairSpec == Spec /\ Fairness

-----------------------------------------------------------------------------
(* Properties.                                                              *)

\* Two processes never work on the same lesson at the same time: the lock file
\* of withLessonWriteLock is theirs one after the other, crashes included.
MutualExclusion ==
  \A p, q \in Proc :
    pc[p] # "idle" /\ pc[q] # "idle" /\ op[p].lesson = op[q].lesson => p = q

\* From the moment an operation has checked the status of its lesson until it
\* puts the new file in place, that status is still the one on disk, whatever
\* other processes and editors do meanwhile: what was decided may be written.
DecisionStillHolds ==
  \A p \in Proc :
    pc[p] \in {"vetting", "ready", "writing", "synced"} =>
      file[op[p].lesson].status = seen[p].status

\* A reader never finds a half-written lesson under its final name, even if the
\* writer crashed or failed at any point of writeFileAtomically.
NoTornLesson == \A l \in Lesson : file[l] # Torn

\* No lesson is or was active with a detector that approveLesson would refuse,
\* not even if an author saved a broken one while the approval was running.
ApprovedIsFit ==
  \A l \in Lesson :
    file[l].status \in {"approved", "deprecated"} => file[l].body \notin Unfit

\* One process at a time works on a lesson, and what it decided on holds until
\* it is written: withLessonWriteLock does what it is for.
OneWriterDecides == MutualExclusion /\ DecisionStillHolds

\* Every lesson is whole, and fit if it is or was active: approveLesson writes
\* what it vetted, in one piece.
LessonsSound == NoTornLesson /\ ApprovedIsFit

\* An operation about to report success has had its effect: the lesson on disk
\* is in the status the caller asked for.
OkMeansDone ==
  \A p \in Proc :
    pc[p] \in {"closing", "unlinking"} /\ res[p] = "ok" => file[op[p].lesson].status = Target(op[p].kind)

\* No process takes over the lock file of another one, alive or dead, and its
\* cleanup leaves a replacement alone (tests/reject.test.ts:580): it never sets out
\* to unlink a lock that somebody else has by then. With a careful operator no such
\* lock goes at all; a careless one can have it replaced between lstat and unlink.
OnlyOwnerUnlocks ==
  [][\A l \in Lesson, p \in Proc :
       lock[l] \in Proc \ {p} /\ pc'[p] # pc[p] =>
         /\ op[p].lesson = l => pc'[p] # "unlinking"
         /\ \/ lock'[l] = lock[l]
            \/ ~Careful /\ pc[p] = "unlinking" /\ op[p].lesson = l]_vars

\* Every change of a lesson file is one step of its life cycle: approved,
\* rejected and deprecated are never undone and no step is skipped.
ImplementsLifecycle == Lifecycle!Spec

\* No lesson stays locked for ever, as long as somebody clears up after crashes.
LockIsFreed == \A l \in Lesson : []<>(lock[l] = Free)

\* README.md:504-506 tells the operator to inspect the pid recorded in the lock
\* of a crashed process: so there should be one.
StaleLockNamesItsProcess ==
  \A l \in Lesson : lock[l] # Free /\ ~Held(l) => pidKnown[l]

=============================================================================
