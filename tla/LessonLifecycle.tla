--------------------------- MODULE LessonLifecycle ---------------------------
(***************************************************************************)
(* What the local lore store promises about the lessons it keeps, with     *)
(* every operation taken as one atomic step: a lesson is created as a       *)
(* candidate, its body may be edited while it is a candidate, and from      *)
(* there its status only moves forward.                                     *)
(*                                                                         *)
(*      absent --> candidate --> approved --> deprecated                    *)
(*                     |                                                    *)
(*                     +-------> rejected                                   *)
(*                                                                         *)
(* LessonStore implements this specification with lock files, temporary     *)
(* files and renames.                                                      *)
(***************************************************************************)

CONSTANTS
  Lesson,   \* lesson ids
  Body,     \* everything a lesson file says beside its status
  Unfit     \* the bodies whose detector configuration is invalid

VARIABLE file  \* file[l]: the lesson a reader of the store sees under id l

Status == {"candidate", "approved", "rejected", "deprecated"}

Record == [status : Status, body : Body]

\* No file under that id. Bodies of absent lessons are never looked at.
Absent == [status |-> "absent", body |-> {}]

RecordOf(s, b) == [status |-> s, body |-> b]

TypeOK == file \in [Lesson -> Record \cup {Absent}]

\* The lessons that come with the program: approved, and fit.
Seed == {RecordOf("approved", b) : b \in Body \ Unfit}

\* initLore copies seed lessons, or none, into a new directory.
Init == file \in [Lesson -> Seed \cup {Absent}]

-----------------------------------------------------------------------------

Move(l, from, to, b) ==
  /\ file[l].status = from
  /\ file' = [file EXCEPT ![l] = RecordOf(to, b)]

\* putLesson of a new id.
Propose(l, b) == Move(l, "absent", "candidate", b)

\* putLesson with overwrite, or an author saving the file in an editor.
Edit(l, b) == Move(l, "candidate", "candidate", b)

\* approveLesson: the body that becomes approved has a valid detector.
Approve(l, b) == b \notin Unfit /\ Move(l, "candidate", "approved", b)

\* rejectLesson keeps the candidate as a tombstone.
Reject(l, b) == Move(l, "candidate", "rejected", b)

\* deprecateLesson retires an approved lesson and keeps what it said.
Deprecate(l) == Move(l, "approved", "deprecated", file[l].body)

Next ==
  \E l \in Lesson :
    \/ \E b \in Body : Propose(l, b) \/ Edit(l, b) \/ Approve(l, b) \/ Reject(l, b)
    \/ Deprecate(l)

Spec == Init /\ [][Next]_file

=============================================================================
