-------------------------- MODULE LessonStoreProofs --------------------------
(***************************************************************************)
(* Proofs about LessonStore for any processes, lessons and bodies: as long  *)
(* as the operator is careful, the lock file excludes and the store         *)
(* implements the life cycle of its lessons; with any operator, nobody sets *)
(* out to clean up the lock file of another process.                        *)
(***************************************************************************)
EXTENDS LessonStore, TLAPS

\* A process at work holds the lock file of its lesson. With a careful operator
\* nobody else removes that file, which is what the rest depends on.
HoldsLock ==
  \A p \in Proc :
    pc[p] # "idle" => op[p] \in Operation /\ lock[op[p].lesson] = p

\* What a process decided on under the lock: its lesson may still be edited by
\* its author as long as it is a candidate, and is untouched otherwise.
Decided ==
  \A p \in Proc :
    pc[p] \in {"vetting", "ready", "writing", "synced"} =>
      /\ Permitted(op[p], seen[p])
      /\ file[op[p].lesson].status = seen[p].status
      /\ seen[p].status # "candidate" => file[op[p].lesson] = seen[p]

\* What it is about to put in place: the temporary file is complete, and an
\* approval is of the body that passed the checks.
Prepared ==
  \A p \in Proc :
    /\ pc[p] = "synced" => tmp[p] = Written(p)
    /\ pc[p] \in {"ready", "writing", "synced"} /\ op[p].kind = "approve"
         => seen[p].body \notin Unfit

\* What it has put in place: the lesson is where the operation was to bring it.
Done ==
  \A p \in Proc :
    \/ pc[p] \in {"linked", "installed"}
    \/ pc[p] \in {"closing", "unlinking"} /\ res[p] = "ok"
    => file[op[p].lesson].status = Target(op[p].kind)

IInv ==
  TypeOK /\ HoldsLock /\ Decided /\ Prepared /\ Done /\ ApprovedIsFit

-----------------------------------------------------------------------------
(* Facts about the values the module is built from.                         *)

\* Lessons are determined by their status and body; the absent one is none.
LEMMA Records ==
  /\ \A s \in Status, b \in Body :
       /\ RecordOf(s, b) \in Record
       /\ RecordOf(s, b).status = s
       /\ RecordOf(s, b).body = b
  /\ \A r \in Record :
       /\ r.status \in Status
       /\ r.body \in Body
       /\ r = RecordOf(r.status, r.body)
  /\ Absent.status = "absent"
  /\ Absent \notin Record
BY DEF RecordOf, Record, Status, Absent, Lifecycle!RecordOf, Lifecycle!Record,
       Lifecycle!Status, Lifecycle!Absent

\* The lessons that come with the program are well-formed and fit.
LEMMA Seeds ==
  ASSUME NEW r \in Lifecycle!Seed
  PROVE  r \in Record /\ r.body \notin Unfit
BY DEF Record, Lifecycle!Seed, Lifecycle!RecordOf, Lifecycle!Record, Lifecycle!Status

\* An operation names a lesson, and writes a body it carries or a status.
LEMMA Operations ==
  ASSUME NEW o \in Operation
  PROVE  /\ o.lesson \in Lesson
         /\ o.kind \in {"create", "overwrite", "approve", "reject", "deprecate"}
         /\ o.kind \in {"create", "overwrite"} => o.body \in Body
         /\ Target(o.kind) \in Status
BY DEF Operation, Target, Status, Lifecycle!Status

\* What an operation writes is a well-formed lesson in its target status.
LEMMA WrittenIsRecord ==
  ASSUME TypeOK, HoldsLock, Decided,
         NEW p \in Proc, pc[p] \in {"ready", "writing", "synced"}
  PROVE  /\ Written(p) \in Record
         /\ Written(p).status = Target(op[p].kind)
<1>1. op[p] \in Operation
  BY DEF HoldsLock
<1>2. op[p].kind \notin {"create", "overwrite"} => seen[p] \in Record
  <2>1. seen[p] \in Record \cup {Absent}
    BY DEF TypeOK
  <2>2. op[p].kind \notin {"create", "overwrite"} => seen[p].status # "absent"
    BY DEF Decided, Permitted
  <2> QED
    BY <2>1, <2>2, Records
<1>3. CASE op[p].kind \in {"create", "overwrite"}
  BY <1>1, <1>3, Operations, Records DEF Written, Target, Status, Lifecycle!Status
<1>4. CASE op[p].kind \notin {"create", "overwrite"}
  BY <1>1, <1>2, <1>4, Operations, Records DEF Written
<1> QED
  BY <1>3, <1>4

-----------------------------------------------------------------------------

\* The invariant holds of a directory that was just initialised.
LEMMA InitIInv == Init => IInv
<1> SUFFICES ASSUME Init PROVE IInv
  OBVIOUS
<1>1. TypeOK
  <2>1. file \in [Lesson -> Record \cup {Absent}]
    BY Seeds DEF Init
  <2> QED
    BY <2>1 DEF Init, TypeOK, Pc, Result
<1>2. HoldsLock /\ Decided /\ Prepared /\ Done
  BY DEF Init, HoldsLock, Decided, Prepared, Done
<1>3. ApprovedIsFit
  BY Records, Seeds DEF Init, ApprovedIsFit
<1> QED
  BY <1>1, <1>2, <1>3 DEF IInv

-----------------------------------------------------------------------------
(* Every step keeps the type of the variables.                              *)

LEMMA TypeStep == IInv /\ [Next]_vars => TypeOK'
<1> SUFFICES ASSUME TypeOK, HoldsLock, Decided, Prepared, [Next]_vars
             PROVE  TypeOK'
  BY DEF IInv
<1> USE DEF TypeOK, Pc, Result
<1>1. ASSUME NEW p \in Proc, NEW o \in Operation, OpenLock(p, o) PROVE TypeOK'
  BY <1>1, Operations DEF OpenLock
<1>2. ASSUME NEW p \in Proc, RecordPid(p) PROVE TypeOK'
  BY <1>2, Operations DEF RecordPid, HoldsLock
<1>3. ASSUME NEW p \in Proc, Load(p) PROVE TypeOK'
  BY <1>3, Operations DEF Load, Finish, HoldsLock
<1>4. ASSUME NEW p \in Proc, Vet(p) PROVE TypeOK'
  BY <1>4, Operations DEF Vet, Finish, HoldsLock
<1>5. ASSUME NEW p \in Proc, OpenTemp(p) PROVE TypeOK'
  BY <1>5, Operations DEF OpenTemp, HoldsLock
<1>6. ASSUME NEW p \in Proc, FillTemp(p) PROVE TypeOK'
  BY <1>6, WrittenIsRecord DEF FillTemp
<1>7. ASSUME NEW p \in Proc, Link(p) PROVE TypeOK'
  BY <1>7, Operations, WrittenIsRecord DEF Link, Finish, HoldsLock, Prepared
<1>8. ASSUME NEW p \in Proc, UnlinkTemp(p) PROVE TypeOK'
  BY <1>8, Operations DEF UnlinkTemp, HoldsLock
<1>9. ASSUME NEW p \in Proc, Rename(p) PROVE TypeOK'
  BY <1>9, Operations, WrittenIsRecord DEF Rename, HoldsLock, Prepared
<1>10. ASSUME NEW p \in Proc, SyncDirectory(p) PROVE TypeOK'
  BY <1>10, Operations DEF SyncDirectory, Finish, HoldsLock
<1>11. ASSUME NEW p \in Proc, CheckLock(p) \/ Unlock(p) PROVE TypeOK'
  BY <1>11, Operations DEF CheckLock, Unlock, Return, HoldsLock
<1>12. ASSUME NEW p \in Proc, Fail(p) PROVE TypeOK'
  BY <1>12, Operations DEF Fail, Finish, HoldsLock
<1>13. ASSUME NEW p \in Proc, Crash(p) PROVE TypeOK'
  BY <1>13, Operations DEF Crash, Return, HoldsLock
<1>14. ASSUME NEW l \in Lesson, OperatorUnlock(l) PROVE TypeOK'
  BY <1>14, Records DEF OperatorUnlock
<1>15. ASSUME NEW l \in Lesson, NEW b \in Body, EditCandidate(l, b) PROVE TypeOK'
  BY <1>15, Records DEF EditCandidate, Status, Lifecycle!Status
<1>16. ASSUME NEW l \in Lesson, NEW accepted \in SUBSET Block, EditFixtures(l, accepted) PROVE TypeOK'
  BY <1>16, Records DEF EditFixtures
<1>17. ASSUME UNCHANGED vars PROVE TypeOK'
  BY <1>17 DEF vars
<1> QED
  BY <1>1, <1>2, <1>3, <1>4, <1>5, <1>6, <1>7, <1>8, <1>9, <1>10, <1>11, <1>12, <1>13, <1>14, <1>15, <1>16, <1>17 DEF Next, Begin, Step, Environment

-----------------------------------------------------------------------------
(* Only a careless operator takes a lock away from its process.             *)

LEMMA LockStep ==
  Careful /\ TypeOK /\ HoldsLock /\ [Next]_vars => HoldsLock'
<1> SUFFICES ASSUME Careful, TypeOK, HoldsLock, [Next]_vars
             PROVE  HoldsLock'
  OBVIOUS
<1> USE DEF TypeOK, HoldsLock, Held
<1>1. ASSUME NEW p \in Proc, NEW o \in Operation, OpenLock(p, o) PROVE HoldsLock'
  BY <1>1, Operations, FreeAssumption DEF OpenLock
<1>2. ASSUME NEW p \in Proc, RecordPid(p) PROVE HoldsLock'
  BY <1>2, Operations, FreeAssumption DEF RecordPid
<1>3. ASSUME NEW p \in Proc, Load(p) PROVE HoldsLock'
  BY <1>3, Operations, FreeAssumption DEF Load, Finish
<1>4. ASSUME NEW p \in Proc, Vet(p) PROVE HoldsLock'
  BY <1>4, Operations, FreeAssumption DEF Vet, Finish
<1>5. ASSUME NEW p \in Proc, OpenTemp(p) PROVE HoldsLock'
  BY <1>5, Operations, FreeAssumption DEF OpenTemp
<1>6. ASSUME NEW p \in Proc, FillTemp(p) PROVE HoldsLock'
  BY <1>6, Operations, FreeAssumption DEF FillTemp
<1>7. ASSUME NEW p \in Proc, Link(p) PROVE HoldsLock'
  BY <1>7, Operations, FreeAssumption DEF Link, Finish
<1>8. ASSUME NEW p \in Proc, UnlinkTemp(p) PROVE HoldsLock'
  BY <1>8, Operations, FreeAssumption DEF UnlinkTemp
<1>9. ASSUME NEW p \in Proc, Rename(p) PROVE HoldsLock'
  BY <1>9, Operations, FreeAssumption DEF Rename
<1>10. ASSUME NEW p \in Proc, SyncDirectory(p) PROVE HoldsLock'
  BY <1>10, Operations, FreeAssumption DEF SyncDirectory, Finish
<1>11. ASSUME NEW p \in Proc, CheckLock(p) \/ Unlock(p) PROVE HoldsLock'
  BY <1>11, Operations, FreeAssumption DEF CheckLock, Unlock, Return
<1>12. ASSUME NEW p \in Proc, Fail(p) PROVE HoldsLock'
  BY <1>12, Operations, FreeAssumption DEF Fail, Finish
<1>13. ASSUME NEW p \in Proc, Crash(p) PROVE HoldsLock'
  BY <1>13, Operations, FreeAssumption DEF Crash, Return
<1>14. ASSUME NEW l \in Lesson, OperatorUnlock(l) PROVE HoldsLock'
  BY <1>14, Operations, FreeAssumption DEF OperatorUnlock
<1>15. ASSUME NEW l \in Lesson, NEW b \in Body, EditCandidate(l, b) PROVE HoldsLock'
  BY <1>15, Operations, FreeAssumption DEF EditCandidate
<1>16. ASSUME NEW l \in Lesson, NEW accepted \in SUBSET Block, EditFixtures(l, accepted) PROVE HoldsLock'
  BY <1>16, Operations, FreeAssumption DEF EditFixtures
<1>17. ASSUME UNCHANGED vars PROVE HoldsLock'
  BY <1>17 DEF vars
<1> QED
  BY <1>1, <1>2, <1>3, <1>4, <1>5, <1>6, <1>7, <1>8, <1>9, <1>10, <1>11, <1>12, <1>13, <1>14, <1>15, <1>16, <1>17 DEF Next, Begin, Step, Environment

-----------------------------------------------------------------------------
(* Only the author of a candidate changes a lesson behind a process.        *)

LEMMA DecisionStep ==
  IInv /\ [Next]_vars => Decided'
<1> SUFFICES ASSUME IInv, [Next]_vars
             PROVE  Decided'
  OBVIOUS
<1> USE DEF IInv, TypeOK, HoldsLock, Decided
<1>1. ASSUME NEW p \in Proc, NEW o \in Operation, OpenLock(p, o) PROVE Decided'
  BY <1>1, Operations, Records DEF OpenLock
<1>2. ASSUME NEW p \in Proc, RecordPid(p) PROVE Decided'
  BY <1>2, Operations, Records DEF RecordPid
<1>3. ASSUME NEW p \in Proc, Load(p) PROVE Decided'
  BY <1>3, Operations, Records DEF Load, Finish
<1>4. ASSUME NEW p \in Proc, Vet(p) PROVE Decided'
  BY <1>4, Operations, Records DEF Vet, Finish
<1>5. ASSUME NEW p \in Proc, OpenTemp(p) PROVE Decided'
  BY <1>5, Operations, Records DEF OpenTemp
<1>6. ASSUME NEW p \in Proc, FillTemp(p) PROVE Decided'
  BY <1>6, Operations, Records DEF FillTemp
<1>7. ASSUME NEW p \in Proc, Link(p) PROVE Decided'
  BY <1>7, Operations, Records DEF Link, Finish
<1>8. ASSUME NEW p \in Proc, UnlinkTemp(p) PROVE Decided'
  BY <1>8, Operations, Records DEF UnlinkTemp
<1>9. ASSUME NEW p \in Proc, Rename(p) PROVE Decided'
  BY <1>9, Operations, Records DEF Rename
<1>10. ASSUME NEW p \in Proc, SyncDirectory(p) PROVE Decided'
  BY <1>10, Operations, Records DEF SyncDirectory, Finish
<1>11. ASSUME NEW p \in Proc, CheckLock(p) \/ Unlock(p) PROVE Decided'
  BY <1>11, Operations, Records DEF CheckLock, Unlock, Return
<1>12. ASSUME NEW p \in Proc, Fail(p) PROVE Decided'
  BY <1>12, Operations, Records DEF Fail, Finish
<1>13. ASSUME NEW p \in Proc, Crash(p) PROVE Decided'
  BY <1>13, Operations, Records DEF Crash, Return
<1>14. ASSUME NEW l \in Lesson, OperatorUnlock(l) PROVE Decided'
  BY <1>14, Operations, Records DEF OperatorUnlock
<1>15. ASSUME NEW l \in Lesson, NEW b \in Body, EditCandidate(l, b) PROVE Decided'
  BY <1>15, Operations, Records DEF EditCandidate
<1>16. ASSUME NEW l \in Lesson, NEW accepted \in SUBSET Block, EditFixtures(l, accepted) PROVE Decided'
  BY <1>16, Operations, Records DEF EditFixtures
<1>17. ASSUME UNCHANGED vars PROVE Decided'
  BY <1>17 DEF vars
<1> QED
  BY <1>1, <1>2, <1>3, <1>4, <1>5, <1>6, <1>7, <1>8, <1>9, <1>10, <1>11, <1>12, <1>13, <1>14, <1>15, <1>16, <1>17 DEF Next, Begin, Step, Environment

-----------------------------------------------------------------------------
(* Nothing but the process itself touches what it is about to write.        *)

LEMMA PreparedStep ==
  IInv /\ [Next]_vars => Prepared'
<1> SUFFICES ASSUME IInv, [Next]_vars
             PROVE  Prepared'
  OBVIOUS
<1> USE DEF IInv, TypeOK, HoldsLock, Prepared, Written
<1>1. ASSUME NEW p \in Proc, NEW o \in Operation, OpenLock(p, o) PROVE Prepared'
  BY <1>1, Operations DEF OpenLock
<1>2. ASSUME NEW p \in Proc, RecordPid(p) PROVE Prepared'
  BY <1>2, Operations DEF RecordPid
<1>3. ASSUME NEW p \in Proc, Load(p) PROVE Prepared'
  BY <1>3, Operations DEF Load, Finish
<1>4. ASSUME NEW p \in Proc, Vet(p) PROVE Prepared'
  BY <1>4, Operations DEF Vet, Vetted, Finish
<1>5. ASSUME NEW p \in Proc, OpenTemp(p) PROVE Prepared'
  BY <1>5, Operations DEF OpenTemp
<1>6. ASSUME NEW p \in Proc, FillTemp(p) PROVE Prepared'
  BY <1>6, Operations DEF FillTemp
<1>7. ASSUME NEW p \in Proc, Link(p) PROVE Prepared'
  BY <1>7, Operations DEF Link, Finish
<1>8. ASSUME NEW p \in Proc, UnlinkTemp(p) PROVE Prepared'
  BY <1>8, Operations DEF UnlinkTemp
<1>9. ASSUME NEW p \in Proc, Rename(p) PROVE Prepared'
  BY <1>9, Operations DEF Rename
<1>10. ASSUME NEW p \in Proc, SyncDirectory(p) PROVE Prepared'
  BY <1>10, Operations DEF SyncDirectory, Finish
<1>11. ASSUME NEW p \in Proc, CheckLock(p) \/ Unlock(p) PROVE Prepared'
  BY <1>11, Operations DEF CheckLock, Unlock, Return
<1>12. ASSUME NEW p \in Proc, Fail(p) PROVE Prepared'
  BY <1>12, Operations DEF Fail, Finish
<1>13. ASSUME NEW p \in Proc, Crash(p) PROVE Prepared'
  BY <1>13, Operations DEF Crash, Return
<1>14. ASSUME NEW l \in Lesson, OperatorUnlock(l) PROVE Prepared'
  BY <1>14, Operations DEF OperatorUnlock
<1>15. ASSUME NEW l \in Lesson, NEW b \in Body, EditCandidate(l, b) PROVE Prepared'
  BY <1>15, Operations DEF EditCandidate
<1>16. ASSUME NEW l \in Lesson, NEW accepted \in SUBSET Block, EditFixtures(l, accepted) PROVE Prepared'
  BY <1>16, Operations DEF EditFixtures
<1>17. ASSUME UNCHANGED vars PROVE Prepared'
  BY <1>17 DEF vars
<1> QED
  BY <1>1, <1>2, <1>3, <1>4, <1>5, <1>6, <1>7, <1>8, <1>9, <1>10, <1>11, <1>12, <1>13, <1>14, <1>15, <1>16, <1>17 DEF Next, Begin, Step, Environment

-----------------------------------------------------------------------------
(* What a process has put in place stays there while it has the lock.       *)

LEMMA DoneStep ==
  IInv /\ [Next]_vars => Done'
<1> SUFFICES ASSUME IInv, [Next]_vars
             PROVE  Done'
  OBVIOUS
<1> USE DEF IInv, TypeOK, HoldsLock, Done
<1>1. ASSUME NEW p \in Proc, NEW o \in Operation, OpenLock(p, o) PROVE Done'
  BY <1>1, Operations, Records DEF OpenLock
<1>2. ASSUME NEW p \in Proc, RecordPid(p) PROVE Done'
  BY <1>2, Operations, Records DEF RecordPid
<1>3. ASSUME NEW p \in Proc, Load(p) PROVE Done'
  BY <1>3, Operations, Records DEF Load, Finish, Idempotent
<1>4. ASSUME NEW p \in Proc, Vet(p) PROVE Done'
  BY <1>4, Operations, Records DEF Vet, Finish
<1>5. ASSUME NEW p \in Proc, OpenTemp(p) PROVE Done'
  BY <1>5, Operations, Records DEF OpenTemp
<1>6. ASSUME NEW p \in Proc, FillTemp(p) PROVE Done'
  BY <1>6, Operations, Records DEF FillTemp
<1>7. ASSUME NEW p \in Proc, Link(p) PROVE Done'
  BY <1>7, Operations, Records, WrittenIsRecord DEF Link, Finish, Prepared
<1>8. ASSUME NEW p \in Proc, UnlinkTemp(p) PROVE Done'
  BY <1>8, Operations, Records DEF UnlinkTemp
<1>9. ASSUME NEW p \in Proc, Rename(p) PROVE Done'
  BY <1>9, Operations, Records, WrittenIsRecord DEF Rename, Prepared
<1>10. ASSUME NEW p \in Proc, SyncDirectory(p) PROVE Done'
  BY <1>10, Operations, Records DEF SyncDirectory, Finish
<1>11. ASSUME NEW p \in Proc, CheckLock(p) \/ Unlock(p) PROVE Done'
  BY <1>11, Operations, Records DEF CheckLock, Unlock, Return
<1>12. ASSUME NEW p \in Proc, Fail(p) PROVE Done'
  BY <1>12, Operations, Records DEF Fail, Finish
<1>13. ASSUME NEW p \in Proc, Crash(p) PROVE Done'
  BY <1>13, Operations, Records DEF Crash, Return
<1>14. ASSUME NEW l \in Lesson, OperatorUnlock(l) PROVE Done'
  BY <1>14, Operations, Records DEF OperatorUnlock
<1>15. ASSUME NEW l \in Lesson, NEW b \in Body, EditCandidate(l, b) PROVE Done'
  BY <1>15, Operations, Records DEF EditCandidate
<1>16. ASSUME NEW l \in Lesson, NEW accepted \in SUBSET Block, EditFixtures(l, accepted) PROVE Done'
  BY <1>16, Operations, Records DEF EditFixtures
<1>17. ASSUME UNCHANGED vars PROVE Done'
  BY <1>17 DEF vars
<1> QED
  BY <1>1, <1>2, <1>3, <1>4, <1>5, <1>6, <1>7, <1>8, <1>9, <1>10, <1>11, <1>12, <1>13, <1>14, <1>15, <1>16, <1>17 DEF Next, Begin, Step, Environment

-----------------------------------------------------------------------------
(* Only a vetted body becomes approved.                                     *)

LEMMA FitStep ==
  IInv /\ [Next]_vars => ApprovedIsFit'
<1> SUFFICES ASSUME IInv, [Next]_vars
             PROVE  ApprovedIsFit'
  OBVIOUS
<1> USE DEF IInv, TypeOK, HoldsLock, ApprovedIsFit
<1>1. ASSUME NEW p \in Proc, NEW o \in Operation, OpenLock(p, o) PROVE ApprovedIsFit'
  BY <1>1, Operations, Records DEF OpenLock
<1>2. ASSUME NEW p \in Proc, RecordPid(p) PROVE ApprovedIsFit'
  BY <1>2, Operations, Records DEF RecordPid
<1>3. ASSUME NEW p \in Proc, Load(p) PROVE ApprovedIsFit'
  BY <1>3, Operations, Records DEF Load, Finish
<1>4. ASSUME NEW p \in Proc, Vet(p) PROVE ApprovedIsFit'
  BY <1>4, Operations, Records DEF Vet, Finish
<1>5. ASSUME NEW p \in Proc, OpenTemp(p) PROVE ApprovedIsFit'
  BY <1>5, Operations, Records DEF OpenTemp
<1>6. ASSUME NEW p \in Proc, FillTemp(p) PROVE ApprovedIsFit'
  BY <1>6, Operations, Records DEF FillTemp
<1>7. ASSUME NEW p \in Proc, Link(p) PROVE ApprovedIsFit'
  BY <1>7, Operations, Records, WrittenIsRecord DEF Link, Finish, Prepared, Written, Target
<1>8. ASSUME NEW p \in Proc, UnlinkTemp(p) PROVE ApprovedIsFit'
  BY <1>8, Operations, Records DEF UnlinkTemp
<1>9. ASSUME NEW p \in Proc, Rename(p) PROVE ApprovedIsFit'
  <2> DEFINE o == op[p]
  <2>1. o \in Operation /\ Permitted(o, seen[p]) /\ tmp[p] = Written(p)
    BY <1>9 DEF Rename, Decided, Prepared
  <2>2. CASE o.kind \in {"create", "overwrite", "reject"}
    BY <1>9, <2>1, <2>2, Operations, WrittenIsRecord DEF Rename, Target
  <2>3. CASE o.kind = "approve"
    <3>1. seen[p].body \notin Unfit
      BY <1>9, <2>3 DEF Rename, Prepared
    <3>2. Written(p).body = seen[p].body
      BY <2>3 DEF Written, RecordOf, Lifecycle!RecordOf
    <3> QED
      BY <1>9, <2>1, <3>1, <3>2, Operations DEF Rename
  <2>4. CASE o.kind = "deprecate"
    <3>1. file[o.lesson] = seen[p] /\ seen[p].status = "approved"
      BY <1>9, <2>1, <2>4 DEF Rename, Decided, Permitted
    <3>2. seen[p].body \notin Unfit
      BY <2>1, <3>1, Operations
    <3>3. Written(p).body = seen[p].body
      BY <2>4 DEF Written, RecordOf, Lifecycle!RecordOf
    <3> QED
      BY <1>9, <2>1, <3>2, <3>3, Operations DEF Rename
  <2> QED
    BY <2>1, <2>2, <2>3, <2>4, Operations
<1>10. ASSUME NEW p \in Proc, SyncDirectory(p) PROVE ApprovedIsFit'
  BY <1>10, Operations, Records DEF SyncDirectory, Finish
<1>11. ASSUME NEW p \in Proc, CheckLock(p) \/ Unlock(p) PROVE ApprovedIsFit'
  BY <1>11, Operations, Records DEF CheckLock, Unlock, Return
<1>12. ASSUME NEW p \in Proc, Fail(p) PROVE ApprovedIsFit'
  BY <1>12, Operations, Records DEF Fail, Finish
<1>13. ASSUME NEW p \in Proc, Crash(p) PROVE ApprovedIsFit'
  BY <1>13, Operations, Records DEF Crash, Return
<1>14. ASSUME NEW l \in Lesson, OperatorUnlock(l) PROVE ApprovedIsFit'
  BY <1>14, Operations, Records DEF OperatorUnlock
<1>15. ASSUME NEW l \in Lesson, NEW b \in Body, EditCandidate(l, b) PROVE ApprovedIsFit'
  BY <1>15, Operations, Records DEF EditCandidate
<1>16. ASSUME NEW l \in Lesson, NEW accepted \in SUBSET Block, EditFixtures(l, accepted) PROVE ApprovedIsFit'
  BY <1>16, Operations, Records DEF EditFixtures
<1>17. ASSUME UNCHANGED vars PROVE ApprovedIsFit'
  BY <1>17 DEF vars
<1> QED
  BY <1>1, <1>2, <1>3, <1>4, <1>5, <1>6, <1>7, <1>8, <1>9, <1>10, <1>11, <1>12, <1>13, <1>14, <1>15, <1>16, <1>17 DEF Next, Begin, Step, Environment

-----------------------------------------------------------------------------
(* The theorems.                                                            *)

LEMMA Invariance == ASSUME Careful PROVE Spec => []IInv
<1>1. Init => IInv
  BY InitIInv
<1>2. IInv /\ [Next]_vars => IInv'
  BY TypeStep, LockStep, DecisionStep, PreparedStep, DoneStep, FitStep DEF IInv
<1> QED
  BY <1>1, <1>2, PTL DEF Spec

\* The variables keep their types and a lesson file is always complete: lesson
\* files are written by writeFileAtomically and by nothing else.
THEOREM TypeCorrect == ASSUME Careful PROVE Spec => [](TypeOK /\ NoTornLesson)
<1>1. IInv => TypeOK /\ NoTornLesson
  BY Records DEF IInv, TypeOK, NoTornLesson, Record, Absent, Torn, NoBody, RecordOf,
     Status, Lifecycle!Record, Lifecycle!Absent, Lifecycle!RecordOf, Lifecycle!Status
<1> QED
  BY <1>1, Invariance, PTL

\* withLessonWriteLock excludes: no two processes work on one lesson.
THEOREM LockExcludes == ASSUME Careful PROVE Spec => []MutualExclusion
<1>1. IInv => MutualExclusion
  BY DEF IInv, HoldsLock, MutualExclusion
<1> QED
  BY <1>1, Invariance, PTL

\* The status an operation checked is the status its write replaces.
THEOREM DecisionsHold == ASSUME Careful PROVE Spec => []DecisionStillHolds
<1>1. IInv => DecisionStillHolds
  BY DEF IInv, Decided, DecisionStillHolds
<1> QED
  BY <1>1, Invariance, PTL

\* withLessonWriteLock does what it is for: one process at a time works on a
\* lesson, and writes on top of the status it decided on.
THEOREM LockProtectsDecisions == ASSUME Careful PROVE Spec => []OneWriterDecides
<1> QED
  BY LockExcludes, DecisionsHold, PTL DEF OneWriterDecides

\* approveLesson only ever activates a body that passed its checks.
THEOREM OnlyFitApproved == ASSUME Careful PROVE Spec => []ApprovedIsFit
<1>1. IInv => ApprovedIsFit
  BY DEF IInv
<1> QED
  BY <1>1, Invariance, PTL

\* Whatever is under a lesson's name is whole, and fit if it is or was active.
THEOREM LessonsStaySound == ASSUME Careful PROVE Spec => []LessonsSound
<1> QED
  BY TypeCorrect, OnlyFitApproved, PTL DEF LessonsSound

\* An operation reports success only if the lesson is where it was to bring it.
THEOREM SuccessIsReal == ASSUME Careful PROVE Spec => []OkMeansDone
<1>1. IInv => OkMeansDone
  BY DEF IInv, Done, OkMeansDone
<1> QED
  BY <1>1, Invariance, PTL

-----------------------------------------------------------------------------
(* The store implements the life cycle of its lessons.                      *)

LEMMA LinkMaps ==
  ASSUME IInv, NEW p \in Proc, Link(p)
  PROVE  Lifecycle!Next \/ UNCHANGED file
<1> DEFINE l == op[p].lesson
<1>1. op[p] \in Operation /\ op[p].kind = "create" /\ tmp[p] = RecordOf("candidate", op[p].body)
  BY DEF Link, IInv, HoldsLock, Prepared, Written
<1>2. CASE file[l] = Absent
  <2>1. l \in Lesson /\ op[p].body \in Body
    BY <1>1, Operations
  <2>2. Lifecycle!Propose(l, op[p].body)
    BY <1>1, <1>2, Records DEF Link, RecordOf, Lifecycle!Propose, Lifecycle!Move
  <2> QED
    BY <2>1, <2>2 DEF Lifecycle!Next
<1>3. CASE file[l] # Absent
  BY <1>3 DEF Link
<1> QED
  BY <1>2, <1>3

LEMMA RenameMaps ==
  ASSUME IInv, NEW p \in Proc, Rename(p)
  PROVE  Lifecycle!Next
<1> DEFINE l == op[p].lesson
           k == op[p].kind
<1>1. /\ op[p] \in Operation
      /\ l \in Lesson
      /\ k \in {"overwrite", "approve", "reject", "deprecate"}
  BY Operations DEF Rename, IInv, HoldsLock
<1>2. /\ file' = [file EXCEPT ![l] = Written(p)]
      /\ file[l].status = seen[p].status
      /\ Permitted(op[p], seen[p])
  BY DEF Rename, IInv, Prepared, Decided
<1>3. seen[p].status # "absent" => seen[p].body \in Body
  BY Records DEF IInv, TypeOK
<1>4. CASE k = "overwrite"
  <2>1. op[p].body \in Body /\ Written(p) = RecordOf("candidate", op[p].body)
    BY <1>1, <1>4, Operations DEF Written
  <2>2. Lifecycle!Propose(l, op[p].body) \/ Lifecycle!Edit(l, op[p].body)
    BY <1>2, <1>4, <2>1 DEF Permitted, RecordOf, Lifecycle!Propose, Lifecycle!Edit, Lifecycle!Move
  <2> QED
    BY <1>1, <2>1, <2>2 DEF Lifecycle!Next
<1>5. CASE k = "approve"
  <2>1. seen[p].body \notin Unfit /\ seen[p].status = "candidate"
    BY <1>2, <1>5 DEF Rename, IInv, Prepared, Permitted
  <2>2. Lifecycle!Approve(l, seen[p].body)
    BY <1>2, <1>5, <2>1 DEF Written, Target, RecordOf, Lifecycle!Approve, Lifecycle!Move
  <2> QED
    BY <1>1, <1>3, <2>1, <2>2 DEF Lifecycle!Next
<1>6. CASE k = "reject"
  <2>1. seen[p].status = "candidate"
    BY <1>2, <1>6 DEF Permitted
  <2>2. Lifecycle!Reject(l, seen[p].body)
    BY <1>2, <1>6, <2>1 DEF Written, Target, RecordOf, Lifecycle!Reject, Lifecycle!Move
  <2> QED
    BY <1>1, <1>3, <2>1, <2>2 DEF Lifecycle!Next
<1>7. CASE k = "deprecate"
  <2>1. seen[p].status = "approved" /\ file[l] = seen[p]
    BY <1>2, <1>7 DEF Permitted, Rename, IInv, Decided
  <2>2. Lifecycle!Deprecate(l)
    BY <1>2, <1>7, <2>1 DEF Written, Target, RecordOf, Lifecycle!Deprecate, Lifecycle!Move
  <2> QED
    BY <1>1, <2>2 DEF Lifecycle!Next
<1> QED
  BY <1>1, <1>4, <1>5, <1>6, <1>7

LEMMA StepMaps == IInv /\ [Next]_vars => [Lifecycle!Next]_file
<1> SUFFICES ASSUME IInv, [Next]_vars
             PROVE  Lifecycle!Next \/ UNCHANGED file
  OBVIOUS
<1>1. ASSUME NEW p \in Proc, Begin(p) PROVE UNCHANGED file
  BY <1>1 DEF Begin, OpenLock
<1>2. ASSUME NEW p \in Proc, Step(p) PROVE Lifecycle!Next \/ UNCHANGED file
  <2>1. CASE Link(p)
    BY <2>1, LinkMaps
  <2>2. CASE Rename(p)
    BY <2>2, RenameMaps
  <2>3. CASE RecordPid(p) \/ Load(p) \/ Vet(p) \/ OpenTemp(p) \/ FillTemp(p)
    BY <2>3 DEF RecordPid, Load, Vet, OpenTemp, FillTemp
  <2>4. CASE UnlinkTemp(p) \/ SyncDirectory(p) \/ CheckLock(p) \/ Unlock(p)
    BY <2>4 DEF UnlinkTemp, SyncDirectory, CheckLock, Unlock
  <2> QED
    BY <1>2, <2>1, <2>2, <2>3, <2>4 DEF Step
<1>3. ASSUME NEW p \in Proc, Fail(p) \/ Crash(p) PROVE UNCHANGED file
  BY <1>3 DEF Fail, Crash
<1>4. ASSUME NEW l \in Lesson, Environment(l) PROVE Lifecycle!Next \/ UNCHANGED file
  <2>1. CASE OperatorUnlock(l)
    BY <2>1 DEF OperatorUnlock
  <2>2. ASSUME NEW b \in Body, EditCandidate(l, b) PROVE Lifecycle!Next
    <3>1. Lifecycle!Edit(l, b)
      BY <2>2 DEF EditCandidate, RecordOf, Lifecycle!Edit, Lifecycle!Move
    <3> QED
      BY <3>1 DEF Lifecycle!Next
  <2>3. ASSUME NEW accepted \in SUBSET Block, EditFixtures(l, accepted) PROVE UNCHANGED file
    BY <2>3 DEF EditFixtures
  <2> QED
    BY <1>4, <2>1, <2>2, <2>3 DEF Environment
<1>5. UNCHANGED vars => UNCHANGED file
  BY DEF vars
<1> QED
  BY <1>1, <1>2, <1>3, <1>4, <1>5 DEF Next

\* Seen through its lesson files, the store with its locks, temporary files,
\* crashes and editors is the one-step life cycle of LessonLifecycle.
THEOREM StoreImplementsLifecycle == ASSUME Careful PROVE Spec => ImplementsLifecycle
<1>1. Init => Lifecycle!Init
  BY DEF Init, Lifecycle!Init, Absent
<1>2. IInv /\ [Next]_vars => [Lifecycle!Next]_file
  BY StepMaps
<1> QED
  BY <1>1, <1>2, Invariance, PTL DEF Spec, ImplementsLifecycle, Lifecycle!Spec

-----------------------------------------------------------------------------
(* A process leaves the locks of the others alone.                          *)

\* Whoever removed what before, a lesson is free or locked by some process.
LocksNamed == lock \in [Lesson -> Proc \cup {Free}] /\ pc \in [Proc -> Pc]

LEMMA LocksNamedStep == LocksNamed /\ [Next]_vars => LocksNamed'
<1> SUFFICES ASSUME LocksNamed, [Next]_vars PROVE LocksNamed'
  OBVIOUS
<1> USE DEF LocksNamed, Pc
<1>1. ASSUME NEW p \in Proc, Begin(p) PROVE LocksNamed'
  <2>1. PICK o \in Operation : OpenLock(p, o)
    BY <1>1 DEF Begin
  <2> QED
    BY <2>1 DEF OpenLock
<1>2. ASSUME NEW p \in Proc, Step(p) PROVE LocksNamed'
  <2>1. CASE CheckLock(p) \/ Unlock(p)
    BY <2>1 DEF CheckLock, Unlock, Return
  <2>2. CASE Load(p)
    BY <2>2 DEF Load, Finish
  <2>3. CASE RecordPid(p) \/ Vet(p) \/ OpenTemp(p) \/ FillTemp(p)
    BY <2>3 DEF RecordPid, Vet, OpenTemp, FillTemp, Finish
  <2>4. CASE Link(p) \/ UnlinkTemp(p) \/ Rename(p) \/ SyncDirectory(p)
    BY <2>4 DEF Link, UnlinkTemp, Rename, SyncDirectory, Finish
  <2> QED
    BY <1>2, <2>1, <2>2, <2>3, <2>4 DEF Step
<1>3. ASSUME NEW p \in Proc, Fail(p) \/ Crash(p) PROVE LocksNamed'
  BY <1>3 DEF Fail, Crash, Finish, Return
<1>4. ASSUME NEW l \in Lesson, Environment(l) PROVE LocksNamed'
  BY <1>4 DEF Environment, OperatorUnlock, EditCandidate, EditFixtures
<1>5. CASE UNCHANGED vars
  BY <1>5 DEF vars
<1> QED
  BY <1>1, <1>2, <1>3, <1>4, <1>5 DEF Next

\* p has found the lock of l to be its own, and is about to unlink it.
Unlinks(l, p) == pc[p] = "unlinking" /\ op[p].lesson = l

\* A process that goes on with its work takes nobody else's lock away, unless the
\* lock has been replaced since it looked.
LEMMA OwnStepKeepsLock ==
  ASSUME LocksNamed, NEW l \in Lesson, NEW p \in Proc, lock[l] \in Proc \ {p},
         pc'[p] # pc[p], Begin(p) \/ Step(p) \/ Fail(p) \/ Crash(p)
  PROVE  /\ op[p].lesson = l => pc'[p] # "unlinking"
         /\ lock'[l] = lock[l] \/ Unlinks(l, p)
<1> USE DEF LocksNamed
<1>1. CASE Begin(p)
  BY <1>1, FreeAssumption DEF Begin, OpenLock
<1>2. CASE Step(p)
  <2>1. CASE Unlock(p)
    BY <2>1 DEF Unlock, Return, Unlinks
  <2>2. CASE CheckLock(p)
    BY <2>2 DEF CheckLock, Return
  <2>3. CASE RecordPid(p) \/ Load(p) \/ Vet(p) \/ OpenTemp(p) \/ FillTemp(p)
    BY <2>3 DEF RecordPid, Load, Vet, OpenTemp, FillTemp, Finish
  <2>4. CASE Link(p) \/ UnlinkTemp(p) \/ Rename(p) \/ SyncDirectory(p)
    BY <2>4 DEF Link, UnlinkTemp, Rename, SyncDirectory, Finish
  <2> QED
    BY <1>2, <2>1, <2>2, <2>3, <2>4 DEF Step
<1>3. CASE Fail(p) \/ Crash(p)
  BY <1>3 DEF Fail, Crash, Finish, Return
<1> QED
  BY <1>1, <1>2, <1>3

\* A step of one process is no step of another, nor is one of the surroundings.
LEMMA OneMoves ==
  ASSUME LocksNamed, Next, NEW p \in Proc, pc'[p] # pc[p]
  PROVE  Begin(p) \/ Step(p) \/ Fail(p) \/ Crash(p)
<1> USE DEF LocksNamed
<1>1. ASSUME NEW q \in Proc, q # p, Begin(q) PROVE FALSE
  BY <1>1 DEF Begin, OpenLock
<1>2. ASSUME NEW q \in Proc, q # p, Step(q) PROVE FALSE
  <2>1. CASE RecordPid(q) \/ Load(q) \/ Vet(q) \/ OpenTemp(q) \/ FillTemp(q)
    BY <1>2, <2>1 DEF RecordPid, Load, Vet, OpenTemp, FillTemp, Finish
  <2>2. CASE Link(q) \/ UnlinkTemp(q) \/ Rename(q) \/ SyncDirectory(q)
    BY <1>2, <2>2 DEF Link, UnlinkTemp, Rename, SyncDirectory, Finish
  <2>3. CASE CheckLock(q) \/ Unlock(q)
    BY <1>2, <2>3 DEF CheckLock, Unlock, Return
  <2> QED
    BY <1>2, <2>1, <2>2, <2>3 DEF Step
<1>3. ASSUME NEW q \in Proc, q # p, Fail(q) \/ Crash(q) PROVE FALSE
  BY <1>3 DEF Fail, Crash, Finish, Return
<1>4. ASSUME NEW l \in Lesson, Environment(l) PROVE FALSE
  BY <1>4 DEF Environment, OperatorUnlock, EditCandidate, EditFixtures
<1> QED
  BY <1>1, <1>2, <1>3, <1>4 DEF Next

\* Whatever the operator removed, the cleanup of withLessonWriteLock goes on to
\* unlink only if the lock is its own at that moment, and no process takes over the
\* lock of another one, not even of one that died. With a careful operator the file
\* that it unlinks is the one that it inspected.
THEOREM OthersLocksStay == Spec => OnlyOwnerUnlocks
<1> DEFINE Keeps == \A l \in Lesson, p \in Proc :
                      lock[l] \in Proc \ {p} /\ pc'[p] # pc[p] =>
                        /\ op[p].lesson = l => pc'[p] # "unlinking"
                        /\ \/ lock'[l] = lock[l]
                           \/ ~Careful /\ pc[p] = "unlinking" /\ op[p].lesson = l
<1>1. Init => LocksNamed
  BY DEF Init, LocksNamed, Pc
<1>2. LocksNamed /\ [Next]_vars => LocksNamed'
  BY LocksNamedStep
<1>3. ASSUME LocksNamed, Next, NEW l \in Lesson, NEW p \in Proc,
             lock[l] \in Proc \ {p}, pc'[p] # pc[p]
      PROVE  /\ op[p].lesson = l => pc'[p] # "unlinking"
             /\ lock'[l] = lock[l] \/ Unlinks(l, p)
  BY <1>3, OneMoves, OwnStepKeepsLock
<1>4. CASE Careful
  <2>1. IInv => \A l \in Lesson, p \in Proc : lock[l] \in Proc \ {p} => ~Unlinks(l, p)
    BY DEF IInv, HoldsLock, Unlinks
  <2>2. LocksNamed /\ IInv /\ [Next]_vars => [Keeps]_vars
    BY <1>3, <2>1
  <2> QED
    BY <1>1, <1>2, <1>4, <2>2, Invariance, PTL DEF Spec, OnlyOwnerUnlocks
<1>5. CASE ~Careful
  <2>1. LocksNamed /\ [Next]_vars => [Keeps]_vars
    BY <1>3, <1>5 DEF Unlinks
  <2> QED
    BY <1>1, <1>2, <2>1, PTL DEF Spec, OnlyOwnerUnlocks
<1> QED
  BY <1>4, <1>5

=============================================================================
