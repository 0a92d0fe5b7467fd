---------------------------- MODULE MCLessonStore ----------------------------
(* Instances of LessonStore for TLC: two processes over one or two lessons,   *)
(* whose bodies are fit, unfit, or fit only as far as their fixtures agree.     *)
EXTENDS LessonStore, TLC

CONSTANTS p1, p2, plain, blocking, broken, l1, l2

ProcSymmetry == Permutations(Proc)
ProcLessonSymmetry == Permutations(Proc) \cup Permutations(Lesson)

=============================================================================
