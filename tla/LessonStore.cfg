\* Two processes, two lessons, an operator who checks before removing a lock.
CONSTANTS
  p1 = p1
  p2 = p2
  plain = plain
  l1 = l1
  l2 = l2
  blocking = blocking
  broken = broken
  Proc = {p1, p2}
  Lesson = {l1, l2}
  Body = {blocking, broken}
  Unfit = {broken}
  Block = {blocking}
  Free = Free
  Careful = TRUE
SPECIFICATION Spec
SYMMETRY ProcLessonSymmetry
INVARIANTS
  TypeOK
  OneWriterDecides
  LessonsSound
  OkMeansDone
PROPERTIES
  ImplementsLifecycle
