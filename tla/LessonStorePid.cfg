\* Two processes, one lesson, and what the README says of the locks of crashed processes.
CONSTANTS
  p1 = p1
  p2 = p2
  plain = plain
  l1 = l1
  l2 = l2
  blocking = blocking
  broken = broken
  Proc = {p1, p2}
  Lesson = {l1}
  Body = {plain, blocking, broken}
  Unfit = {broken}
  Block = {blocking}
  Free = Free
  Careful = TRUE
SPECIFICATION Spec
SYMMETRY ProcSymmetry
INVARIANTS
  StaleLockNamesItsProcess
