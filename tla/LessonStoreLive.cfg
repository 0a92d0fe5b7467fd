\* Two processes under fairness, one lesson, and an operator who may remove the lock
\* of a live process.
CONSTANTS
  p1 = p1
  p2 = p2
  plain = plain
  l1 = l1
  l2 = l2
  blocking = blocking
  broken = broken
  Proc = {p1, p2}
  Lesson = {l1}
  Body = {blocking, broken}
  Unfit = {broken}
  Block = {blocking}
  Free = Free
  Careful = FALSE
SPECIFICATION FairSpec
PROPERTIES
  OnlyOwnerUnlocks
  LockIsFreed
