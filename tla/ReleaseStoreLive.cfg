\* The transactions alone, without the triggers, under fairness: one release after
\* another that was yanked, and two that are published, whose yanks can deadlock.
SPECIFICATION PastSpec
CONSTANTS
  t1 = t1
  t2 = t2
  u1 = u1
  u2 = u2
  u3 = u3
  Txn = {t1, t2}
  Version = {1, 2}
  User = {u1, u2, u3}
  NoUser = NoUser
  Triggers = FALSE
  MinReviewers = 3
CONSTRAINT PastSettled
INVARIANTS
  FourEyes
PROPERTIES
  EveryRequestEnds
