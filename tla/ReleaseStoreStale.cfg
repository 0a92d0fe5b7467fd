\* The deferred trigger calls a projection stale that is not.
SPECIFICATION Spec
CONSTANTS
  t1 = t1
  t2 = t2
  u1 = u1
  u2 = u2
  u3 = u3
  Txn = {t1, t2}
  Version = {1, 2}
  User = {u1, u2, u3}
  NoUser = NoUser
  Triggers = TRUE
  MinReviewers = 3
SYMMETRY TxnUserSymmetry
INVARIANTS
  StaleIsReported
