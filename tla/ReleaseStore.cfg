\* The transactions with the triggers of the database, while reviewers come and go.
SPECIFICATION Spec
CONSTANTS
  t1 = t1
  t2 = t2
  u1 = u1
  u2 = u2
  u3 = u3
  Txn = {t1, t2}
  Version = {1, 2}
  User = {u1, u2, u3}
  NoUser = NoUser
  Triggers = TRUE
  MinReviewers = 1
SYMMETRY TxnUserSymmetry
CONSTRAINT RolesSettled
INVARIANTS
  TypeOK
  AuditAgrees
  
PROPERTIES
  TriggersAgree
  ImplementsGovernance
