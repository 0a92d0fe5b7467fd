\* Members, tokens, billing events and usage events of one organization.
SPECIFICATION Spec
CONSTANTS
  t1 = t1
  t2 = t2
  u1 = u1
  u2 = u2
  Txn = {t1, t2}
  NoTxn = NoTxn
  User = {u1, u2}
  NoUser = NoUser
  NoEvent = NoEvent
  Key = {1, 2}
  Period = {1, 2}
  Event <- Events
  MaxSeats <- Seats
  MaxUsage <- Usage
SYMMETRY TxnUserSymmetry
INVARIANTS
  TypeOK
  OwnerKept
  TokensOfManagers
  PlanFollowsNewest
PROPERTIES
  LimitsKept
  UsageCountsOnce
