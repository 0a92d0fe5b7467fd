\* Requests for members, releases and usage events at the HTTP registry.
SPECIFICATION MCSpec
CONSTANTS
  c1 = c1
  c2 = c2
  u1 = u1
  u2 = u2
  u3 = u3
  i1 = i1
  i2 = i2
  x = x
  y = y
  User = {u1, u2, u3}
  NoUser = NoUser
  Version = {1, 2}
  Content = {x, y}
  NoContent = NoContent
  Conn = {c1, c2}
  NoConn = NoConn
  Token = {i1, i2}
  Key = {1, 2}
  Data = {x, y}
  NoData = NoData
  Period = {1, 2}
  Event <- Events
  NoEvent = NoEvent
  Seats <- SeatsOf
  Quota <- QuotaOf
  Private = {"team"}
  Traffic <- Traffics
SYMMETRY ConnSymmetry
INVARIANTS
  TypeOK
  SeatsKept
  ServedIsApproved
  ReleaseBacked
  UsageIsPaid
PROPERTIES
  RoleStillHeld
