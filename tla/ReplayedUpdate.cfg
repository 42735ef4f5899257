\* An update is repeated after a later one.
CONSTANTS
  a1 = a1
  a2 = a2
  s1 = s1
  u1 = u1
  u2 = u2
  Accts = {a1}
  Subscribers = {s1}
  SubscriberOf <- OneSession
  Subscriptions = {u1}
  OwnerOf <- OneSubscription
  Limit <- Allowance
  Rows = {w1}
  Requests = {r1}
  Times = {0}
  MaxMb = 2
  MaxLate = 1
  MaxCrashes = 0
  NoRow = NoRow
  NoAcct = NoAcct
  NoSubscription = NoSubscription
SPECIFICATION Spec
CHECK_DEADLOCK FALSE
INVARIANT ChargedAtMostOnce
