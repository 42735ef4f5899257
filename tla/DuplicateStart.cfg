\* Two requests handle a repeated Start.
CONSTANTS
  a1 = a1
  a2 = a2
  s1 = s1
  u1 = u1
  u2 = u2
  Accts = {a1}
  Subscribers = {s1}
  SubscriberOf <- OneSession
  Subscriptions = {u1}
  OwnerOf <- OneSubscription
  Limit <- Allowance
  Rows = {w1, w2}
  Requests = {r1, r2}
  Times = {0}
  MaxMb = 1
  MaxLate = 0
  MaxCrashes = 0
  NoRow = NoRow
  NoAcct = NoAcct
  NoSubscription = NoSubscription
SPECIFICATION Spec
CHECK_DEADLOCK FALSE
INVARIANT OneRowPerSession
