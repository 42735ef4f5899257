\* Two devices of one subscriber across a renewal: overlapping packets, a late update,
\* an operator, a crash.
CONSTANTS
  a1 = a1
  a2 = a2
  s1 = s1
  u1 = u1
  u2 = u2
  Accts = {a1, a2}
  Subscribers = {s1}
  SubscriberOf <- TwoDevices
  Subscriptions = {u1, u2}
  OwnerOf <- Renewal
  Limit <- Allowance
  Rows = {w1, w2}
  Requests = {r1, r2}
  Times = {0}
  MaxMb = 1
  MaxLate = 1
  MaxCrashes = 1
  NoRow = NoRow
  NoAcct = NoAcct
  NoSubscription = NoSubscription
SPECIFICATION Spec
CHECK_DEADLOCK FALSE
CONSTRAINT OneIrregularity
SYMMETRY Interchangeable
INVARIANTS
  TypeOK
  SecondRowOnlyByOverlap
  ReopenedOnlyByOverlap
  RefilledOnlyByOverlap
  MiscountedOnlyByOverlap
