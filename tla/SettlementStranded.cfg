\* Two concurrent deliveries and one crash.
CONSTANTS
  Payments = {p1}
  Webhooks = {w1, w2}
  Callbacks = {}
  ResellerSales = {p1}
  ValidityDays = 1
  MaxTime = 0
  MaxCrashes = 1
  MaxFailures = 0
  NoPayment = NoPayment
  NoTime = NoTime
SPECIFICATION FairSpec
CHECK_DEADLOCK FALSE
PROPERTY SettledIsEntitled
