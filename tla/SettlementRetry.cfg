\* Deliveries one at a time, two crashes: the next one finishes.
CONSTANTS
  Payments = {p1}
  Webhooks = {w1}
  Callbacks = {}
  ResellerSales = {p1}
  ValidityDays = 1
  MaxTime = 1
  MaxCrashes = 2
  MaxFailures = 0
  NoPayment = NoPayment
  NoTime = NoTime
SPECIFICATION FairSpec
CHECK_DEADLOCK FALSE
PROPERTIES
  SettledIsEntitled
  PaidIsEntitled
