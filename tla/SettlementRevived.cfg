\* A webhook and a callback that both activate, around an expiry.
CONSTANTS
  Payments = {p1}
  Webhooks = {w1}
  Callbacks = {c1}
  ResellerSales = {}
  ValidityDays = 1
  MaxTime = 2
  MaxCrashes = 0
  MaxFailures = 0
  NoPayment = NoPayment
  NoTime = NoTime
SPECIFICATION Spec
CHECK_DEADLOCK FALSE
PROPERTY MovesFollowStateMachine
