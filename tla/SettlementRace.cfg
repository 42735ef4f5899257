\* One reseller sale, two webhook deliveries and one browser callback.
CONSTANTS
  Payments = {p1}
  Webhooks = {w1, w2}
  Callbacks = {c1}
  ResellerSales = {p1}
  ValidityDays = 1
  MaxTime = 2
  MaxCrashes = 1
  MaxFailures = 1
  NoPayment = NoPayment
  NoTime = NoTime
SPECIFICATION Spec
CHECK_DEADLOCK FALSE
SYMMETRY Symmetry
INVARIANTS
  TypeOK
  EntitledOnlyIfPaid
  PaidOutOnceAfterActivation
  StrandedOnlyByFault
  PaidPeriodIsKept
  NoOrphanSubscription
PROPERTY LedgerSpec
