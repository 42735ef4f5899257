\* Two codes and two redemptions: expiry, revocation, a crash, a withdrawn package.
CONSTANTS
  b1 = b1
  b2 = b2
  v1 = v1
  v2 = v2
  Codes = {v1, v2}
  Batches = {b1, b2}
  BatchOf <- TwoBatches
  ResellerBatches = {b1}
  Requests = {r1, r2}
  Validity = 1
  MaxTime = 1
  MaxCrashes = 1
  MaxCloses = 1
  NoCode = NoCode
SPECIFICATION FairSpec
CHECK_DEADLOCK FALSE
INVARIANTS
  TypeOK
  OneGrantPerCode
  RevokedGrantsNothing
  BurntOnlyByFault
  CreditedBatchHasCodes
PROPERTY ClaimedIsGranted
