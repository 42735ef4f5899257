\* A redemption activates between the count and the archiving.
CONSTANTS
  b1 = b1
  b2 = b2
  v1 = v1
  v2 = v2
  Codes = {v1}
  Batches = {b1}
  BatchOf <- OneBatch
  ResellerBatches = {b1}
  Requests = {r1}
  Validity = 1
  MaxTime = 1
  MaxCrashes = 0
  MaxCloses = 1
  NoCode = NoCode
SPECIFICATION Spec
CHECK_DEADLOCK FALSE
PROPERTY ArchiveRefusesActive
