\* One daily report, two overlapping worker cycles and a fault.
CONSTANTS
  s1 = s1
  s2 = s2
  LastMonth = 4
  FirstDay <- ShortMonths
  MonthOf <- ShortMonthOf
  MaxDay = 3
  Schedules = {s1}
  Frequency <- AllDaily
  Cycles = {c1, c2}
  TicksPerDay = 2
  Lease = 1
  MaxBatch = 1
  MaxFaults = 1
  MaxToggles = 0
  NoCycle = NoCycle
  NoSchedule = NoSchedule
SPECIFICATION FairSpec
PROPERTY DueIsReported
