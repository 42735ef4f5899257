\* A daily and a monthly report, two overlapping worker cycles and a
\* schedule that is switched off or on.
CONSTANTS
  s1 = s1
  s2 = s2
  LastMonth = 4
  FirstDay <- ShortMonths
  MonthOf <- ShortMonthOf
  MaxDay = 3
  Schedules = {s1, s2}
  Frequency <- DailyAndMonthly
  Cycles = {c1, c2}
  TicksPerDay = 2
  Lease = 1
  MaxBatch = 2
  MaxFaults = 0
  MaxToggles = 1
  NoCycle = NoCycle
  NoSchedule = NoSchedule
SPECIFICATION Spec
SYMMETRY Symmetry
INVARIANTS
  TypeOK
  OnceAnOccurrence
  WindowsTile
  NothingDropped
  StatusIsOfLatest
  OverlapOnlyAfterLease
PROPERTY PlanSpec
