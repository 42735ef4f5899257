------------------------- MODULE MCScheduledReports -------------------------
(* ScheduledReports on small instances: months of two days, the first day of *)
(* a run being the first of month 1.                                         *)
EXTENDS ScheduledReports, TLC

CONSTANTS s1, s2

ShortMonths == [m \in 0..4 |-> 2 * m - 1]
ShortMonthOf == [d \in 1..6 |-> (d + 1) \div 2]
DailyAndMonthly == s1 :> "DAILY" @@ s2 :> "MONTHLY"
AllDaily == s1 :> "DAILY"
Symmetry == Permutations(Cycles)
=============================================================================
