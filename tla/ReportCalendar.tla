--------------------------- MODULE ReportCalendar ---------------------------
(***************************************************************************)
(* The calendar of scheduled reports, in days (UTC).  An occurrence is the *)
(* day on whose first instant a report is due; its window is the days that *)
(* the report is about.                                                    *)
(***************************************************************************)
EXTENDS Integers

CONSTANTS
  LastMonth,    \* months are numbered 0..LastMonth
  FirstDay,     \* the first day of each month
  MonthOf,      \* the month of each day
  MaxDay        \* bound on the calendar of a run

StartDay == FirstDay[1]
Days == StartDay .. FirstDay[LastMonth] - 1

\* The months before the first day and after the last are in the calendar,
\* so that a window before, and an occurrence after, can be named.
ASSUME CalendarAssumption ==
  /\ LastMonth \in Nat /\ LastMonth > 2
  /\ FirstDay \in [0..LastMonth -> Int] /\ StartDay > 0
  /\ \A m, n \in 0..LastMonth : m < n => FirstDay[m] < FirstDay[n]
  /\ MonthOf \in [Days -> 1..(LastMonth - 1)]
  /\ \A d \in Days : FirstDay[MonthOf[d]] <= d /\ d < FirstDay[MonthOf[d] + 1]
  /\ MaxDay \in Int /\ StartDay <= MaxDay /\ MaxDay < FirstDay[LastMonth - 1]

Frequencies == {"DAILY", "WEEKLY", "MONTHLY"}

CalculateNextRunAt(frequency, from) ==
  CASE frequency = "DAILY" -> from + 1
    [] frequency = "WEEKLY" -> from + 7
    [] frequency = "MONTHLY" -> FirstDay[MonthOf[from] + 1]

WindowStart(frequency, occurrence) ==
  CASE frequency = "DAILY" -> occurrence - 1
    [] frequency = "WEEKLY" -> occurrence - 7
    [] frequency = "MONTHLY" -> FirstDay[MonthOf[occurrence] - 1]

WindowEnd(frequency, occurrence) ==
  CASE frequency = "DAILY" -> occurrence - 1
    [] frequency = "WEEKLY" -> occurrence - 1
    [] frequency = "MONTHLY" -> FirstDay[MonthOf[occurrence]] - 1

ReportWindow(frequency, occurrence) ==
  WindowStart(frequency, occurrence) .. WindowEnd(frequency, occurrence)
=============================================================================
