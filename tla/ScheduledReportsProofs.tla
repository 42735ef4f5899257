----------------------- MODULE ScheduledReportsProofs -----------------------
(***************************************************************************)
(* The safety of ScheduledReports for any number of schedules and worker   *)
(* cycles, any calendar, and any number of exceptions and crashes.         *)
(***************************************************************************)
EXTENDS ScheduledReports, TLAPS

\* A schedule that was created, and the occurrences it has claimed so far.
ScheduleInv ==
  \A s \in Schedules :
    /\ first[s] = 0 => ~sched[s].enabled /\ sched[s].next = 0 /\ taken[s] = {}
    /\ first[s] # 0 => sched[s].next >= StartDay
    /\ \A o \in taken[s] : o < sched[s].next

\* Nothing exists of an occurrence that nobody has claimed.
UntakenInv ==
  \A s \in Schedules, d \in Days : d \notin taken[s] =>
    /\ rows[s][d] = 0 /\ report[s][d] = "NONE"
    /\ delivery[s][d] = "NONE" /\ sent[s][d] = 0

\* What exists of an occurrence at each step of its execution.
ExecutionFacts(c) ==
  LET s == cycle[c].on
      o == cycle[c].occ
      pc == cycle[c].pc
  IN
  /\ pc \in Executing => s \in Schedules /\ o \in taken[s]
  /\ pc = "create" => rows[s][o] = 0 /\ report[s][o] = "NONE"
  /\ pc = "build" => report[s][o] = "PENDING"
  /\ pc \in {"create", "build", "dispatch"} => delivery[s][o] = "NONE"
  /\ pc \in {"create", "build", "dispatch", "send"} => sent[s][o] = 0
  /\ pc \in {"dispatch", "send", "markSent", "markFailed", "finish"} =>
       report[s][o] = "COMPLETED"
  /\ pc \in {"send", "markSent"} => delivery[s][o] = "PENDING"
  /\ pc = "markSent" => sent[s][o] = 1
  /\ pc = "finish" => delivery[s][o] \in {"SENT", "FAILED"}
  /\ pc = "fail" => <<s, o>> \in faulted

ExecutionInv == \A c \in Cycles : ExecutionFacts(c)

\* An occurrence has one execution.
UniqueInv ==
  \A c, d \in Cycles :
    /\ cycle[c].pc \in Executing /\ cycle[d].pc \in Executing
    /\ cycle[c].on = cycle[d].on /\ cycle[c].occ = cycle[d].occ
    => c = d

\* An execution holds the claim of its schedule's latest occurrence, until its
\* lease has run out or it has released it.
LeaseInv ==
  \A c \in Cycles : cycle[c].pc \in Executing =>
    /\ sched[cycle[c].on].claim = c =>
         /\ sched[cycle[c].on].until = cycle[c].at + Lease
         /\ Latest(cycle[c].on, cycle[c].occ)
    /\ \/ sched[cycle[c].on].claim = c
       \/ now > cycle[c].at + Lease
       \/ cycle[c].pc = "fail"

\* The windows of what was claimed end before that of the next occurrence.
WindowInv ==
  \A s \in Schedules :
    /\ first[s] # 0 => /\ WindowStart(Frequency[s], first[s]) \in Int
                       /\ WindowStart(Frequency[s], sched[s].next) \in Int
    /\ \A o \in taken[s] :
         /\ WindowStart(Frequency[s], o) \in Int
         /\ WindowEnd(Frequency[s], o) \in Int
         /\ WindowEnd(Frequency[s], o) < WindowStart(Frequency[s], sched[s].next)

Row == [next : Nat, enabled : BOOLEAN, claim : Cycles \union {NoCycle},
        until : Nat \union {NoLease},
        last : {"NONE", "PENDING", "COMPLETED", "FAILED"}]

\* The state of a cycle at time t of day d.
CycleState(t, d) ==
  [pc : Steps, at : 0..t, today : {0} \union (StartDay..d),
   list : SUBSET (Schedules \X (StartDay..d)),
   on : Schedules \union {NoSchedule}, occ : {0} \union (StartDay..d)]

IInv ==
  /\ TypeOK
  /\ ScheduleInv
  /\ UntakenInv
  /\ ExecutionInv
  /\ UniqueInv
  /\ LeaseInv
  /\ WindowInv
  /\ OnceAnOccurrence
  /\ WindowsTile
  /\ NothingDropped
  /\ StatusIsOfLatest

-----------------------------------------------------------------------------
(* The calendar. *)

LEMMA DaysFacts ==
  /\ StartDay \in Nat /\ StartDay > 0
  /\ MaxDay \in Int /\ StartDay <= MaxDay
  /\ \A d \in StartDay..MaxDay : d \in Days
  /\ \A d \in Days : d \in Nat
<1>1. 1 \in 0..LastMonth /\ LastMonth - 1 \in 0..LastMonth /\ LastMonth \in 0..LastMonth
  BY CalendarAssumption
<1>2. FirstDay[1] \in Int /\ FirstDay[LastMonth - 1] \in Int /\ FirstDay[LastMonth] \in Int
  BY <1>1, CalendarAssumption
<1>3. FirstDay[LastMonth - 1] < FirstDay[LastMonth]
  BY <1>1, CalendarAssumption
<1>4. QED
  BY <1>2, <1>3, CalendarAssumption DEF Days, StartDay

\* The months in their order.
LEMMA MonthsFacts ==
  /\ LastMonth \in Int /\ LastMonth > 2
  /\ \A i \in 0..LastMonth : FirstDay[i] \in Int
  /\ \A i, j \in 0..LastMonth : i < j => FirstDay[i] < FirstDay[j]
  /\ \A d \in Days : MonthOf[d] \in 1..(LastMonth - 1)
  /\ \A d \in Days : FirstDay[MonthOf[d]] <= d /\ d < FirstDay[MonthOf[d] + 1]
<1>1. LastMonth \in Int /\ LastMonth > 2
  BY CalendarAssumption
<1>2. \A i \in 0..LastMonth : FirstDay[i] \in Int
  BY CalendarAssumption
<1>3. \A i, j \in 0..LastMonth : i < j => FirstDay[i] < FirstDay[j]
  BY CalendarAssumption
<1>4. \A d \in Days : MonthOf[d] \in 1..(LastMonth - 1)
  BY CalendarAssumption
<1>5. \A d \in Days : FirstDay[MonthOf[d]] <= d /\ d < FirstDay[MonthOf[d] + 1]
  BY CalendarAssumption
<1>6. QED
  BY <1>1, <1>2, <1>3, <1>4, <1>5

\* A day lies in one month only.
LEMMA OneMonth ==
  ASSUME NEW i \in 0..LastMonth, NEW j \in 0..LastMonth, i + 1 \in 0..LastMonth,
         FirstDay[i] <= FirstDay[j], FirstDay[j] < FirstDay[i + 1]
  PROVE  i = j
<1>1. /\ i \in Int /\ j \in Int
      /\ FirstDay[i] \in Int /\ FirstDay[j] \in Int /\ FirstDay[i + 1] \in Int
  BY MonthsFacts
<1>2. ~(j < i)
  <2>1. j < i => FirstDay[j] < FirstDay[i]
    BY MonthsFacts
  <2>2. QED
    BY <1>1, <2>1
<1>3. ~(i + 1 < j)
  <2>1. i + 1 < j => FirstDay[i + 1] < FirstDay[j]
    BY MonthsFacts
  <2>2. QED
    BY <1>1, <2>1
<1>4. i + 1 # j
  BY <1>1
<1>5. QED
  BY <1>1, <1>2, <1>3, <1>4

\* The first day of the next month belongs to it, and months have days.
LEMMA NextMonth ==
  ASSUME NEW d \in StartDay..MaxDay
  PROVE  /\ MonthOf[d] - 1 \in 0..LastMonth /\ MonthOf[d] + 1 \in 0..LastMonth
         /\ MonthOf[d] \in 0..LastMonth
         /\ FirstDay[MonthOf[d] + 1] \in Int /\ FirstDay[MonthOf[d] + 1] > d
         /\ MonthOf[FirstDay[MonthOf[d] + 1]] = MonthOf[d] + 1
<1> DEFINE m == MonthOf[d]
<1>1. d \in Days /\ d \in Int
  BY DaysFacts
<1>2. m \in 1..(LastMonth - 1) /\ FirstDay[m] <= d /\ d < FirstDay[m + 1]
  BY <1>1, MonthsFacts
<1>3. m # LastMonth - 1
  <2>1. LastMonth - 1 \in 0..LastMonth
    BY MonthsFacts
  <2>2. FirstDay[LastMonth - 1] \in Int
    BY <2>1, MonthsFacts
  <2>3. MaxDay \in Int /\ d <= MaxDay /\ MaxDay < FirstDay[LastMonth - 1]
    BY DaysFacts, CalendarAssumption
  <2> HIDE DEF m
  <2>4. QED
    BY <1>1, <1>2, <2>2, <2>3
<1> HIDE DEF m
<1>4. /\ m - 1 \in 0..LastMonth /\ m \in 0..LastMonth /\ m + 1 \in 0..LastMonth
      /\ 1 \in 0..LastMonth /\ LastMonth \in 0..LastMonth
      /\ m \in Int /\ 1 < m + 1 /\ m + 1 < LastMonth
  BY <1>2, <1>3, MonthsFacts
<1>5. FirstDay[1] < FirstDay[m + 1] /\ FirstDay[m + 1] < FirstDay[LastMonth]
  <2>1. FirstDay[1] < FirstDay[m + 1]
    BY <1>4, MonthsFacts
  <2>2. FirstDay[m + 1] < FirstDay[LastMonth]
    BY <1>4, MonthsFacts
  <2>3. QED
    BY <2>1, <2>2
<1>6. FirstDay[1] \in Int /\ FirstDay[m + 1] \in Int /\ FirstDay[LastMonth] \in Int
  BY <1>4, MonthsFacts
<1>7. FirstDay[m + 1] \in Days
  BY <1>5, <1>6 DEF Days, StartDay
<1> DEFINE k == MonthOf[FirstDay[m + 1]]
<1>8. k \in 1..(LastMonth - 1) /\ FirstDay[k] <= FirstDay[m + 1] /\ FirstDay[m + 1] < FirstDay[k + 1]
  BY <1>7, MonthsFacts
<1> HIDE DEF k
<1>9. k \in 0..LastMonth /\ k + 1 \in 0..LastMonth
  BY <1>8, MonthsFacts
<1>10. k = m + 1
  BY <1>4, <1>8, <1>9, OneMonth
<1>11. FirstDay[m + 1] > d
  BY <1>1, <1>2, <1>6
<1>12. QED
  BY <1>4, <1>6, <1>10, <1>11 DEF m, k

\* The window of every occurrence begins on the day after the window of the one
\* before it ends, for every frequency and calendar.
THEOREM CalendarTiles ==
  ASSUME NEW f \in Frequencies, NEW o \in StartDay..MaxDay
  PROVE  LET n == CalculateNextRunAt(f, o) IN
         /\ n \in Int /\ n > o
         /\ WindowStart(f, o) \in Int /\ WindowEnd(f, o) \in Int
         /\ WindowStart(f, o) <= WindowEnd(f, o)
         /\ WindowStart(f, n) = WindowEnd(f, o) + 1
<1>1. o \in Int
  BY DaysFacts
<1>2. CASE f = "DAILY"
  BY <1>1, <1>2 DEF CalculateNextRunAt, WindowStart, WindowEnd
<1>3. CASE f = "WEEKLY"
  BY <1>1, <1>3 DEF CalculateNextRunAt, WindowStart, WindowEnd
<1>4. CASE f = "MONTHLY"
  <2> DEFINE m == MonthOf[o]
             n == FirstDay[m + 1]
  <2>1. m - 1 \in 0..LastMonth /\ m \in 0..LastMonth /\ m \in Int
    BY NextMonth
  <2>2. FirstDay[m - 1] \in Int /\ FirstDay[m] \in Int /\ FirstDay[m - 1] < FirstDay[m]
    BY <2>1, CalendarAssumption
  <2>3. n \in Int /\ n > o /\ MonthOf[n] = m + 1
    BY NextMonth
  <2>4. WindowStart(f, n) = FirstDay[m]
    BY <1>4, <2>1, <2>3 DEF WindowStart
  <2>5. /\ CalculateNextRunAt(f, o) = n
        /\ WindowStart(f, o) = FirstDay[m - 1]
        /\ WindowEnd(f, o) = FirstDay[m] - 1
    BY <1>4 DEF CalculateNextRunAt, WindowStart, WindowEnd
  <2>6. QED
    BY <2>2, <2>3, <2>4, <2>5
<1>5. QED
  BY <1>2, <1>3, <1>4 DEF Frequencies

-----------------------------------------------------------------------------
(* The invariant is inductive. *)

LEMMA InitIInv == Init => IInv
<1> SUFFICES ASSUME Init PROVE IInv
  OBVIOUS
<1> USE DaysFacts, ReportsAssumption DEF Init
<1>1. TypeOK
  BY DEF TypeOK, NoRow, NoLease, Idle, Steps, Executing
<1>2. ScheduleInv /\ UntakenInv
  BY DEF ScheduleInv, UntakenInv, NoRow
<1>3. ExecutionInv /\ UniqueInv /\ LeaseInv
  BY DEF ExecutionInv, ExecutionFacts, UniqueInv, LeaseInv, Idle, Executing
<1>4. OnceAnOccurrence /\ WindowInv /\ WindowsTile /\ NothingDropped /\ StatusIsOfLatest
  BY DEF OnceAnOccurrence, WindowInv, WindowsTile, NothingDropped, StatusIsOfLatest
<1>5. QED
  BY <1>1, <1>2, <1>3, <1>4 DEF IInv

\* The parts of the invariant that depend on the rows alone.
LEMMA RowsFrame ==
  ASSUME IInv, UNCHANGED <<sched, outVars, first, taken>>, faulted \subseteq faulted'
  PROVE  /\ ScheduleInv' /\ UntakenInv' /\ WindowInv'
         /\ OnceAnOccurrence' /\ WindowsTile' /\ StatusIsOfLatest'
BY DEF IInv, outVars, ScheduleInv, UntakenInv, WindowInv, OnceAnOccurrence, WindowsTile,
   StatusIsOfLatest, Latest

LEMMA TickStep == IInv /\ Tick => IInv'
<1> SUFFICES ASSUME IInv, Tick PROVE IInv'
  OBVIOUS
<1>1. UNCHANGED <<sched, cycle, outVars, first, taken, faulted, boundVars>>
  BY DEF Tick
<1>2. day \in Int /\ now \in Nat /\ now' = now + 1 /\ day' \in StartDay..MaxDay /\ day <= day'
  BY DaysFacts DEF IInv, TypeOK, Tick
<1>3. TypeOK'
  BY <1>1, <1>2, DaysFacts DEF IInv, TypeOK, outVars, boundVars
<1>4. ExecutionInv' /\ UniqueInv' /\ NothingDropped'
  BY <1>1 DEF IInv, outVars, ExecutionInv, ExecutionFacts, UniqueInv, NothingDropped,
     Accounted, Executing
<1>5. LeaseInv'
  BY <1>1, <1>2, ReportsAssumption DEF IInv, TypeOK, LeaseInv, Latest
<1>6. QED
  BY <1>1, <1>3, <1>4, <1>5, RowsFrame DEF IInv

LEMMA CreateStep ==
  ASSUME IInv, NEW s \in Schedules, CreateScheduledReport(s)
  PROVE  IInv'
<1> DEFINE n == CalculateNextRunAt(Frequency[s], day)
           row == [NoRow EXCEPT !.next = n, !.enabled = TRUE]
<1>1. Frequency[s] \in Frequencies /\ day \in StartDay..MaxDay
  BY ReportsAssumption DEF IInv, TypeOK
<1>2. /\ n \in Int /\ n > day /\ n \in Nat /\ n >= StartDay /\ n # 0
      /\ WindowStart(Frequency[s], n) \in Int
  BY <1>1, CalendarTiles, DaysFacts
<1>3. /\ first[s] = 0 /\ taken[s] = {}
      /\ first' = [first EXCEPT ![s] = n]
      /\ sched' = [sched EXCEPT ![s] = row]
      /\ UNCHANGED <<clockVars, cycle, outVars, taken, faulted, boundVars>>
  BY DEF CreateScheduledReport, IInv, ScheduleInv
<1> HIDE DEF n
<1>4. TypeOK'
  <2>1. row \in Row
    BY <1>2 DEF NoRow, Row
  <2> HIDE DEF row
  <2>2. sched \in [Schedules -> Row]
    BY DEF IInv, TypeOK, Row
  <2>3. sched' \in [Schedules -> Row]
    BY <1>3, <2>1, <2>2
  <2>4. first' \in [Schedules -> Nat]
    BY <1>2, <1>3 DEF IInv, TypeOK
  <2>5. QED
    BY <1>3, <2>3, <2>4 DEF IInv, TypeOK, clockVars, outVars, boundVars, Row
<1>5. \A t \in Schedules : /\ t # s => sched'[t] = sched[t] /\ first'[t] = first[t]
                           /\ t = s => /\ sched'[t].next = n /\ first'[t] = n
                                       /\ sched'[t].last = "NONE"
  BY <1>3 DEF IInv, TypeOK, NoRow
<1>6. ScheduleInv' /\ UntakenInv'
  <2>1. ScheduleInv'
    BY <1>2, <1>3, <1>5 DEF IInv, ScheduleInv
  <2>2. UntakenInv'
    BY <1>3 DEF IInv, UntakenInv, outVars
  <2>3. QED
    BY <2>1, <2>2
<1>7. ExecutionInv' /\ UniqueInv' /\ NothingDropped' /\ OnceAnOccurrence'
  BY <1>3 DEF IInv, outVars, ExecutionInv, ExecutionFacts, UniqueInv, NothingDropped,
     Accounted, OnceAnOccurrence
<1>8. LeaseInv'
  <2>1. \A c \in Cycles : cycle[c].pc \in Executing =>
          sched'[cycle[c].on] = sched[cycle[c].on]
    BY <1>3, <1>5 DEF IInv, ExecutionInv, ExecutionFacts
  <2>2. QED
    BY <1>3, <2>1 DEF IInv, LeaseInv, Latest, clockVars
<1>9. StatusIsOfLatest'
  BY <1>3, <1>5 DEF IInv, StatusIsOfLatest, Latest, outVars
<1>10. WindowInv'
  BY <1>2, <1>3, <1>5 DEF IInv, WindowInv
<1>11. WindowsTile'
  BY <1>2, <1>3, <1>5 DEF IInv, WindowsTile
<1>12. QED
  BY <1>4, <1>6, <1>7, <1>8, <1>9, <1>10, <1>11 DEF IInv

LEMMA EnableStep ==
  ASSUME IInv, NEW s \in Schedules, NEW flag \in BOOLEAN, SetScheduledReportEnabled(s, flag)
  PROVE  IInv'
<1>1. /\ first[s] # 0
      /\ sched' = [sched EXCEPT ![s].enabled = flag]
      /\ UNCHANGED <<clockVars, cycle, outVars, first, taken, faulted, faults>>
      /\ toggles < MaxToggles /\ toggles' = toggles + 1
  BY DEF SetScheduledReportEnabled
<1>2. TypeOK'
  <2> DEFINE row == [sched[s] EXCEPT !.enabled = flag]
  <2>0. sched \in [Schedules -> Row] /\ sched' = [sched EXCEPT ![s] = row]
    BY <1>1 DEF IInv, TypeOK, Row
  <2>1. row \in Row
    <3>1. sched[s] \in Row
      BY <2>0
    <3>2. QED
      BY <3>1 DEF Row
  <2> HIDE DEF row
  <2>2. sched' \in [Schedules -> Row]
    BY <2>0, <2>1
  <2>3. toggles' \in 0..MaxToggles
    BY <1>1, ReportsAssumption DEF IInv, TypeOK
  <2>4. QED
    BY <1>1, <2>2, <2>3 DEF IInv, TypeOK, clockVars, outVars, Row
<1>3. \A t \in Schedules : /\ t # s => sched'[t] = sched[t]
                           /\ sched'[t].next = sched[t].next
                           /\ sched'[t].claim = sched[t].claim
                           /\ sched'[t].until = sched[t].until
                           /\ sched'[t].last = sched[t].last
  BY <1>1 DEF IInv, TypeOK
<1>4. ScheduleInv' /\ UntakenInv'
  BY <1>1, <1>3 DEF IInv, ScheduleInv, UntakenInv, outVars
<1>5. ExecutionInv' /\ UniqueInv' /\ NothingDropped' /\ OnceAnOccurrence'
  BY <1>1 DEF IInv, outVars, ExecutionInv, ExecutionFacts, UniqueInv, NothingDropped,
     Accounted, OnceAnOccurrence
<1>6. LeaseInv'
  BY <1>1, <1>3 DEF IInv, LeaseInv, Latest, clockVars, ExecutionInv, ExecutionFacts
<1>7. StatusIsOfLatest'
  BY <1>1, <1>3 DEF IInv, StatusIsOfLatest, Latest, outVars
<1>8. WindowInv' /\ WindowsTile'
  BY <1>1, <1>3 DEF IInv, WindowInv, WindowsTile
<1>9. QED
  BY <1>2, <1>4, <1>5, <1>6, <1>7, <1>8 DEF IInv

\* A cycle outside an execution moves on to another step outside of it.
LEMMA CycleFrame ==
  ASSUME IInv, NEW c \in Cycles,
         UNCHANGED <<clockVars, sched, outVars, first, taken, faulted>>,
         \A d \in Cycles : d # c => cycle'[d] = cycle[d],
         cycle[c].pc \notin Executing, cycle'[c].pc \notin Executing,
         TypeOK'
  PROVE  IInv'
<1>1. ExecutionInv' /\ UniqueInv'
  BY DEF IInv, outVars, ExecutionInv, ExecutionFacts, UniqueInv, Executing
<1>2. NothingDropped'
  <2>1. \A d \in Cycles : cycle[d].pc \in Executing => cycle'[d] = cycle[d]
    OBVIOUS
  <2>2. UNCHANGED <<report, taken, faulted>>
    BY DEF outVars
  <2>3. ASSUME NEW s \in Schedules, NEW o \in taken[s] PROVE Accounted(s, o)'
    BY <2>1, <2>2 DEF IInv, NothingDropped, Accounted
  <2>4. QED
    BY <2>2, <2>3 DEF NothingDropped
<1>3. LeaseInv'
  BY DEF IInv, LeaseInv, Latest, clockVars
<1>4. QED
  BY <1>1, <1>2, <1>3, RowsFrame DEF IInv

\* A cycle moves to another state of a cycle.
LEMMA CycleUpdate ==
  ASSUME IInv, NEW c \in Cycles, NEW r \in CycleState(now, day),
         cycle' = [cycle EXCEPT ![c] = r]
  PROVE  /\ cycle' \in [Cycles -> CycleState(now, day)]
         /\ cycle'[c] = r
         /\ \A d \in Cycles : d # c => cycle'[d] = cycle[d]
<1>1. cycle \in [Cycles -> CycleState(now, day)]
  BY DEF IInv, TypeOK, CycleState
<1>2. QED
  BY <1>1

LEMMA IdleState == IInv => Idle \in CycleState(now, day)
BY DEF IInv, TypeOK, CycleState, Idle, Steps

LEMMA StartStep ==
  ASSUME IInv, NEW c \in Cycles, StartCycle(c)
  PROVE  IInv'
<1> DEFINE r == [Idle EXCEPT !.pc = "read", !.at = now, !.today = day]
<1>1. r \in CycleState(now, day) /\ r.pc = "read"
  <2>1. now \in 0..now /\ day \in StartDay..day
    BY DaysFacts DEF IInv, TypeOK
  <2>2. "read" \in Steps
    BY DEF Steps
  <2>3. QED
    BY <2>1, <2>2, IdleState DEF CycleState, Idle
<1>2. /\ cycle[c].pc = "idle" /\ cycle' = [cycle EXCEPT ![c] = r]
      /\ UNCHANGED <<clockVars, sched, outVars, first, taken, faulted, boundVars>>
  BY DEF StartCycle
<1> HIDE DEF r
<1>3. /\ cycle' \in [Cycles -> CycleState(now, day)] /\ cycle'[c].pc = "read"
      /\ \A d \in Cycles : d # c => cycle'[d] = cycle[d]
  BY <1>1, <1>2, CycleUpdate
<1>4. TypeOK'
  BY <1>2, <1>3 DEF IInv, TypeOK, CycleState, clockVars, outVars, boundVars
<1>5. QED
  BY <1>2, <1>3, <1>4, CycleFrame DEF Executing

LEMMA ReadStep ==
  ASSUME IInv, NEW c \in Cycles, ReadDue(c)
  PROVE  IInv'
<1>1. PICK batch \in SUBSET {s \in Schedules : Due(s, c)} :
        cycle' = [cycle EXCEPT ![c] =
                    [@ EXCEPT !.pc = "loop",
                              !.list = {<<s, sched[s].next>> : s \in batch}]]
  BY DEF ReadDue
<1>2. /\ cycle[c].pc = "read"
      /\ UNCHANGED <<clockVars, sched, outVars, first, taken, faulted, boundVars>>
  BY DEF ReadDue
<1>3. \A s \in batch : s \in Schedules /\ sched[s].next \in StartDay..day
  <2> TAKE s \in batch
  <2>1. s \in Schedules /\ sched[s].enabled /\ sched[s].next <= cycle[c].today
    BY DEF Due
  <2>2. sched[s].next \in Nat /\ cycle[c].today \in Int /\ cycle[c].today <= day /\ day \in Int
    BY <2>1, DaysFacts DEF IInv, TypeOK
  <2>3. first[s] # 0 /\ sched[s].next >= StartDay
    BY <2>1 DEF IInv, ScheduleInv
  <2>4. QED
    BY <2>1, <2>2, <2>3, DaysFacts
<1>4. {<<s, sched[s].next>> : s \in batch} \in SUBSET (Schedules \X (StartDay..day))
  BY <1>3
<1> DEFINE list == {<<s, sched[s].next>> : s \in batch}
           r == [cycle[c] EXCEPT !.pc = "loop", !.list = list]
<1> HIDE DEF list
<1>5. r \in CycleState(now, day) /\ r.pc = "loop"
  <2>1. cycle[c] \in CycleState(now, day)
    BY DEF IInv, TypeOK, CycleState
  <2>2. list \in SUBSET (Schedules \X (StartDay..day)) /\ "loop" \in Steps
    BY <1>4 DEF list, Steps
  <2>3. QED
    BY <2>1, <2>2 DEF CycleState
<1>6. cycle' = [cycle EXCEPT ![c] = r]
  BY <1>1 DEF list
<1> HIDE DEF r
<1>7. /\ cycle' \in [Cycles -> CycleState(now, day)] /\ cycle'[c].pc = "loop"
      /\ \A d \in Cycles : d # c => cycle'[d] = cycle[d]
  BY <1>5, <1>6, CycleUpdate
<1>8. TypeOK'
  BY <1>2, <1>7 DEF IInv, TypeOK, CycleState, clockVars, outVars, boundVars
<1>9. QED
  BY <1>2, <1>7, <1>8, CycleFrame DEF Executing

LEMMA EndStep ==
  ASSUME IInv, NEW c \in Cycles, EndCycle(c)
  PROVE  IInv'
<1>1. /\ cycle[c].pc = "loop" /\ cycle' = [cycle EXCEPT ![c] = Idle]
      /\ UNCHANGED <<clockVars, sched, outVars, first, taken, faulted, boundVars>>
  BY DEF EndCycle
<1>2. /\ cycle' \in [Cycles -> CycleState(now, day)] /\ cycle'[c].pc = "idle"
      /\ \A d \in Cycles : d # c => cycle'[d] = cycle[d]
  BY <1>1, IdleState, CycleUpdate DEF Idle
<1>3. TypeOK'
  BY <1>1, <1>2 DEF IInv, TypeOK, CycleState, clockVars, outVars, boundVars
<1>4. QED
  BY <1>1, <1>2, <1>3, CycleFrame DEF Executing

\* A claim that succeeds.
LEMMA ExecuteStep ==
  ASSUME IInv, NEW c \in Cycles, NEW s \in Schedules, NEW o \in StartDay..day,
         NEW list \in SUBSET (Schedules \X (StartDay..day)),
         cycle[c].pc = "loop", Claimable(c, s, o), Execute(c, s, o, list),
         UNCHANGED <<clockVars, outVars, first, faulted, boundVars>>
  PROVE  IInv'
<1> DEFINE n == CalculateNextRunAt(Frequency[s], o)
           row == [sched[s] EXCEPT !.next = n, !.claim = c, !.until = cycle[c].at + Lease,
                                   !.last = "PENDING"]
           r == [cycle[c] EXCEPT !.pc = "create", !.list = list, !.on = s, !.occ = o]
<1>1. /\ sched' = [sched EXCEPT ![s] = row]
      /\ taken' = [taken EXCEPT ![s] = taken[s] \union {o}]
      /\ cycle' = [cycle EXCEPT ![c] = r]
  BY DEF Execute
<1>2. /\ sched[s].enabled /\ sched[s].next = o /\ sched[s].until < cycle[c].at
      /\ first[s] # 0 /\ \A p \in taken[s] : p < o
  BY DEF Claimable, SameRun, Unclaimed, IInv, ScheduleInv
<1>3. /\ o \in StartDay..MaxDay /\ o \in Days /\ o \in Nat /\ day \in Int /\ now \in Nat
      /\ Frequency[s] \in Frequencies /\ Lease \in Nat
      /\ cycle[c].at \in Nat /\ cycle[c].at <= now /\ taken[s] \subseteq Nat
  BY DaysFacts, ReportsAssumption DEF IInv, TypeOK
<1>4. /\ n \in Nat /\ n > o /\ n >= StartDay
      /\ WindowStart(Frequency[s], o) \in Int /\ WindowEnd(Frequency[s], o) \in Int
      /\ WindowStart(Frequency[s], o) <= WindowEnd(Frequency[s], o)
      /\ WindowStart(Frequency[s], n) = WindowEnd(Frequency[s], o) + 1
  BY <1>3, CalendarTiles, DaysFacts
<1> HIDE DEF n
<1>5. /\ row \in Row /\ row.next = n /\ row.claim = c /\ row.until = cycle[c].at + Lease
      /\ row.last = "PENDING" /\ sched \in [Schedules -> Row]
  <2>1. sched \in [Schedules -> Row] /\ sched[s] \in Row
    BY DEF IInv, TypeOK, Row
  <2>2. cycle[c].at + Lease \in Nat
    BY <1>3
  <2>3. QED
    BY <1>4, <2>1, <2>2 DEF Row
<1>6. r \in CycleState(now, day) /\ r.pc = "create" /\ r.on = s /\ r.occ = o /\ r.at = cycle[c].at
  <2>1. cycle[c] \in CycleState(now, day) /\ "create" \in Steps
    BY DEF IInv, TypeOK, CycleState, Steps, Executing
  <2>2. QED
    BY <2>1 DEF CycleState
<1> HIDE DEF row, r
<1>7. /\ sched' \in [Schedules -> Row] /\ sched'[s] = row
      /\ \A t \in Schedules : t # s => sched'[t] = sched[t]
  BY <1>1, <1>5
<1>8. /\ cycle' \in [Cycles -> CycleState(now, day)] /\ cycle'[c] = r
      /\ \A d \in Cycles : d # c => cycle'[d] = cycle[d]
  BY <1>1, <1>6, CycleUpdate
<1>9. /\ taken' \in [Schedules -> SUBSET (StartDay..day)] /\ taken'[s] = taken[s] \union {o}
      /\ \A t \in Schedules : t # s => taken'[t] = taken[t]
      /\ o \notin taken[s]
  BY <1>1, <1>2, <1>3 DEF IInv, TypeOK
<1>10. TypeOK'
  BY <1>7, <1>8, <1>9 DEF IInv, TypeOK, CycleState, Row, clockVars, outVars, boundVars
<1>11. ScheduleInv' /\ UntakenInv'
  <2>1. \A t \in Schedules : taken[t] \subseteq taken'[t]
    BY <1>9
  <2>2. UntakenInv'
    BY <2>1 DEF IInv, UntakenInv, outVars
  <2>3. \A p \in taken'[s] : p < n
    BY <1>2, <1>3, <1>4, <1>9
  <2>4. ScheduleInv'
    BY <1>2, <1>4, <1>5, <1>7, <1>9, <2>3 DEF IInv, ScheduleInv
  <2>5. QED
    BY <2>2, <2>4
<1>12. ExecutionInv'
  <2>1. /\ rows[s][o] = 0 /\ report[s][o] = "NONE" /\ delivery[s][o] = "NONE"
        /\ sent[s][o] = 0
    BY <1>3, <1>9 DEF IInv, UntakenInv
  <2>2. ExecutionFacts(c)'
    BY <1>6, <1>8, <1>9, <2>1 DEF ExecutionFacts, outVars
  <2>3. ASSUME NEW d \in Cycles, d # c PROVE ExecutionFacts(d)'
    BY <1>8, <1>9, <2>3 DEF IInv, ExecutionInv, ExecutionFacts, outVars
  <2>4. QED
    BY <2>2, <2>3 DEF ExecutionInv
<1>13. UniqueInv'
  <2>1. ASSUME NEW d \in Cycles, cycle[d].pc \in Executing, cycle[d].on = s, cycle[d].occ = o
        PROVE  FALSE
    BY <1>9, <2>1 DEF IInv, ExecutionInv, ExecutionFacts
  <2>2. QED
    BY <1>6, <1>8, <2>1 DEF IInv, UniqueInv
<1>14. LeaseInv'
  <2>1. Latest(s, o)'
    BY <1>2, <1>3, <1>9 DEF Latest
  <2>2. ASSUME NEW d \in Cycles, cycle'[d].pc \in Executing
        PROVE  /\ sched'[cycle'[d].on].claim = d =>
                    /\ sched'[cycle'[d].on].until = cycle'[d].at + Lease
                    /\ Latest(cycle[d].on, cycle[d].occ)'
               /\ \/ sched'[cycle'[d].on].claim = d
                  \/ now > cycle'[d].at + Lease
                  \/ cycle'[d].pc = "fail"
    <3>1. CASE d = c
      BY <1>5, <1>6, <1>7, <1>8, <2>1, <3>1
    <3>2. CASE d # c
      <4>1. cycle'[d] = cycle[d] /\ cycle[d].on \in Schedules
        BY <1>8, <2>2, <3>2 DEF IInv, ExecutionInv, ExecutionFacts
      <4>2. CASE cycle[d].on = s
        <5>1. cycle[d].at \in Nat
          BY DEF IInv, TypeOK
        <5>2. sched[s].claim = d => now > cycle[d].at + Lease
          BY <1>2, <1>3, <2>2, <4>1, <4>2, <5>1 DEF IInv, LeaseInv
        <5>3. QED
          BY <1>5, <1>7, <2>2, <3>2, <4>1, <4>2, <5>2 DEF IInv, LeaseInv
      <4>3. CASE cycle[d].on # s
        BY <1>7, <1>9, <2>2, <4>1, <4>3 DEF IInv, LeaseInv, Latest
      <4>4. QED
        BY <4>2, <4>3
    <3>3. QED
      BY <3>1, <3>2
  <2>3. QED
    BY <2>2 DEF LeaseInv, clockVars
<1>15. WindowInv'
  <2>1. \A p \in taken'[s] :
          /\ WindowStart(Frequency[s], p) \in Int
          /\ WindowEnd(Frequency[s], p) \in Int
          /\ WindowEnd(Frequency[s], p) < WindowStart(Frequency[s], n)
    BY <1>2, <1>4, <1>9 DEF IInv, WindowInv
  <2>2. WindowStart(Frequency[s], n) \in Int
    BY <1>4
  <2>3. QED
    BY <1>5, <1>7, <1>9, <2>1, <2>2 DEF IInv, WindowInv
<1>16. WindowsTile'
  <2> DEFINE f == Frequency[s]
  <2>1. ASSUME NEW d \in WindowStart(f, first[s]) .. (WindowStart(f, n) - 1)
        PROVE  \E q \in taken'[s] :
                 /\ d \in ReportWindow(f, q)
                 /\ \A p \in taken'[s] : d \in ReportWindow(f, p) => p = q
    <3>1. WindowStart(f, first[s]) \in Int /\ WindowStart(f, n) \in Int /\ d \in Int
      BY <1>2, <1>4 DEF IInv, WindowInv
    <3>2. CASE d < WindowStart(f, o)
      <4>1. d \in WindowStart(f, first[s]) .. (WindowStart(f, sched[s].next) - 1)
        BY <1>2, <1>4, <3>1, <3>2
      <4>2. PICK q \in taken[s] :
              /\ d \in ReportWindow(f, q)
              /\ \A p \in taken[s] : d \in ReportWindow(f, p) => p = q
        BY <1>2, <4>1 DEF IInv, WindowsTile
      <4>3. d \notin ReportWindow(f, o)
        BY <1>4, <3>1, <3>2 DEF ReportWindow
      <4>4. QED
        BY <1>9, <4>2, <4>3
    <3>3. CASE d >= WindowStart(f, o)
      <4>1. d \in ReportWindow(f, o)
        BY <1>4, <3>1, <3>3 DEF ReportWindow
      <4>2. \A p \in taken[s] : d \notin ReportWindow(f, p)
        BY <1>2, <1>4, <3>1, <3>3 DEF IInv, WindowInv, ReportWindow
      <4>3. QED
        BY <1>9, <4>1, <4>2
    <3>4. QED
      BY <1>4, <3>1, <3>2, <3>3
  <2>2. ASSUME NEW t \in Schedules, first'[t] # 0,
               NEW d \in WindowStart(Frequency[t], first'[t]) ..
                         (WindowStart(Frequency[t], sched'[t].next) - 1)
        PROVE  \E q \in taken'[t] :
                 /\ d \in ReportWindow(Frequency[t], q)
                 /\ \A p \in taken'[t] : d \in ReportWindow(Frequency[t], p) => p = q
    <3>1. CASE t = s
      BY <1>5, <1>7, <2>1, <2>2, <3>1
    <3>2. CASE t # s
      BY <1>7, <1>9, <2>2, <3>2 DEF IInv, WindowsTile
    <3>3. QED
      BY <3>1, <3>2
  <2>3. QED
    BY <2>2 DEF WindowsTile
<1>17. NothingDropped'
  <2>1. UNCHANGED <<report, faulted>>
    BY DEF outVars
  <2>2. \A d \in Cycles : cycle[d].pc \in Executing => cycle'[d] = cycle[d]
    BY <1>8 DEF Executing
  <2>3. ASSUME NEW t \in Schedules, NEW q \in taken[t] PROVE Accounted(t, q)'
    BY <2>1, <2>2, <2>3 DEF IInv, NothingDropped, Accounted
  <2>4. Accounted(s, o)'
    BY <1>6, <1>8 DEF Accounted, Executing
  <2>5. QED
    BY <1>9, <2>3, <2>4 DEF NothingDropped
<1>18. StatusIsOfLatest' /\ OnceAnOccurrence'
  <2>1. StatusIsOfLatest'
    BY <1>5, <1>7, <1>9 DEF IInv, StatusIsOfLatest, Latest, outVars
  <2>2. OnceAnOccurrence'
    BY DEF IInv, OnceAnOccurrence, outVars
  <2>3. QED
    BY <2>1, <2>2
<1>19. QED
  BY <1>10, <1>11, <1>12, <1>13, <1>14, <1>15, <1>16, <1>17, <1>18 DEF IInv

LEMMA ClaimStep ==
  ASSUME IInv, NEW c \in Cycles, Claim(c)
  PROVE  IInv'
<1>1. PICK p \in cycle[c].list :
        LET s == p[1]
            o == p[2]
            list == cycle[c].list \ {p}
        IN
        \/ Claimable(c, s, o) /\ Execute(c, s, o, list)
        \/ cycle' = [cycle EXCEPT ![c].list = list] /\ UNCHANGED <<sched, taken>>
  BY DEF Claim
<1>2. /\ cycle[c].pc = "loop"
      /\ UNCHANGED <<clockVars, outVars, first, faulted, boundVars>>
  BY DEF Claim
<1> DEFINE s == p[1]
           o == p[2]
           list == cycle[c].list \ {p}
<1>3. /\ cycle[c] \in CycleState(now, day)
      /\ s \in Schedules /\ o \in StartDay..day
      /\ list \in SUBSET (Schedules \X (StartDay..day))
  BY DEF IInv, TypeOK, CycleState
<1> HIDE DEF s, o, list
<1>4. CASE cycle' = [cycle EXCEPT ![c].list = list] /\ UNCHANGED <<sched, taken>>
  <2> DEFINE r == [cycle[c] EXCEPT !.list = list]
  <2>1. r \in CycleState(now, day) /\ r.pc = "loop"
    BY <1>2, <1>3 DEF CycleState
  <2>2. cycle' = [cycle EXCEPT ![c] = r]
    BY <1>4
  <2> HIDE DEF r
  <2>3. /\ cycle' \in [Cycles -> CycleState(now, day)] /\ cycle'[c].pc = "loop"
        /\ \A d \in Cycles : d # c => cycle'[d] = cycle[d]
    BY <2>1, <2>2, CycleUpdate
  <2>4. TypeOK'
    BY <1>2, <1>4, <2>3 DEF IInv, TypeOK, CycleState, clockVars, outVars, boundVars
  <2>5. QED
    BY <1>2, <1>4, <2>3, <2>4, CycleFrame DEF Executing
<1>5. CASE Claimable(c, s, o) /\ Execute(c, s, o, list)
  BY <1>2, <1>3, <1>5, ExecuteStep
<1>6. QED
  BY <1>1, <1>4, <1>5 DEF s, o, list

-----------------------------------------------------------------------------
(* Steps of an execution. *)

LEMMA Update2 ==
  ASSUME NEW S, NEW D, NEW T, NEW f \in [S -> [D -> T]], NEW s \in S, NEW d \in D, NEW v \in T
  PROVE  LET g == [f EXCEPT ![s][d] = v] IN
         /\ g \in [S -> [D -> T]] /\ g[s][d] = v
         /\ \A t \in S, e \in D : t # s \/ e # d => g[t][e] = f[t][e]
OBVIOUS

\* What an execution works on.
LEMMA OnFacts ==
  ASSUME IInv, NEW c \in Cycles, cycle[c].pc \in Executing
  PROVE  /\ cycle[c].on \in Schedules /\ cycle[c].occ \in taken[cycle[c].on]
         /\ cycle[c].occ \in Days
<1>1. cycle[c].on \in Schedules /\ cycle[c].occ \in taken[cycle[c].on]
  BY DEF IInv, ExecutionInv, ExecutionFacts
<1>2. taken[cycle[c].on] \subseteq StartDay..day /\ day \in StartDay..MaxDay
  BY <1>1 DEF IInv, TypeOK
<1>3. QED
  BY <1>1, <1>2, DaysFacts

LEMMA GotoFacts ==
  ASSUME IInv, NEW c \in Cycles, NEW to \in Steps, Goto(c, to)
  PROVE  /\ cycle' \in [Cycles -> CycleState(now, day)]
         /\ cycle'[c].pc = to /\ cycle'[c].at = cycle[c].at
         /\ cycle'[c].on = cycle[c].on /\ cycle'[c].occ = cycle[c].occ
         /\ \A d \in Cycles : d # c => cycle'[d] = cycle[d]
<1> DEFINE r == [cycle[c] EXCEPT !.pc = to]
<1>1. /\ r \in CycleState(now, day) /\ r.pc = to /\ r.at = cycle[c].at
      /\ r.on = cycle[c].on /\ r.occ = cycle[c].occ
  <2>1. cycle[c] \in CycleState(now, day)
    BY DEF IInv, TypeOK, CycleState
  <2>2. QED
    BY <2>1 DEF CycleState
<1>2. cycle' = [cycle EXCEPT ![c] = r]
  BY DEF Goto
<1> HIDE DEF r
<1>3. QED
  BY <1>1, <1>2, CycleUpdate

LEMMA ContinueFacts ==
  ASSUME IInv, NEW c \in Cycles, Continue(c)
  PROVE  /\ cycle' \in [Cycles -> CycleState(now, day)]
         /\ cycle'[c].pc = "loop"
         /\ \A d \in Cycles : d # c => cycle'[d] = cycle[d]
<1> DEFINE r == [cycle[c] EXCEPT !.pc = "loop", !.on = NoSchedule, !.occ = 0]
<1>1. r \in CycleState(now, day) /\ r.pc = "loop"
  <2>1. cycle[c] \in CycleState(now, day) /\ "loop" \in Steps
    BY DEF IInv, TypeOK, CycleState, Steps
  <2>2. QED
    BY <2>1 DEF CycleState
<1>2. cycle' = [cycle EXCEPT ![c] = r]
  BY DEF Continue
<1> HIDE DEF r
<1>3. QED
  BY <1>1, <1>2, CycleUpdate

\* Cycle c takes a step of its execution of occurrence o of s.
OwnStep(c, s, o) ==
  /\ cycle[c].pc \in Executing \ {"fail"} /\ cycle'[c].pc \in Executing
  /\ cycle[c].on = s /\ cycle[c].occ = o
  /\ cycle'[c].at = cycle[c].at /\ cycle'[c].on = s /\ cycle'[c].occ = o
  /\ \A d \in Cycles : d # c => cycle'[d] = cycle[d]
  /\ UNCHANGED <<clockVars, sched, first, taken>> /\ faulted \subseteq faulted'

\* The step changes nothing of other occurrences.
Elsewhere(s, o) ==
  \A t \in Schedules, d \in Days : t # s \/ d # o =>
    /\ rows'[t][d] = rows[t][d] /\ report'[t][d] = report[t][d]
    /\ delivery'[t][d] = delivery[t][d] /\ sent'[t][d] = sent[t][d]

\* What it leaves of its own one is in order, and as finished as it was.
SoundAfter(s, o) ==
  /\ rows'[s][o] <= 1 /\ sent'[s][o] <= 1
  /\ delivery'[s][o] # "NONE" => report'[s][o] = "COMPLETED"
  /\ delivery'[s][o] = "SENT" => sent'[s][o] = 1
  /\ \/ delivery[s][o] \notin {"SENT", "FAILED"}
     \/ report'[s][o] = "COMPLETED" /\ delivery'[s][o] \in {"SENT", "FAILED"}

\* An execution changes what exists of its occurrence, or only its own step.
LEMMA ExecutionFrame ==
  ASSUME IInv, NEW c \in Cycles, NEW s \in Schedules, NEW o \in Days,
         OwnStep(c, s, o), Elsewhere(s, o), SoundAfter(s, o), ExecutionFacts(c)', TypeOK'
  PROVE  IInv'
<1> USE DEF OwnStep, Elsewhere, SoundAfter
<1>1. s \in Schedules /\ o \in taken[s] /\ o \in Days
  BY OnFacts
<1>2. ScheduleInv' /\ WindowInv' /\ WindowsTile'
  BY DEF IInv, ScheduleInv, WindowInv, WindowsTile
<1>3. \A t \in Schedules : taken[t] \subseteq Days
  BY DaysFacts DEF IInv, TypeOK
<1>4. UntakenInv'
  <2>1. \A t \in Schedules, d \in Days : d \notin taken[t] => t # s \/ d # o
    BY <1>1
  <2>2. QED
    BY <2>1 DEF IInv, UntakenInv
<1>5. ExecutionInv'
  <2>1. ASSUME NEW d \in Cycles, d # c PROVE ExecutionFacts(d)'
    <3>1. cycle'[d] = cycle[d]
      BY <2>1
    <3>2. CASE cycle[d].pc \notin Executing
      BY <3>1, <3>2 DEF ExecutionFacts, Executing
    <3>3. CASE cycle[d].pc \in Executing
      <4>1. cycle[d].on \in Schedules /\ cycle[d].occ \in Days
        BY <3>3, OnFacts
      <4>2. cycle[d].on # s \/ cycle[d].occ # o
        BY <2>1, <3>3 DEF IInv, UniqueInv
      <4>3. /\ rows'[cycle[d].on][cycle[d].occ] = rows[cycle[d].on][cycle[d].occ]
            /\ report'[cycle[d].on][cycle[d].occ] = report[cycle[d].on][cycle[d].occ]
            /\ delivery'[cycle[d].on][cycle[d].occ] = delivery[cycle[d].on][cycle[d].occ]
            /\ sent'[cycle[d].on][cycle[d].occ] = sent[cycle[d].on][cycle[d].occ]
        BY <4>1, <4>2
      <4>4. ExecutionFacts(d)
        BY DEF IInv, ExecutionInv
      <4>5. QED
        BY <3>1, <4>3, <4>4 DEF ExecutionFacts
    <3>4. QED
      BY <3>2, <3>3
  <2>2. QED
    BY <2>1 DEF ExecutionInv
<1>6. UniqueInv'
  BY DEF IInv, UniqueInv
<1>7. LeaseInv'
  <2>1. \A d \in Cycles : /\ cycle'[d].on = cycle[d].on /\ cycle'[d].occ = cycle[d].occ
                          /\ cycle'[d].at = cycle[d].at
                          /\ cycle'[d].pc \in Executing => cycle[d].pc \in Executing
                          /\ cycle[d].pc = "fail" => cycle'[d].pc = "fail"
    OBVIOUS
  <2>2. QED
    BY <2>1 DEF IInv, LeaseInv, Latest, clockVars
<1>8. OnceAnOccurrence'
  <2>1. ASSUME NEW t \in Schedules, NEW d \in Days
        PROVE  /\ rows'[t][d] <= 1 /\ sent'[t][d] <= 1
               /\ delivery'[t][d] # "NONE" => report'[t][d] = "COMPLETED"
               /\ delivery'[t][d] = "SENT" => sent'[t][d] = 1
    BY DEF IInv, OnceAnOccurrence
  <2>2. QED
    BY <2>1 DEF OnceAnOccurrence
<1>9. NothingDropped'
  <2>1. ASSUME NEW t \in Schedules, NEW q \in taken[t] PROVE Accounted(t, q)'
    <3>1. CASE t = s /\ q = o
      BY <3>1 DEF Accounted
    <3>2. CASE t # s \/ q # o
      <4>1. report'[t][q] = report[t][q]
        BY <1>3, <3>2
      <4>2. \A d \in Cycles : cycle[d].on = t /\ cycle[d].occ = q => cycle'[d] = cycle[d]
        BY <3>2
      <4>3. Accounted(t, q)
        BY DEF IInv, NothingDropped
      <4>4. QED
        BY <4>1, <4>2, <4>3 DEF Accounted
    <3>3. QED
      BY <3>1, <3>2
  <2>2. QED
    BY <2>1 DEF NothingDropped
<1>10. StatusIsOfLatest'
  <2>1. ASSUME NEW t \in Schedules, NEW q \in taken[t], Latest(t, q),
               sched[t].last = "COMPLETED"
        PROVE  report'[t][q] = "COMPLETED" /\ delivery'[t][q] \in {"SENT", "FAILED"}
    <3>1. report[t][q] = "COMPLETED" /\ delivery[t][q] \in {"SENT", "FAILED"} /\ q \in Days
      BY <1>3, <2>1 DEF IInv, StatusIsOfLatest
    <3>3. CASE t # s \/ q # o
      BY <3>1, <3>3
    <3>4. CASE delivery[s][o] \notin {"SENT", "FAILED"} /\ t = s /\ q = o
      BY <3>1, <3>4
    <3>5. CASE /\ report'[s][o] = "COMPLETED" /\ delivery'[s][o] \in {"SENT", "FAILED"}
               /\ t = s /\ q = o
      BY <3>5
    <3>6. QED
      BY <3>3, <3>4, <3>5
  <2>2. ASSUME NEW t \in Schedules, NEW q \in taken[t], Latest(t, q), sched[t].last = "FAILED"
        PROVE  <<t, q>> \in faulted'
    BY <2>2 DEF IInv, StatusIsOfLatest
  <2>3. QED
    BY <2>1, <2>2 DEF StatusIsOfLatest, Latest
<1>11. QED
  BY <1>2, <1>4, <1>5, <1>6, <1>7, <1>8, <1>9, <1>10 DEF IInv

LEMMA CreateReportStep ==
  ASSUME IInv, NEW c \in Cycles, CreateReport(c)
  PROVE  IInv'
<1>0. PICK s \in Schedules, o \in Days :
        cycle[c].on = s /\ cycle[c].occ = o /\ o \in taken[s]
  BY OnFacts DEF CreateReport, Mark, Go, Executing
<1>1. /\ cycle[c].pc = "create" /\ Goto(c, "build")
      /\ rows' = [rows EXCEPT ![s][o] = rows[s][o] + 1]
      /\ report' = [report EXCEPT ![s][o] = "PENDING"]
      /\ UNCHANGED <<clockVars, sched, delivery, sent, first, taken, faulted, boundVars>>
  BY <1>0 DEF CreateReport, Go
<1>2. /\ o \in taken[s] /\ rows[s][o] = 0 /\ delivery[s][o] = "NONE" /\ sent[s][o] = 0
  BY <1>0, <1>1 DEF Executing, IInv, ExecutionInv, ExecutionFacts
<1>3. /\ cycle' \in [Cycles -> CycleState(now, day)] /\ cycle'[c].pc = "build"
      /\ cycle'[c].at = cycle[c].at /\ cycle'[c].on = s /\ cycle'[c].occ = o
      /\ \A d \in Cycles : d # c => cycle'[d] = cycle[d]
  BY <1>0, <1>1, GotoFacts DEF Steps, Executing
<1>4. /\ rows' \in [Schedules -> [Days -> Nat]] /\ rows'[s][o] = 1
      /\ \A t \in Schedules, d \in Days : t # s \/ d # o => rows'[t][d] = rows[t][d]
  <2>1. rows \in [Schedules -> [Days -> Nat]] /\ rows[s][o] + 1 = 1
    BY <1>2 DEF IInv, TypeOK
  <2>2. QED
    BY <1>1, <1>2, <2>1, Update2
<1>5. /\ report' \in [Schedules -> [Days -> {"NONE", "PENDING", "COMPLETED", "FAILED"}]]
      /\ report'[s][o] = "PENDING"
      /\ \A t \in Schedules, d \in Days : t # s \/ d # o => report'[t][d] = report[t][d]
  BY <1>1, <1>2, Update2 DEF IInv, TypeOK
<1>6. TypeOK'
  BY <1>1, <1>3, <1>4, <1>5 DEF IInv, TypeOK, CycleState, clockVars, boundVars
<1>7. ExecutionFacts(c)'
  BY <1>1, <1>2, <1>3, <1>5 DEF ExecutionFacts
<1>8. OwnStep(c, s, o)
  BY <1>0, <1>1, <1>3 DEF OwnStep, Executing
<1>9. Elsewhere(s, o)
  BY <1>1, <1>4, <1>5 DEF Elsewhere
<1>10. SoundAfter(s, o)
  BY <1>1, <1>2, <1>4 DEF SoundAfter
<1>11. QED
  BY <1>6, <1>7, <1>8, <1>9, <1>10, ExecutionFrame

LEMMA BuildReportStep ==
  ASSUME IInv, NEW c \in Cycles, BuildReport(c)
  PROVE  IInv'
<1>0. PICK s \in Schedules, o \in Days :
        cycle[c].on = s /\ cycle[c].occ = o /\ o \in taken[s]
  BY OnFacts DEF BuildReport, Mark, Go, Executing
<1>1. /\ cycle[c].pc = "build" /\ Goto(c, "dispatch")
      /\ report' = [report EXCEPT ![s][o] = "COMPLETED"]
      /\ UNCHANGED <<clockVars, sched, rows, delivery, sent, first, taken, faulted, boundVars>>
  BY <1>0 DEF BuildReport, Go
<1>2. /\ o \in taken[s] /\ delivery[s][o] = "NONE" /\ sent[s][o] = 0 /\ rows[s][o] <= 1
  BY <1>0, <1>1 DEF Executing, IInv, ExecutionInv, ExecutionFacts, OnceAnOccurrence
<1>3. /\ cycle' \in [Cycles -> CycleState(now, day)] /\ cycle'[c].pc = "dispatch"
      /\ cycle'[c].at = cycle[c].at /\ cycle'[c].on = s /\ cycle'[c].occ = o
      /\ \A d \in Cycles : d # c => cycle'[d] = cycle[d]
  BY <1>0, <1>1, GotoFacts DEF Steps, Executing
<1>4. /\ report' \in [Schedules -> [Days -> {"NONE", "PENDING", "COMPLETED", "FAILED"}]]
      /\ report'[s][o] = "COMPLETED"
      /\ \A t \in Schedules, d \in Days : t # s \/ d # o => report'[t][d] = report[t][d]
  BY <1>1, <1>2, Update2 DEF IInv, TypeOK
<1>5. TypeOK'
  BY <1>1, <1>3, <1>4 DEF IInv, TypeOK, CycleState, clockVars, boundVars
<1>6. ExecutionFacts(c)'
  BY <1>1, <1>2, <1>3, <1>4 DEF ExecutionFacts
<1>7. OwnStep(c, s, o)
  BY <1>0, <1>1, <1>3 DEF OwnStep, Executing
<1>8. Elsewhere(s, o)
  BY <1>1, <1>4 DEF Elsewhere
<1>9. SoundAfter(s, o)
  BY <1>1, <1>2, <1>4 DEF SoundAfter
<1>10. QED
  BY <1>5, <1>6, <1>7, <1>8, <1>9, ExecutionFrame

LEMMA DispatchStep ==
  ASSUME IInv, NEW c \in Cycles, DispatchReportDelivery(c)
  PROVE  IInv'
<1>0. PICK s \in Schedules, o \in Days :
        cycle[c].on = s /\ cycle[c].occ = o /\ o \in taken[s]
  BY OnFacts DEF DispatchReportDelivery, Mark, Go, Executing
<1>1. /\ cycle[c].pc = "dispatch" /\ Goto(c, "send")
      /\ delivery' = [delivery EXCEPT ![s][o] = "PENDING"]
      /\ UNCHANGED <<clockVars, sched, rows, report, sent, first, taken, faulted, boundVars>>
  BY <1>0 DEF DispatchReportDelivery, Go
<1>2. /\ o \in taken[s] /\ delivery[s][o] = "NONE" /\ sent[s][o] = 0 /\ rows[s][o] <= 1
      /\ report[s][o] = "COMPLETED"
  BY <1>0, <1>1 DEF Executing, IInv, ExecutionInv, ExecutionFacts, OnceAnOccurrence
<1>3. /\ cycle' \in [Cycles -> CycleState(now, day)] /\ cycle'[c].pc = "send"
      /\ cycle'[c].at = cycle[c].at /\ cycle'[c].on = s /\ cycle'[c].occ = o
      /\ \A d \in Cycles : d # c => cycle'[d] = cycle[d]
  BY <1>0, <1>1, GotoFacts DEF Steps, Executing
<1>4. /\ delivery' \in [Schedules -> [Days -> {"NONE", "PENDING", "SENT", "FAILED"}]]
      /\ delivery'[s][o] = "PENDING"
      /\ \A t \in Schedules, d \in Days : t # s \/ d # o => delivery'[t][d] = delivery[t][d]
  BY <1>1, <1>2, Update2 DEF IInv, TypeOK
<1>5. TypeOK'
  BY <1>1, <1>3, <1>4 DEF IInv, TypeOK, CycleState, clockVars, boundVars
<1>6. ExecutionFacts(c)'
  BY <1>1, <1>2, <1>3, <1>4 DEF ExecutionFacts
<1>7. OwnStep(c, s, o)
  BY <1>0, <1>1, <1>3 DEF OwnStep, Executing
<1>8. Elsewhere(s, o)
  BY <1>1, <1>4 DEF Elsewhere
<1>9. SoundAfter(s, o)
  BY <1>1, <1>2, <1>4 DEF SoundAfter
<1>10. QED
  BY <1>5, <1>6, <1>7, <1>8, <1>9, ExecutionFrame

LEMMA SendStep ==
  ASSUME IInv, NEW c \in Cycles, Send(c)
  PROVE  IInv'
<1>0. PICK s \in Schedules, o \in Days :
        cycle[c].on = s /\ cycle[c].occ = o /\ o \in taken[s]
  BY OnFacts DEF Send, Mark, Go, Executing
<1>1. PICK to \in {"markSent", "markFailed"} :
        /\ cycle[c].pc = "send" /\ Goto(c, to)
        /\ \/ sent' = [sent EXCEPT ![s][o] = sent[s][o] + 1]
           \/ to = "markFailed" /\ sent' = sent
  BY <1>0 DEF Send, Go
<1>2. UNCHANGED <<clockVars, sched, rows, report, delivery, first, taken, faulted, boundVars>>
  BY DEF Send
<1>3. /\ o \in taken[s] /\ delivery[s][o] = "PENDING" /\ sent[s][o] = 0 /\ rows[s][o] <= 1
      /\ report[s][o] = "COMPLETED"
  BY <1>0, <1>1 DEF Executing, IInv, ExecutionInv, ExecutionFacts, OnceAnOccurrence
<1>4. /\ cycle' \in [Cycles -> CycleState(now, day)] /\ cycle'[c].pc = to
      /\ cycle'[c].at = cycle[c].at /\ cycle'[c].on = s /\ cycle'[c].occ = o
      /\ \A d \in Cycles : d # c => cycle'[d] = cycle[d]
  BY <1>0, <1>1, GotoFacts DEF Steps, Executing
<1>5. /\ sent' \in [Schedules -> [Days -> Nat]] /\ sent'[s][o] <= 1
      /\ to = "markSent" => sent'[s][o] = 1
      /\ \A t \in Schedules, d \in Days : t # s \/ d # o => sent'[t][d] = sent[t][d]
  <2>1. sent \in [Schedules -> [Days -> Nat]] /\ sent[s][o] + 1 = 1
    BY <1>3 DEF IInv, TypeOK
  <2>2. CASE sent' = [sent EXCEPT ![s][o] = 1]
    BY <1>3, <2>1, <2>2, Update2
  <2>3. CASE to = "markFailed" /\ sent' = sent
    BY <1>3, <2>1, <2>3
  <2>4. QED
    BY <1>1, <2>1, <2>2, <2>3
<1>6. TypeOK'
  BY <1>2, <1>4, <1>5 DEF IInv, TypeOK, CycleState, clockVars, boundVars
<1>7. ExecutionFacts(c)'
  BY <1>1, <1>2, <1>3, <1>4, <1>5 DEF ExecutionFacts
<1>8. OwnStep(c, s, o)
  BY <1>0, <1>1, <1>2, <1>4 DEF OwnStep, Executing
<1>9. Elsewhere(s, o)
  BY <1>2, <1>5 DEF Elsewhere
<1>10. SoundAfter(s, o)
  BY <1>2, <1>3, <1>5 DEF SoundAfter
<1>11. QED
  BY <1>6, <1>7, <1>8, <1>9, <1>10, ExecutionFrame

LEMMA MarkStep ==
  ASSUME IInv, NEW c \in Cycles, MarkSent(c) \/ MarkFailed(c)
  PROVE  IInv'
<1>0. PICK s \in Schedules, o \in Days :
        cycle[c].on = s /\ cycle[c].occ = o /\ o \in taken[s]
  BY OnFacts DEF MarkSent, MarkFailed, Mark, Go, Executing
<1>1. PICK status \in {"SENT", "FAILED"} :
        /\ cycle[c].pc \in {"markSent", "markFailed"}
        /\ Goto(c, "finish")
        /\ (status = "SENT" => cycle[c].pc = "markSent")
        /\ delivery' = [delivery EXCEPT ![s][o] = status]
  <2>1. CASE MarkSent(c)
    BY <1>0, <2>1 DEF MarkSent, Mark, Go
  <2>2. CASE MarkFailed(c)
    BY <1>0, <2>2 DEF MarkFailed, Mark, Go
  <2>3. QED
    BY <2>1, <2>2
<1>2. UNCHANGED <<clockVars, sched, rows, report, sent, first, taken, faulted, boundVars>>
  BY <1>0 DEF MarkSent, MarkFailed, Mark
<1>3. /\ o \in taken[s] /\ sent[s][o] <= 1 /\ rows[s][o] <= 1
      /\ report[s][o] = "COMPLETED"
      /\ (status = "SENT" => sent[s][o] = 1)
  BY <1>0, <1>1 DEF Executing, IInv, ExecutionInv, ExecutionFacts, OnceAnOccurrence
<1>4. /\ cycle' \in [Cycles -> CycleState(now, day)] /\ cycle'[c].pc = "finish"
      /\ cycle'[c].at = cycle[c].at /\ cycle'[c].on = s /\ cycle'[c].occ = o
      /\ \A d \in Cycles : d # c => cycle'[d] = cycle[d]
  BY <1>0, <1>1, GotoFacts DEF Steps, Executing
<1>5. /\ delivery' \in [Schedules -> [Days -> {"NONE", "PENDING", "SENT", "FAILED"}]]
      /\ delivery'[s][o] = status
      /\ \A t \in Schedules, d \in Days : t # s \/ d # o => delivery'[t][d] = delivery[t][d]
  BY <1>1, <1>3, Update2 DEF IInv, TypeOK
<1>6. TypeOK'
  BY <1>2, <1>4, <1>5 DEF IInv, TypeOK, CycleState, clockVars, boundVars
<1>7. ExecutionFacts(c)'
  BY <1>1, <1>2, <1>3, <1>4, <1>5 DEF ExecutionFacts
<1>8. OwnStep(c, s, o)
  BY <1>0, <1>1, <1>2, <1>4 DEF OwnStep, Executing
<1>9. Elsewhere(s, o)
  BY <1>2, <1>5 DEF Elsewhere
<1>10. SoundAfter(s, o)
  BY <1>1, <1>2, <1>3, <1>5 DEF SoundAfter
<1>11. QED
  BY <1>6, <1>7, <1>8, <1>9, <1>10, ExecutionFrame

-----------------------------------------------------------------------------
(* The end of an execution, and its exceptions. *)

LEMMA ReleaseFacts ==
  ASSUME IInv, NEW c \in Cycles, cycle[c].pc \in Executing,
         NEW status \in {"COMPLETED", "FAILED"}, Release(c, status)
  PROVE  /\ sched' \in [Schedules -> Row]
         /\ \A t \in Schedules :
              /\ sched'[t].next = sched[t].next /\ sched'[t].enabled = sched[t].enabled
              /\ \/ sched'[t] = sched[t]
                 \/ /\ t = cycle[c].on /\ sched[t].claim = c
                    /\ sched'[t].claim = NoCycle /\ sched'[t].last = status
<1> DEFINE s == cycle[c].on
           row == [sched[s] EXCEPT !.last = status, !.claim = NoCycle, !.until = NoLease]
<1>1. s \in Schedules /\ sched \in [Schedules -> Row] /\ sched[s] \in Row
  BY OnFacts DEF IInv, TypeOK, Row
<1>2. /\ row \in Row /\ row.next = sched[s].next /\ row.enabled = sched[s].enabled
      /\ row.claim = NoCycle /\ row.last = status
  BY <1>1 DEF Row
<1>3. sched' = IF sched[s].claim = c THEN [sched EXCEPT ![s] = row] ELSE sched
  BY DEF Release
<1> HIDE DEF s, row
<1>4. CASE sched[s].claim = c
  BY <1>1, <1>2, <1>3, <1>4 DEF s
<1>5. CASE sched[s].claim # c
  BY <1>1, <1>3, <1>5 DEF s
<1>6. QED
  BY <1>4, <1>5

\* An execution ends, or fails, or its cycle dies.
LEMMA ReleaseFrame ==
  ASSUME IInv, NEW c \in Cycles, cycle[c].pc \in Executing,
         NEW status \in {"COMPLETED", "FAILED"}, Release(c, status) \/ UNCHANGED sched,
         status = "COMPLETED" => cycle[c].pc = "finish",
         status = "FAILED" => <<cycle[c].on, cycle[c].occ>> \in faulted',
         \/ cycle'[c].pc \notin Executing
         \/ /\ cycle'[c].pc = "fail" /\ cycle'[c].at = cycle[c].at
            /\ cycle'[c].on = cycle[c].on /\ cycle'[c].occ = cycle[c].occ
            /\ <<cycle[c].on, cycle[c].occ>> \in faulted',
         \/ report[cycle[c].on][cycle[c].occ] = "COMPLETED"
         \/ <<cycle[c].on, cycle[c].occ>> \in faulted',
         \A d \in Cycles : d # c => cycle'[d] = cycle[d],
         UNCHANGED <<clockVars, outVars, first, taken>>, faulted \subseteq faulted',
         TypeOK'
  PROVE  IInv'
<1> DEFINE s == cycle[c].on
           o == cycle[c].occ
<1>1. s \in Schedules /\ o \in taken[s] /\ o \in Days
  BY OnFacts
<1>2. \A t \in Schedules :
        /\ sched'[t].next = sched[t].next /\ sched'[t].enabled = sched[t].enabled
        /\ \/ sched'[t] = sched[t]
           \/ /\ t = s /\ sched[t].claim = c
              /\ sched'[t].claim = NoCycle /\ sched'[t].last = status
  BY ReleaseFacts
<1>3. ScheduleInv' /\ UntakenInv' /\ WindowInv' /\ WindowsTile' /\ OnceAnOccurrence'
  <2>1. ScheduleInv'
    BY <1>2 DEF IInv, ScheduleInv
  <2>2. WindowInv' /\ WindowsTile'
    BY <1>2 DEF IInv, WindowInv, WindowsTile
  <2>3. UntakenInv' /\ OnceAnOccurrence'
    BY DEF IInv, UntakenInv, OnceAnOccurrence, outVars
  <2>4. QED
    BY <2>1, <2>2, <2>3
<1>4. ExecutionInv'
  <2>1. ASSUME NEW d \in Cycles, d # c PROVE ExecutionFacts(d)'
    <3>1. cycle'[d] = cycle[d] /\ UNCHANGED <<rows, report, delivery, sent, taken>>
      BY <2>1 DEF outVars
    <3>2. ExecutionFacts(d)
      BY DEF IInv, ExecutionInv
    <3>3. QED
      BY <3>1, <3>2 DEF ExecutionFacts
  <2>2. CASE cycle'[c].pc \notin Executing
    BY <2>1, <2>2 DEF ExecutionInv, ExecutionFacts, Executing
  <2>3. CASE cycle'[c].pc = "fail"
    <3>1. /\ cycle'[c].on = s /\ cycle'[c].occ = o /\ <<s, o>> \in faulted'
      BY <2>3 DEF Executing
    <3>2. ExecutionFacts(c)'
      BY <1>1, <2>3, <3>1 DEF ExecutionFacts
    <3>3. QED
      BY <2>1, <3>2 DEF ExecutionInv
  <2>4. QED
    BY <2>2, <2>3
<1>5. UniqueInv'
  BY DEF IInv, UniqueInv
<1>6. NothingDropped'
  <2>1. ASSUME NEW t \in Schedules, NEW q \in taken[t] PROVE Accounted(t, q)'
    <3>1. CASE t = s /\ q = o
      BY <3>1 DEF Accounted, outVars
    <3>2. CASE t # s \/ q # o
      <4>1. \A d \in Cycles : cycle[d].on = t /\ cycle[d].occ = q => cycle'[d] = cycle[d]
        BY <3>2
      <4>2. Accounted(t, q)
        BY DEF IInv, NothingDropped
      <4>3. UNCHANGED report
        BY DEF outVars
      <4> HIDE DEF s, o
      <4>4. QED
        BY <4>1, <4>2, <4>3 DEF Accounted
    <3>3. QED
      BY <3>1, <3>2
  <2>2. QED
    BY <2>1 DEF NothingDropped
<1>7. sched[s].claim = c => Latest(s, o)
  BY DEF IInv, LeaseInv
<1>8. LeaseInv'
  <2>1. ASSUME NEW d \in Cycles, cycle'[d].pc \in Executing
        PROVE  /\ sched'[cycle'[d].on].claim = d =>
                    /\ sched'[cycle'[d].on].until = cycle'[d].at + Lease
                    /\ Latest(cycle'[d].on, cycle'[d].occ)
               /\ \/ sched'[cycle'[d].on].claim = d
                  \/ now > cycle'[d].at + Lease
                  \/ cycle'[d].pc = "fail"
    <3>1. /\ cycle'[d].on = cycle[d].on /\ cycle'[d].at = cycle[d].at
          /\ cycle'[d].occ = cycle[d].occ /\ cycle[d].pc \in Executing
          /\ d = c => cycle'[d].pc = "fail"
          /\ cycle[d].pc = "fail" => cycle'[d].pc = "fail"
      BY <2>1
    <3>2. cycle[d].on \in Schedules
      BY <3>1, OnFacts
    <3>3. sched'[cycle[d].on].claim = d => sched'[cycle[d].on] = sched[cycle[d].on]
      BY <1>2, <3>2, ReportsAssumption
    <3>4. sched[cycle[d].on].claim = d => sched'[cycle[d].on].claim = d \/ d = c
      BY <1>2, <3>2
    <3>5. QED
      BY <3>1, <3>3, <3>4 DEF IInv, LeaseInv
  <2>2. QED
    BY <2>1 DEF LeaseInv, Latest, clockVars
<1>9. StatusIsOfLatest'
  <2>1. ASSUME NEW t \in Schedules, NEW q \in taken[t], Latest(t, q)
        PROVE  /\ sched'[t].last = "COMPLETED" =>
                    report[t][q] = "COMPLETED" /\ delivery[t][q] \in {"SENT", "FAILED"}
               /\ sched'[t].last = "FAILED" => <<t, q>> \in faulted'
    <3>1. CASE sched'[t] = sched[t]
      BY <2>1, <3>1 DEF IInv, StatusIsOfLatest
    <3>2. CASE t = s /\ sched[t].claim = c /\ sched'[t].last = status
      <4>1. q = o
        <5>1. Latest(t, o) /\ taken[t] \subseteq Int
          BY <1>7, <3>2, DaysFacts DEF IInv, TypeOK
        <5>2. o <= q /\ q <= o /\ o \in Int /\ q \in Int
          BY <2>1, <5>1 DEF Latest
        <5>3. QED
          BY <5>2
      <4>2. CASE status = "COMPLETED"
        BY <3>2, <4>1, <4>2 DEF IInv, ExecutionInv, ExecutionFacts
      <4>3. CASE status = "FAILED"
        BY <3>2, <4>1, <4>3
      <4>4. QED
        BY <4>2, <4>3
    <3>3. QED
      BY <1>2, <3>1, <3>2
  <2>2. QED
    BY <2>1 DEF StatusIsOfLatest, Latest, outVars
<1>10. QED
  BY <1>3, <1>4, <1>5, <1>6, <1>8, <1>9 DEF IInv

LEMMA EndExecutionStep ==
  ASSUME IInv, NEW c \in Cycles, Complete(c) \/ Fail(c)
  PROVE  IInv'
<1>1. PICK status \in {"COMPLETED", "FAILED"} :
        /\ cycle[c].pc = IF status = "COMPLETED" THEN "finish" ELSE "fail"
        /\ Release(c, status)
  <2>1. CASE Complete(c)
    BY <2>1 DEF Complete
  <2>2. CASE Fail(c)
    BY <2>2 DEF Fail
  <2>3. QED
    BY <2>1, <2>2
<1>2. Continue(c) /\ UNCHANGED <<clockVars, outVars, first, taken, faulted, boundVars>>
  BY DEF Complete, Fail
<1>3. cycle[c].pc \in Executing
  BY <1>1 DEF Executing
<1>4. /\ cycle' \in [Cycles -> CycleState(now, day)] /\ cycle'[c].pc \notin Executing
      /\ \A d \in Cycles : d # c => cycle'[d] = cycle[d]
  BY <1>2, ContinueFacts DEF Executing
<1>5. /\ status = "COMPLETED" => report[cycle[c].on][cycle[c].occ] = "COMPLETED"
      /\ status = "FAILED" => <<cycle[c].on, cycle[c].occ>> \in faulted
  BY <1>1 DEF IInv, ExecutionInv, ExecutionFacts
<1>6. \/ report[cycle[c].on][cycle[c].occ] = "COMPLETED"
      \/ <<cycle[c].on, cycle[c].occ>> \in faulted'
  BY <1>2, <1>5
<1>7. TypeOK'
  <2>1. sched' \in [Schedules -> Row]
    BY <1>1, <1>3, ReleaseFacts
  <2>2. QED
    BY <1>2, <1>4, <2>1 DEF IInv, TypeOK, CycleState, Row, clockVars, outVars, boundVars
<1>8. QED
  BY <1>1, <1>2, <1>3, <1>4, <1>5, <1>6, <1>7, ReleaseFrame

\* What a fault records.
LEMMA FaultFacts ==
  ASSUME IInv, NEW c \in Cycles, Fault(c), UNCHANGED toggles
  PROVE  /\ faults' \in 0..MaxFaults /\ toggles' \in 0..MaxToggles
         /\ faulted' \subseteq Schedules \X Days /\ faulted \subseteq faulted'
         /\ cycle[c].pc \in Executing => <<cycle[c].on, cycle[c].occ>> \in faulted'
         /\ cycle[c].pc \notin Executing => faulted' = faulted
<1>1. faults' \in 0..MaxFaults /\ toggles' \in 0..MaxToggles
  BY ReportsAssumption DEF IInv, TypeOK, Fault
<1>2. CASE cycle[c].pc \in Executing
  <2>1. cycle[c].on \in Schedules /\ cycle[c].occ \in Days
    BY <1>2, OnFacts
  <2>2. QED
    BY <1>1, <1>2, <2>1 DEF IInv, TypeOK, Fault
<1>3. CASE cycle[c].pc \notin Executing
  BY <1>1, <1>3 DEF IInv, TypeOK, Fault
<1>4. QED
  BY <1>2, <1>3

\* An exception that fails the execution and changes no row.
LEMMA StepThrowsStep ==
  ASSUME IInv, NEW c \in Cycles, StepThrows(c)
  PROVE  IInv'
<1>1. /\ cycle[c].pc \in {"create", "dispatch", "send", "markFailed"}
      /\ Goto(c, "fail") /\ Fault(c)
      /\ UNCHANGED <<clockVars, sched, outVars, first, taken, toggles>>
  BY DEF StepThrows, Throw, outVars
<1>2. cycle[c].pc \in Executing
  BY <1>1 DEF Executing
<1>3. /\ cycle' \in [Cycles -> CycleState(now, day)] /\ cycle'[c].pc = "fail"
      /\ cycle'[c].at = cycle[c].at
      /\ cycle'[c].on = cycle[c].on /\ cycle'[c].occ = cycle[c].occ
      /\ \A d \in Cycles : d # c => cycle'[d] = cycle[d]
  BY <1>1, GotoFacts DEF Steps, Executing
<1>4. /\ faults' \in 0..MaxFaults /\ toggles' \in 0..MaxToggles
      /\ faulted' \subseteq Schedules \X Days /\ faulted \subseteq faulted'
      /\ <<cycle[c].on, cycle[c].occ>> \in faulted'
  BY <1>1, <1>2, FaultFacts
<1>5. TypeOK'
  BY <1>1, <1>3, <1>4 DEF IInv, TypeOK, CycleState, clockVars, outVars
<1>6. QED
  BY <1>1, <1>2, <1>3, <1>4, <1>5, ReleaseFrame

LEMMA MarkSentThrowsStep ==
  ASSUME IInv, NEW c \in Cycles, MarkSentThrows(c)
  PROVE  IInv'
<1>0. PICK s \in Schedules, o \in Days :
        cycle[c].on = s /\ cycle[c].occ = o /\ o \in taken[s]
  BY OnFacts DEF MarkSentThrows, Mark, Go, Executing
<1>1. /\ cycle[c].pc = "markSent" /\ Goto(c, "markFailed") /\ Fault(c)
      /\ delivery' = [delivery EXCEPT ![s][o] = "SENT"] \/ UNCHANGED delivery
      /\ UNCHANGED <<clockVars, sched, rows, report, sent, first, taken, toggles>>
  BY <1>0 DEF MarkSentThrows, Throw, Go
<1>2. /\ o \in taken[s] /\ delivery[s][o] = "PENDING" /\ sent[s][o] = 1 /\ rows[s][o] <= 1
      /\ report[s][o] = "COMPLETED"
  BY <1>0, <1>1 DEF Executing, IInv, ExecutionInv, ExecutionFacts, OnceAnOccurrence
<1>3. /\ cycle' \in [Cycles -> CycleState(now, day)] /\ cycle'[c].pc = "markFailed"
      /\ cycle'[c].at = cycle[c].at /\ cycle'[c].on = s /\ cycle'[c].occ = o
      /\ \A d \in Cycles : d # c => cycle'[d] = cycle[d]
  BY <1>0, <1>1, GotoFacts DEF Steps, Executing
<1>4. /\ faults' \in 0..MaxFaults /\ toggles' \in 0..MaxToggles
      /\ faulted' \subseteq Schedules \X Days /\ faulted \subseteq faulted'
  BY <1>0, <1>1, FaultFacts
<1>5. /\ delivery' \in [Schedules -> [Days -> {"NONE", "PENDING", "SENT", "FAILED"}]]
      /\ \A t \in Schedules, d \in Days : t # s \/ d # o => delivery'[t][d] = delivery[t][d]
  <2>1. delivery \in [Schedules -> [Days -> {"NONE", "PENDING", "SENT", "FAILED"}]]
    BY DEF IInv, TypeOK
  <2>2. CASE delivery' = [delivery EXCEPT ![s][o] = "SENT"]
    BY <1>2, <2>1, <2>2, Update2
  <2>3. QED
    BY <1>1, <2>1, <2>2
<1>6. TypeOK'
  BY <1>1, <1>3, <1>4, <1>5 DEF IInv, TypeOK, CycleState, clockVars
<1>7. ExecutionFacts(c)'
  BY <1>1, <1>2, <1>3 DEF ExecutionFacts
<1>8. OwnStep(c, s, o)
  BY <1>0, <1>1, <1>3, <1>4 DEF OwnStep, Executing
<1>9. Elsewhere(s, o)
  BY <1>1, <1>5 DEF Elsewhere
<1>10. SoundAfter(s, o)
  BY <1>1, <1>2 DEF SoundAfter
<1>11. QED
  BY <1>6, <1>7, <1>8, <1>9, <1>10, ExecutionFrame

LEMMA BuildThrowsStep ==
  ASSUME IInv, NEW c \in Cycles, BuildThrows(c)
  PROVE  IInv'
<1>0. PICK s \in Schedules, o \in Days :
        cycle[c].on = s /\ cycle[c].occ = o /\ o \in taken[s]
  BY OnFacts DEF BuildThrows, Mark, Go, Executing
<1>1. /\ cycle[c].pc = "build" /\ Goto(c, "fail") /\ Fault(c)
      /\ report' = [report EXCEPT ![s][o] = "FAILED"] \/ UNCHANGED report
      /\ UNCHANGED <<clockVars, sched, rows, delivery, sent, first, taken, toggles>>
  BY <1>0 DEF BuildThrows, Throw, Go
<1>2. /\ o \in taken[s] /\ delivery[s][o] = "NONE" /\ sent[s][o] = 0 /\ rows[s][o] <= 1
  BY <1>0, <1>1 DEF Executing, IInv, ExecutionInv, ExecutionFacts, OnceAnOccurrence
<1>3. /\ cycle' \in [Cycles -> CycleState(now, day)] /\ cycle'[c].pc = "fail"
      /\ cycle'[c].at = cycle[c].at /\ cycle'[c].on = s /\ cycle'[c].occ = o
      /\ \A d \in Cycles : d # c => cycle'[d] = cycle[d]
  BY <1>0, <1>1, GotoFacts DEF Steps, Executing
<1>4. /\ faults' \in 0..MaxFaults /\ toggles' \in 0..MaxToggles
      /\ faulted' \subseteq Schedules \X Days /\ faulted \subseteq faulted'
      /\ <<s, o>> \in faulted'
  BY <1>0, <1>1, FaultFacts DEF Executing
<1>5. /\ report' \in [Schedules -> [Days -> {"NONE", "PENDING", "COMPLETED", "FAILED"}]]
      /\ \A t \in Schedules, d \in Days : t # s \/ d # o => report'[t][d] = report[t][d]
  <2>1. report \in [Schedules -> [Days -> {"NONE", "PENDING", "COMPLETED", "FAILED"}]]
    BY DEF IInv, TypeOK
  <2>2. CASE report' = [report EXCEPT ![s][o] = "FAILED"]
    BY <1>2, <2>1, <2>2, Update2
  <2>3. QED
    BY <1>1, <2>1, <2>2
<1>6. TypeOK'
  BY <1>1, <1>3, <1>4, <1>5 DEF IInv, TypeOK, CycleState, clockVars
<1>7. ExecutionFacts(c)'
  BY <1>1, <1>2, <1>3, <1>4 DEF ExecutionFacts
<1>8. OwnStep(c, s, o)
  BY <1>0, <1>1, <1>3, <1>4 DEF OwnStep, Executing
<1>9. Elsewhere(s, o)
  BY <1>1, <1>5 DEF Elsewhere
<1>10. SoundAfter(s, o)
  BY <1>1, <1>2 DEF SoundAfter
<1>11. QED
  BY <1>6, <1>7, <1>8, <1>9, <1>10, ExecutionFrame

LEMMA CompleteThrowsStep ==
  ASSUME IInv, NEW c \in Cycles, CompleteThrows(c)
  PROVE  IInv'
<1>1. /\ cycle[c].pc = "finish" /\ Goto(c, "fail") /\ Fault(c)
      /\ Release(c, "COMPLETED") \/ UNCHANGED sched
      /\ UNCHANGED <<clockVars, outVars, first, taken, toggles>>
  BY DEF CompleteThrows, Throw, Go, outVars
<1>2. cycle[c].pc \in Executing
  BY <1>1 DEF Executing
<1>3. /\ cycle' \in [Cycles -> CycleState(now, day)] /\ cycle'[c].pc = "fail"
      /\ cycle'[c].at = cycle[c].at
      /\ cycle'[c].on = cycle[c].on /\ cycle'[c].occ = cycle[c].occ
      /\ \A d \in Cycles : d # c => cycle'[d] = cycle[d]
  BY <1>1, GotoFacts DEF Steps, Executing
<1>4. /\ faults' \in 0..MaxFaults /\ toggles' \in 0..MaxToggles
      /\ faulted' \subseteq Schedules \X Days /\ faulted \subseteq faulted'
      /\ <<cycle[c].on, cycle[c].occ>> \in faulted'
  BY <1>1, <1>2, FaultFacts
<1>5. sched' \in [Schedules -> Row]
  BY <1>1, <1>2, ReleaseFacts DEF IInv, TypeOK, Row
<1>6. TypeOK'
  BY <1>1, <1>3, <1>4, <1>5 DEF IInv, TypeOK, CycleState, Row, clockVars, outVars
<1>7. QED
  BY <1>1, <1>2, <1>3, <1>4, <1>6, ReleaseFrame

LEMMA DieStep ==
  ASSUME IInv, NEW c \in Cycles, CycleDies(c)
  PROVE  IInv'
<1>1. /\ Fault(c) /\ cycle' = [cycle EXCEPT ![c] = Idle]
      /\ UNCHANGED <<clockVars, sched, outVars, first, taken, toggles>>
  BY DEF CycleDies
<1>2. /\ cycle' \in [Cycles -> CycleState(now, day)] /\ cycle'[c].pc \notin Executing
      /\ \A d \in Cycles : d # c => cycle'[d] = cycle[d]
  BY <1>1, IdleState, CycleUpdate DEF Idle, Executing
<1>3. /\ faults' \in 0..MaxFaults /\ toggles' \in 0..MaxToggles
      /\ faulted' \subseteq Schedules \X Days /\ faulted \subseteq faulted'
      /\ cycle[c].pc \in Executing => <<cycle[c].on, cycle[c].occ>> \in faulted'
      /\ cycle[c].pc \notin Executing => faulted' = faulted
  BY <1>1, FaultFacts
<1>4. TypeOK'
  BY <1>1, <1>2, <1>3 DEF IInv, TypeOK, CycleState, clockVars, outVars
<1>5. CASE cycle[c].pc \in Executing
  BY <1>1, <1>2, <1>3, <1>4, <1>5, ReleaseFrame
<1>6. CASE cycle[c].pc \notin Executing
  BY <1>1, <1>2, <1>3, <1>4, <1>6, CycleFrame
<1>7. QED
  BY <1>5, <1>6

LEMMA NextIInv == IInv /\ [Next]_vars => IInv'
<1> SUFFICES ASSUME IInv, [Next]_vars PROVE IInv'
  OBVIOUS
<1>1. CASE Tick
  BY <1>1, TickStep
<1>2. ASSUME NEW s \in Schedules, CreateScheduledReport(s) PROVE IInv'
  BY <1>2, CreateStep
<1>3. ASSUME NEW s \in Schedules, NEW flag \in BOOLEAN, SetScheduledReportEnabled(s, flag)
      PROVE  IInv'
  BY <1>3, EnableStep
<1>4. ASSUME NEW c \in Cycles, CycleStep(c) PROVE IInv'
  <2>1. CASE StartCycle(c)
    BY <2>1, StartStep
  <2>2. CASE ReadDue(c)
    BY <2>2, ReadStep
  <2>3. CASE Claim(c)
    BY <2>3, ClaimStep
  <2>4. CASE EndCycle(c)
    BY <2>4, EndStep
  <2>5. CASE CreateReport(c)
    BY <2>5, CreateReportStep
  <2>6. CASE BuildReport(c)
    BY <2>6, BuildReportStep
  <2>7. CASE DispatchReportDelivery(c)
    BY <2>7, DispatchStep
  <2>8. CASE Send(c)
    BY <2>8, SendStep
  <2>9. CASE MarkSent(c) \/ MarkFailed(c)
    BY <2>9, MarkStep
  <2>10. CASE Complete(c) \/ Fail(c)
    BY <2>10, EndExecutionStep
  <2>11. QED
    BY <1>4, <2>1, <2>2, <2>3, <2>4, <2>5, <2>6, <2>7, <2>8, <2>9, <2>10
       DEF CycleStep, ExecutionStep
<1>5. ASSUME NEW c \in Cycles, StepThrows(c) \/ MarkSentThrows(c) PROVE IInv'
  BY <1>5, StepThrowsStep, MarkSentThrowsStep
<1>6. ASSUME NEW c \in Cycles, BuildThrows(c) PROVE IInv'
  BY <1>6, BuildThrowsStep
<1>7. ASSUME NEW c \in Cycles, CompleteThrows(c) PROVE IInv'
  BY <1>7, CompleteThrowsStep
<1>8. ASSUME NEW c \in Cycles, CycleDies(c) PROVE IInv'
  BY <1>8, DieStep
<1>9. CASE UNCHANGED vars
  <2>1. UNCHANGED <<clockVars, sched, cycle, outVars, first, taken, faulted, boundVars>>
    BY <1>9 DEF vars
  <2>2. TypeOK'
    BY <2>1 DEF IInv, TypeOK, clockVars, outVars, boundVars
  <2>3. ExecutionInv' /\ UniqueInv' /\ NothingDropped'
    BY <2>1 DEF IInv, outVars, ExecutionInv, ExecutionFacts, UniqueInv, NothingDropped,
       Accounted, Executing
  <2>4. LeaseInv'
    BY <2>1 DEF IInv, LeaseInv, Latest, clockVars
  <2>5. QED
    BY <2>1, <2>2, <2>3, <2>4, RowsFrame DEF IInv
<1>10. QED
  BY <1>1, <1>2, <1>3, <1>4, <1>5, <1>6, <1>7, <1>8, <1>9 DEF Next

LEMMA Invariance == Spec => []IInv
BY InitIInv, NextIInv, PTL DEF Spec

\* The rows, deliveries, claims and cycles always have the values of the schema.
THEOREM TypeCorrect == Spec => []TypeOK
<1>1. IInv => TypeOK
  BY DEF IInv
<1>2. QED
  BY <1>1, Invariance, PTL

\* One report and at most one message for each occurrence, for any number of
\* overlapping cycles, expired claims and exceptions.
THEOREM OnceAnOccurrenceHolds == Spec => []OnceAnOccurrence
<1>1. IInv => OnceAnOccurrence
  BY DEF IInv
<1>2. QED
  BY <1>1, Invariance, PTL

\* No day is reported twice or skipped, for any calendar and frequency.
THEOREM WindowsAlwaysTile == Spec => []WindowsTile
<1>1. IInv => WindowsTile
  BY DEF IInv
<1>2. QED
  BY <1>1, Invariance, PTL

\* An occurrence that was claimed and has no report is being executed, or its
\* execution threw or died.
THEOREM NothingIsDropped == Spec => []NothingDropped
<1>1. IInv => NothingDropped
  BY DEF IInv
<1>2. QED
  BY <1>1, Invariance, PTL

\* A late execution never overwrites the status of a later occurrence.
THEOREM StatusAlwaysOfLatest == Spec => []StatusIsOfLatest
<1>1. IInv => StatusIsOfLatest
  BY DEF IInv
<1>2. QED
  BY <1>1, Invariance, PTL

\* Two cycles work on one schedule at a time only after a lease has run out: both
\* cannot hold the claim, and one that has not failed and does not hold it has
\* outlived its lease.
THEOREM OverlapNeedsExpiry == Spec => []OverlapOnlyAfterLease
<1>1. IInv => OverlapOnlyAfterLease
  <2> SUFFICES ASSUME IInv, NEW c \in Cycles, NEW d \in Cycles, c # d,
                      cycle[c].pc \in Executing \ {"fail"}, cycle[d].pc \in Executing \ {"fail"},
                      cycle[c].on = cycle[d].on
               PROVE  now > cycle[c].at + Lease \/ now > cycle[d].at + Lease
    BY DEF OverlapOnlyAfterLease
  <2>1. sched[cycle[c].on].claim # c \/ sched[cycle[c].on].claim # d
    OBVIOUS
  <2>2. QED
    BY <2>1 DEF IInv, LeaseInv
<1>2. QED
  BY <1>1, Invariance, PTL

-----------------------------------------------------------------------------
(* Scheduled reporting implements ReportSchedule. *)

Switched == {s \in Schedules : sched[s].enabled}
NextOf == [s \in Schedules |-> sched[s].next]

\* The outcome of one occurrence, before a step and after it.
LEMMA OutcomeOf ==
  ASSUME NEW s \in Schedules, NEW d \in Days
  PROVE  /\ Outcome[s][d] = IF report[s][d] = "COMPLETED" THEN "reported"
                            ELSE IF d \in taken[s] THEN "taken" ELSE "none"
         /\ Outcome'[s][d] = IF report'[s][d] = "COMPLETED" THEN "reported"
                             ELSE IF d \in taken'[s] THEN "taken" ELSE "none"
BY DEF Outcome

LEMMA OutcomeType ==
  /\ Outcome \in [Schedules -> [Days -> {"none", "taken", "reported"}]]
  /\ Outcome' \in [Schedules -> [Days -> {"none", "taken", "reported"}]]
<1> DEFINE Value(r, in) == CASE r = "COMPLETED" -> "reported"
                             [] r # "COMPLETED" /\ in -> "taken"
                             [] OTHER -> "none"
<1>1. \A r, in : Value(r, in) \in {"none", "taken", "reported"}
  OBVIOUS
<1>2. /\ Outcome = [s \in Schedules |-> [d \in Days |-> Value(report[s][d], d \in taken[s])]]
      /\ Outcome' =
           [s \in Schedules |-> [d \in Days |-> Value(report'[s][d], d \in taken'[s])]]
  BY DEF Outcome
<1> HIDE DEF Value
<1>3. QED
  BY <1>1, <1>2

\* Two tables that differ at one place.
LEMMA UpdateIs ==
  ASSUME NEW S, NEW D, NEW T, NEW f \in [S -> [D -> T]], NEW g \in [S -> [D -> T]],
         NEW s \in S, NEW d \in D, NEW v \in T, g[s][d] = v,
         \A t \in S, e \in D : t # s \/ e # d => g[t][e] = f[t][e]
  PROVE  g = [f EXCEPT ![s][d] = v]
<1>1. [f EXCEPT ![s][d] = v] \in [S -> [D -> T]]
  OBVIOUS
<1>2. ASSUME NEW t \in S PROVE g[t] = [f EXCEPT ![s][d] = v][t]
  <2>1. CASE t = s
    <3>1. g[s] = [f[s] EXCEPT ![d] = v]
      OBVIOUS
    <3>2. QED
      BY <2>1, <3>1
  <2>2. CASE t # s
    <3>1. g[t] = f[t]
      BY <2>2
    <3>2. QED
      BY <2>2, <3>1
  <2>3. QED
    BY <2>1, <2>2
<1>3. QED
  BY <1>1, <1>2

\* The plan does not see a step that switches, moves, takes and finishes nothing.
LEMMA PlanFrame ==
  ASSUME UNCHANGED taken,
         \A s \in Schedules : /\ sched'[s].next = sched[s].next
                              /\ sched'[s].enabled = sched[s].enabled,
         \A s \in Schedules, d \in Days :
           report'[s][d] = "COMPLETED" <=> report[s][d] = "COMPLETED"
  PROVE  UNCHANGED <<Switched, NextOf, Outcome>>
<1>1. UNCHANGED <<Switched, NextOf>>
  BY DEF Switched, NextOf
<1>2. \A s \in Schedules, d \in Days :
        (report'[s][d] = "COMPLETED") = (report[s][d] = "COMPLETED")
  OBVIOUS
<1>3. Outcome' = Outcome
  <2>1. ASSUME NEW s \in Schedules
        PROVE  [d \in Days |->
                  CASE report'[s][d] = "COMPLETED" -> "reported"
                    [] report'[s][d] # "COMPLETED" /\ d \in taken[s] -> "taken"
                    [] OTHER -> "none"]
             = [d \in Days |->
                  CASE report[s][d] = "COMPLETED" -> "reported"
                    [] report[s][d] # "COMPLETED" /\ d \in taken[s] -> "taken"
                    [] OTHER -> "none"]
    BY <1>2
  <2>2. QED
    BY <2>1 DEF Outcome
<1>4. QED
  BY <1>1, <1>3

LEMMA PlanInit == Init => Plan!Init
<1> SUFFICES ASSUME Init PROVE Plan!Init
  OBVIOUS
<1>1. day \in Days
  BY DaysFacts DEF Init
<1>2. Switched = {} /\ NextOf = [s \in Schedules |-> 0]
  BY DEF Init, NoRow, Switched, NextOf
<1>3. Outcome = [s \in Schedules |-> [d \in Days |-> "none"]]
  BY DEF Init, Outcome
<1>4. QED
  BY <1>1, <1>2, <1>3 DEF Plan!Init, Switched, NextOf

LEMMA PlanTake ==
  ASSUME IInv, NEW c \in Cycles, Claim(c)
  PROVE  \/ \E s \in Schedules : Plan!Take(s)
         \/ UNCHANGED <<day, Switched, NextOf, Outcome>>
<1>1. PICK p \in cycle[c].list :
        LET s == p[1]
            o == p[2]
            list == cycle[c].list \ {p}
        IN
        \/ Claimable(c, s, o) /\ Execute(c, s, o, list)
        \/ UNCHANGED <<sched, taken>>
  BY DEF Claim
<1>2. UNCHANGED <<day, report>>
  BY DEF Claim, clockVars, outVars
<1> DEFINE s == p[1]
           o == p[2]
           list == cycle[c].list \ {p}
<1>3. s \in Schedules /\ o \in StartDay..day
  BY DEF IInv, TypeOK
<1>4. CASE UNCHANGED <<sched, taken>>
  BY <1>2, <1>4, PlanFrame
<1>5. CASE Claimable(c, s, o) /\ Execute(c, s, o, list)
  <2> HIDE DEF s, o, list
  <2> DEFINE n == CalculateNextRunAt(Frequency[s], o)
  <2>1. /\ sched[s].enabled /\ sched[s].next = o /\ o <= day
        /\ o \in Days /\ o \notin taken[s]
    <3>1. sched[s].enabled /\ sched[s].next = o
      BY <1>5 DEF Claimable, SameRun
    <3>2. o \in Days /\ o \in Int /\ o <= day
      BY <1>3, DaysFacts DEF IInv, TypeOK
    <3>3. ~(o < o)
      BY <3>2
    <3>4. QED
      BY <1>3, <3>1, <3>2, <3>3 DEF IInv, ScheduleInv
  <2>2. report[s][o] = "NONE"
    BY <1>3, <2>1 DEF IInv, UntakenInv
  <2> HIDE DEF n
  <2>3. /\ taken' = [taken EXCEPT ![s] = taken[s] \union {o}]
        /\ sched' = [sched EXCEPT ![s] =
                       [sched[s] EXCEPT !.next = n, !.claim = c,
                          !.until = cycle[c].at + Lease, !.last = "PENDING"]]
    BY <1>5 DEF Execute, n
  <2>4. \A t \in Schedules : /\ sched'[t].enabled = sched[t].enabled
                             /\ t # s => sched'[t].next = sched[t].next
                             /\ t = s => sched'[t].next = n
    BY <1>3, <2>3 DEF IInv, TypeOK
  <2>5. Switched' = Switched /\ NextOf' = [NextOf EXCEPT ![s] = n]
    BY <1>3, <2>4 DEF Switched, NextOf
  <2>6. Outcome[s][o] = "none"
    BY <1>3, <2>1, <2>2, OutcomeOf
  <2>7. Outcome' = [Outcome EXCEPT ![s][o] = "taken"]
    <3>1. Outcome' \in [Schedules -> [Days -> {"none", "taken", "reported"}]]
      BY OutcomeType
    <3>2. taken \in [Schedules -> SUBSET (StartDay..day)]
      BY DEF IInv, TypeOK
    <3>3. \A t \in Schedules, d \in Days :
            Outcome'[t][d] = IF report[t][d] = "COMPLETED" THEN "reported"
                             ELSE IF d \in taken'[t] THEN "taken" ELSE "none"
      BY <1>2, OutcomeOf
    <3>4. Outcome'[s][o] = "taken"
      <4>1. o \in taken'[s]
        BY <1>3, <2>3, <3>2
      <4>2. QED
        BY <1>3, <2>1, <2>2, <3>3, <4>1
    <3>5. ASSUME NEW t \in Schedules, NEW d \in Days, t # s \/ d # o
          PROVE  Outcome'[t][d] = Outcome[t][d]
      <4>1. d \in taken'[t] <=> d \in taken[t]
        BY <1>3, <2>3, <3>2, <3>5
      <4>2. QED
        BY <3>3, <4>1, OutcomeOf
    <3>6. \A t \in Schedules, d \in Days : t # s \/ d # o => Outcome'[t][d] = Outcome[t][d]
      BY <3>5
    <3>7. s \in Schedules /\ o \in Days /\ "taken" \in {"none", "taken", "reported"}
      BY <1>3, <2>1
    <3>8. QED
      BY <3>4, <3>6, <3>7, OutcomeType, UpdateIs
  <2>8. Plan!Take(s)
    <3>1. [t \in Schedules |-> [d \in Days |-> CalculateNextRunAt(Frequency[t], d)]]
            [s][NextOf[s]] = n
      BY <1>3, <2>1 DEF NextOf, n
    <3>2. s \in Switched /\ NextOf[s] = o
      BY <1>3, <2>1 DEF Switched, NextOf
    <3>3. QED
      BY <1>2, <2>1, <2>5, <2>6, <2>7, <3>1, <3>2 DEF Plan!Take, Switched, NextOf
  <2>9. QED
    BY <1>3, <2>8
<1>6. QED
  BY <1>1, <1>4, <1>5

LEMMA PlanFinish ==
  ASSUME IInv, NEW c \in Cycles, BuildReport(c)
  PROVE  \E s \in Schedules, d \in Days : Plan!Finish(s, d)
<1> DEFINE s == cycle[c].on
           o == cycle[c].occ
<1>1. /\ cycle[c].pc = "build"
      /\ report' = [report EXCEPT ![s][o] = "COMPLETED"]
      /\ UNCHANGED <<day, sched, taken>>
  BY DEF BuildReport, Go, clockVars
<1>2. s \in Schedules /\ o \in taken[s] /\ o \in Days /\ report[s][o] = "PENDING"
  BY <1>1, OnFacts DEF Executing, IInv, ExecutionInv, ExecutionFacts
<1> HIDE DEF s, o
<1>3. /\ report'[s][o] = "COMPLETED"
      /\ \A t \in Schedules, d \in Days : t # s \/ d # o => report'[t][d] = report[t][d]
  BY <1>1, <1>2, Update2 DEF IInv, TypeOK
<1>4. Outcome[s][o] = "taken"
  BY <1>2, OutcomeOf
<1>5. Outcome' = [Outcome EXCEPT ![s][o] = "reported"]
  <2>1. Outcome' \in [Schedules -> [Days -> {"none", "taken", "reported"}]]
    BY OutcomeType
  <2>2. \A t \in Schedules, d \in Days :
          Outcome'[t][d] = IF report'[t][d] = "COMPLETED" THEN "reported"
                           ELSE IF d \in taken[t] THEN "taken" ELSE "none"
    BY <1>1, OutcomeOf
  <2>3. Outcome'[s][o] = "reported"
    BY <1>2, <1>3, <2>2
  <2>4. ASSUME NEW t \in Schedules, NEW d \in Days, t # s \/ d # o
        PROVE  Outcome'[t][d] = Outcome[t][d]
    BY <1>3, <2>2, <2>4, OutcomeOf
  <2>5. QED
    BY <1>2, <2>1, <2>3, <2>4, OutcomeType, UpdateIs
<1>6. UNCHANGED <<Switched, NextOf>>
  BY <1>1 DEF Switched, NextOf
<1>7. Plan!Finish(s, o)
  BY <1>1, <1>4, <1>5, <1>6 DEF Plan!Finish, Switched, NextOf
<1>8. QED
  BY <1>2, <1>7

LEMMA PlanCreate ==
  ASSUME IInv, NEW s \in Schedules, CreateScheduledReport(s)
  PROVE  Plan!Create(s)
<1> DEFINE n == CalculateNextRunAt(Frequency[s], day)
<1>1. /\ first[s] = 0
      /\ sched' = [sched EXCEPT ![s] = [NoRow EXCEPT !.next = n, !.enabled = TRUE]]
      /\ UNCHANGED <<day, report, taken>>
  BY DEF CreateScheduledReport, clockVars, outVars
<1>2. n > day
  <2>1. Frequency[s] \in Frequencies /\ day \in StartDay..MaxDay
    BY ReportsAssumption DEF IInv, TypeOK
  <2>2. QED
    BY <2>1, CalendarTiles
<1> HIDE DEF n
<1>3. \A t \in Schedules : /\ t # s => sched'[t] = sched[t]
                           /\ t = s => sched'[t].next = n /\ sched'[t].enabled
  BY <1>1 DEF IInv, TypeOK, NoRow
<1>4. /\ Switched' = Switched \union {s} /\ NextOf' = [NextOf EXCEPT ![s] = n]
      /\ NextOf'[s] = n /\ NextOf[s] = 0
  <2>1. sched[s].next = 0
    BY <1>1 DEF IInv, ScheduleInv
  <2>2. Switched' = Switched \union {s}
    BY <1>3 DEF Switched
  <2>3. NextOf' = [NextOf EXCEPT ![s] = n] /\ NextOf'[s] = n /\ NextOf[s] = 0
    BY <1>3, <2>1 DEF NextOf
  <2>4. QED
    BY <2>2, <2>3
<1>5. Outcome' = Outcome
  BY <1>1 DEF Outcome
<1>6. QED
  BY <1>1, <1>2, <1>4, <1>5 DEF Plan!Create, Switched, NextOf

LEMMA PlanSwitch ==
  ASSUME IInv, NEW s \in Schedules, NEW flag \in BOOLEAN, SetScheduledReportEnabled(s, flag)
  PROVE  Plan!SetEnabled(s, flag)
<1>1. /\ first[s] # 0 /\ sched' = [sched EXCEPT ![s].enabled = flag]
      /\ UNCHANGED <<day, report, taken>>
  BY DEF SetScheduledReportEnabled, clockVars, outVars
<1>2. \A t \in Schedules : /\ sched'[t].next = sched[t].next
                           /\ sched'[t].enabled = IF t = s THEN flag ELSE sched[t].enabled
  BY <1>1 DEF IInv, TypeOK
<1>3. Switched' = IF flag THEN Switched \union {s} ELSE Switched \ {s}
  BY <1>2 DEF Switched
<1>4. NextOf' = NextOf /\ NextOf[s] # 0
  BY <1>1, <1>2, DaysFacts DEF NextOf, IInv, ScheduleInv
<1>5. Outcome' = Outcome
  BY <1>1 DEF Outcome
<1>6. QED
  BY <1>1, <1>3, <1>4, <1>5 DEF Plan!SetEnabled, Switched, NextOf

\* Every other step leaves what the plan sees as it is.
LEMMA PlanStutter ==
  ASSUME IInv, NEW c \in Cycles,
         \/ StartCycle(c) \/ ReadDue(c) \/ EndCycle(c) \/ CycleDies(c)
         \/ ExecutionStep(c) /\ ~BuildReport(c)
         \/ StepThrows(c) \/ BuildThrows(c) \/ MarkSentThrows(c) \/ CompleteThrows(c)
  PROVE  UNCHANGED <<day, Switched, NextOf, Outcome>>
<1>1. UNCHANGED <<day, taken>>
  BY DEF StartCycle, ReadDue, EndCycle, CycleDies, ExecutionStep, CreateReport,
     DispatchReportDelivery, Send, MarkSent, MarkFailed, Mark, Complete, Fail, StepThrows,
     BuildThrows, MarkSentThrows, CompleteThrows, Throw, clockVars
<1>2. \A t \in Schedules : /\ sched'[t].next = sched[t].next
                           /\ sched'[t].enabled = sched[t].enabled
  <2>1. CASE UNCHANGED sched
    BY <2>1
  <2>2. ASSUME NEW status \in {"COMPLETED", "FAILED"}, cycle[c].pc \in Executing,
               Release(c, status)
        PROVE  \A t \in Schedules : /\ sched'[t].next = sched[t].next
                                    /\ sched'[t].enabled = sched[t].enabled
    BY <2>2, ReleaseFacts
  <2>3. CASE Complete(c) \/ Fail(c) \/ CompleteThrows(c)
    BY <2>1, <2>2, <2>3 DEF Complete, Fail, CompleteThrows, Go, Executing
  <2>4. QED
    BY <2>1, <2>3 DEF StartCycle, ReadDue, EndCycle, CycleDies, ExecutionStep, CreateReport,
       DispatchReportDelivery, Send, MarkSent, MarkFailed, Mark, StepThrows,
       BuildThrows, MarkSentThrows
<1>3. \A s \in Schedules, d \in Days :
        report'[s][d] = "COMPLETED" <=> report[s][d] = "COMPLETED"
  <2>1. CASE UNCHANGED report
    BY <2>1
  <2>2. ASSUME cycle[c].pc \in {"create", "build"}, NEW v \in {"PENDING", "FAILED"},
               report' = [report EXCEPT ![cycle[c].on][cycle[c].occ] = v]
        PROVE  \A s \in Schedules, d \in Days :
                 report'[s][d] = "COMPLETED" <=> report[s][d] = "COMPLETED"
    <3>1. /\ cycle[c].on \in Schedules /\ cycle[c].occ \in Days
          /\ report[cycle[c].on][cycle[c].occ] # "COMPLETED"
      BY <2>2, OnFacts DEF Executing, IInv, ExecutionInv, ExecutionFacts
    <3>2. report \in [Schedules -> [Days -> {"NONE", "PENDING", "COMPLETED", "FAILED"}]]
      BY DEF IInv, TypeOK
    <3>3. /\ report'[cycle[c].on][cycle[c].occ] = v
          /\ \A s \in Schedules, d \in Days :
               s # cycle[c].on \/ d # cycle[c].occ => report'[s][d] = report[s][d]
      BY <2>2, <3>1, <3>2, Update2
    <3>4. QED
      BY <2>2, <3>1, <3>3
  <2>3. CASE CreateReport(c) \/ BuildThrows(c)
    BY <2>1, <2>2, <2>3 DEF CreateReport, BuildThrows, Go
  <2>4. QED
    BY <2>1, <2>3 DEF StartCycle, ReadDue, EndCycle, CycleDies, ExecutionStep, outVars,
       DispatchReportDelivery, Send, MarkSent, MarkFailed, Mark, Complete, Fail, StepThrows,
       MarkSentThrows, CompleteThrows
<1>4. QED
  BY <1>1, <1>2, <1>3, PlanFrame

LEMMA PlanStep ==
  IInv /\ [Next]_vars => [Plan!Next]_<<day, Switched, NextOf, Outcome>>
<1> SUFFICES ASSUME IInv, [Next]_vars
             PROVE  Plan!Next \/ UNCHANGED <<day, Switched, NextOf, Outcome>>
  OBVIOUS
<1>1. CASE Tick
  <2>1. UNCHANGED <<sched, report, taken>> /\ (day' = day \/ day' = day + 1)
    BY <1>1 DEF Tick, outVars
  <2>2. UNCHANGED <<Switched, NextOf, Outcome>>
    BY <2>1, PlanFrame
  <2>3. day' = day \/ day' > day
    BY <2>1, DaysFacts DEF IInv, TypeOK
  <2>4. QED
    BY <2>2, <2>3 DEF Plan!Next, Plan!NewDay, Switched, NextOf
<1>2. ASSUME NEW s \in Schedules, CreateScheduledReport(s) PROVE Plan!Next
  BY <1>2, PlanCreate DEF Plan!Next
<1>3. ASSUME NEW s \in Schedules, NEW flag \in BOOLEAN, SetScheduledReportEnabled(s, flag)
      PROVE  Plan!Next
  BY <1>3, PlanSwitch DEF Plan!Next
<1>4. ASSUME NEW c \in Cycles, Claim(c)
      PROVE  Plan!Next \/ UNCHANGED <<day, Switched, NextOf, Outcome>>
  BY <1>4, PlanTake DEF Plan!Next
<1>5. ASSUME NEW c \in Cycles, BuildReport(c) PROVE Plan!Next
  BY <1>5, PlanFinish DEF Plan!Next
<1>6. ASSUME NEW c \in Cycles,
             \/ StartCycle(c) \/ ReadDue(c) \/ EndCycle(c) \/ CycleDies(c)
             \/ ExecutionStep(c) /\ ~BuildReport(c)
             \/ StepThrows(c) \/ BuildThrows(c) \/ MarkSentThrows(c) \/ CompleteThrows(c)
      PROVE  UNCHANGED <<day, Switched, NextOf, Outcome>>
  BY <1>6, PlanStutter
<1>7. CASE UNCHANGED vars
  <2>1. UNCHANGED <<day, sched, report, taken>>
    BY <1>7 DEF vars, clockVars, outVars
  <2>2. QED
    BY <2>1, PlanFrame
<1>8. QED
  BY <1>1, <1>2, <1>3, <1>4, <1>5, <1>6, <1>7 DEF Next, CycleStep

\* Occurrences are taken in order, when they are due and their schedule is enabled,
\* and each is finished at most once: the worker implements the plan.
THEOREM ImplementsPlan == Spec => PlanSpec
BY PlanInit, PlanStep, Invariance, PTL
   DEF Spec, PlanSpec, Plan!Spec, Switched, NextOf
=============================================================================
