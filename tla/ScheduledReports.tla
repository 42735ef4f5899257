-------------------------- MODULE ScheduledReports --------------------------
(***************************************************************************)
(* Scheduled reports and the worker that runs them: every interval a cycle *)
(* begins, whether or not the previous one has ended, reads the due        *)
(* schedules, and claims, generates and delivers them one after another.   *)
(* A claim is a lease that expires; it also moves the schedule to its next *)
(* occurrence.  Occurrences are days, as each starts on the first instant  *)
(* of one.  Texts of errors and the content of reports are left out.       *)
(***************************************************************************)
EXTENDS ReportCalendar, FiniteSets

CONSTANTS
  Schedules,
  Frequency,     \* of each schedule
  Cycles,        \* worker cycles that may execute at the same time
  TicksPerDay,
  Lease,         \* ticks until a claim expires
  MaxBatch,      \* schedules read by a cycle
  MaxFaults,     \* bound on exceptions and processes that die
  MaxToggles,    \* bound on switching schedules on and off
  NoCycle, NoSchedule

ASSUME ReportsAssumption ==
  /\ Frequency \in [Schedules -> Frequencies]
  /\ TicksPerDay \in Nat /\ Lease \in Nat /\ Lease < TicksPerDay
  /\ MaxBatch \in Nat \ {0}
  /\ MaxFaults \in Nat /\ MaxToggles \in Nat
  /\ NoCycle \notin Cycles /\ NoSchedule \notin Schedules

VARIABLES
  now, day,    \* the clock
  sched,       \* ScheduledReport rows
  cycle,       \* runDueScheduledReports: program counter, time it began, list, current
  rows,        \* Report rows made for an occurrence
  report,      \* status of the latest of them
  delivery,    \* ReportDelivery.status
  sent,        \* messages the recipient got
  first,       \* the first occurrence of a schedule
  taken,       \* occurrences claimed
  faulted,     \* occurrences whose execution threw or died
  faults, toggles

clockVars == <<now, day>>
outVars == <<rows, report, delivery, sent>>
boundVars == <<faults, toggles>>
vars == <<clockVars, sched, cycle, outVars, first, taken, faulted, boundVars>>

NoLease == -1
Idle == [pc |-> "idle", at |-> 0, today |-> 0, list |-> {}, on |-> NoSchedule, occ |-> 0]
NoRow == [next |-> 0, enabled |-> FALSE, claim |-> NoCycle, until |-> NoLease,
          last |-> "NONE"]
Executing == {"create", "build", "dispatch", "send", "markSent", "markFailed",
              "finish", "fail"}
Steps == Executing \union {"idle", "read", "loop"}

Init ==
  /\ now = 0 /\ day = StartDay
  /\ sched = [s \in Schedules |-> NoRow]
  /\ cycle = [c \in Cycles |-> Idle]
  /\ rows = [s \in Schedules |-> [d \in Days |-> 0]]
  /\ report = [s \in Schedules |-> [d \in Days |-> "NONE"]]
  /\ delivery = [s \in Schedules |-> [d \in Days |-> "NONE"]]
  /\ sent = [s \in Schedules |-> [d \in Days |-> 0]]
  /\ first = [s \in Schedules |-> 0]
  /\ taken = [s \in Schedules |-> {}]
  /\ faulted = {}
  /\ faults = 0 /\ toggles = 0

Tick ==
  /\ now' = now + 1
  /\ \/ (now + 1) % TicksPerDay # 0 /\ day' = day
     \/ (now + 1) % TicksPerDay = 0 /\ day < MaxDay /\ day' = day + 1
  /\ UNCHANGED <<sched, cycle, outVars, first, taken, faulted, boundVars>>

-----------------------------------------------------------------------------
(* The owner of a schedule. *)

CreateScheduledReport(s) ==
  LET next == CalculateNextRunAt(Frequency[s], day) IN
  /\ first[s] = 0
  /\ first' = [first EXCEPT ![s] = next]
  /\ sched' = [sched EXCEPT ![s] = [NoRow EXCEPT !.next = next, !.enabled = TRUE]]
  /\ UNCHANGED <<clockVars, cycle, outVars, taken, faulted, boundVars>>

SetScheduledReportEnabled(s, enabled) ==
  /\ first[s] # 0 /\ sched[s].enabled # enabled
  /\ toggles < MaxToggles /\ toggles' = toggles + 1
  /\ sched' = [sched EXCEPT ![s].enabled = enabled]
  /\ UNCHANGED <<clockVars, cycle, outVars, first, taken, faulted, faults>>

-----------------------------------------------------------------------------
(* The worker begins a cycle and reads what is due. *)

Goto(c, to) == cycle' = [cycle EXCEPT ![c].pc = to]

Go(c, from, to) == cycle[c].pc = from /\ Goto(c, to)

StartCycle(c) ==
  /\ cycle[c].pc = "idle"
  /\ cycle' = [cycle EXCEPT ![c] =
                 [Idle EXCEPT !.pc = "read", !.at = now, !.today = day]]
  /\ UNCHANGED <<clockVars, sched, outVars, first, taken, faulted, boundVars>>

\* Mutant: only a claim that was released can be taken over.
UnclaimedOnly(s, at) == sched[s].until = NoLease

\* Mutant: a claim can be taken over at the instant it expires.
UnclaimedAtExpiry(s, at) == sched[s].until <= at

\* No claim, or one that expired before the cycle began.
Unclaimed(s, at) == sched[s].until < at

\* Mutant: schedules are read without comparing their next run with the time.
DueAnyDay(s, c) == sched[s].enabled /\ Unclaimed(s, cycle[c].at)

Due(s, c) ==
  /\ sched[s].enabled
  /\ sched[s].next <= cycle[c].today
  /\ Unclaimed(s, cycle[c].at)

\* The due schedules, or as many of the earliest as a batch holds.
ReadDue(c) ==
  LET due == {s \in Schedules : Due(s, c)} IN
  /\ cycle[c].pc = "read"
  /\ \E batch \in SUBSET due :
       /\ Cardinality(batch) <= MaxBatch
       /\ batch # due =>
            /\ Cardinality(batch) = MaxBatch
            /\ \A s \in batch, t \in due \ batch : sched[s].next <= sched[t].next
       /\ cycle' = [cycle EXCEPT ![c] =
                      [@ EXCEPT !.pc = "loop",
                                !.list = {<<s, sched[s].next>> : s \in batch}]]
  /\ UNCHANGED <<clockVars, sched, outVars, first, taken, faulted, boundVars>>

EndCycle(c) ==
  /\ cycle[c].pc = "loop" /\ cycle[c].list = {}
  /\ cycle' = [cycle EXCEPT ![c] = Idle]
  /\ UNCHANGED <<clockVars, sched, outVars, first, taken, faulted, boundVars>>

-----------------------------------------------------------------------------
(* The claim of the earliest schedule of the list. *)

\* Mutant: the next occurrence is counted from today.
ExecuteToday(c, s, o, list) ==
  /\ sched' = [sched EXCEPT ![s] =
                 [@ EXCEPT !.next = CalculateNextRunAt(Frequency[s], cycle[c].today),
                           !.claim = c,
                           !.until = cycle[c].at + Lease,
                           !.last = "PENDING"]]
  /\ taken' = [taken EXCEPT ![s] = @ \union {o}]
  /\ cycle' = [cycle EXCEPT ![c] = [@ EXCEPT !.pc = "create", !.list = list,
                                            !.on = s, !.occ = o]]

Execute(c, s, o, list) ==
  /\ sched' = [sched EXCEPT ![s] =
                 [@ EXCEPT !.next = CalculateNextRunAt(Frequency[s], o),
                           !.claim = c,
                           !.until = cycle[c].at + Lease,
                           !.last = "PENDING"]]
  /\ taken' = [taken EXCEPT ![s] = @ \union {o}]
  /\ cycle' = [cycle EXCEPT ![c] = [@ EXCEPT !.pc = "create", !.list = list,
                                            !.on = s, !.occ = o]]

\* Mutant: the claim does not check that the run read is still the next one.
ClaimAnyRun(s, o) == sched[s].enabled

\* Mutant: the claim does not check that the schedule is still enabled.
ClaimDisabled(s, o) == sched[s].next = o

\* The row is still the one that was read.
SameRun(s, o) == sched[s].enabled /\ sched[s].next = o

\* The condition of the claiming update.
Claimable(c, s, o) == SameRun(s, o) /\ Unclaimed(s, cycle[c].at)

Claim(c) ==
  /\ cycle[c].pc = "loop"
  /\ \E p \in cycle[c].list :
       LET s == p[1]
           o == p[2]
           list == cycle[c].list \ {p}
       IN
       /\ \A q \in cycle[c].list : o <= q[2]
       /\ \/ Claimable(c, s, o) /\ Execute(c, s, o, list)
          \/ /\ ~Claimable(c, s, o)
             /\ cycle' = [cycle EXCEPT ![c].list = list]
             /\ UNCHANGED <<sched, taken>>
  /\ UNCHANGED <<clockVars, outVars, first, faulted, boundVars>>

-----------------------------------------------------------------------------
(* One execution: generate the report, deliver it, release the claim. *)

Continue(c) ==
  cycle' = [cycle EXCEPT ![c] = [@ EXCEPT !.pc = "loop", !.on = NoSchedule, !.occ = 0]]

\* Mutant: a schedule disabled after the claim is left alone.
CreateIfEnabled(c) ==
  LET s == cycle[c].on
      o == cycle[c].occ
  IN
  /\ cycle[c].pc = "create"
  /\ \/ /\ sched[s].enabled
        /\ Goto(c, "build")
        /\ rows' = [rows EXCEPT ![s][o] = @ + 1]
        /\ report' = [report EXCEPT ![s][o] = "PENDING"]
     \/ ~sched[s].enabled /\ Continue(c) /\ UNCHANGED <<rows, report>>
  /\ UNCHANGED <<clockVars, sched, delivery, sent, first, taken, faulted, boundVars>>

CreateReport(c) ==
  LET s == cycle[c].on
      o == cycle[c].occ
  IN
  /\ Go(c, "create", "build")
  /\ rows' = [rows EXCEPT ![s][o] = @ + 1]
  /\ report' = [report EXCEPT ![s][o] = "PENDING"]
  /\ UNCHANGED <<clockVars, sched, delivery, sent, first, taken, faulted, boundVars>>

BuildReport(c) ==
  /\ Go(c, "build", "dispatch")
  /\ report' = [report EXCEPT ![cycle[c].on][cycle[c].occ] = "COMPLETED"]
  /\ UNCHANGED <<clockVars, sched, rows, delivery, sent, first, taken, faulted,
                 boundVars>>

DispatchReportDelivery(c) ==
  /\ Go(c, "dispatch", "send")
  /\ delivery' = [delivery EXCEPT ![cycle[c].on][cycle[c].occ] = "PENDING"]
  /\ UNCHANGED <<clockVars, sched, rows, report, sent, first, taken, faulted, boundVars>>

\* The recipient gets the message or not, and a message that arrived may still
\* count as failed (a timeout, or an answer other than 2xx).
Send(c) ==
  /\ \/ /\ Go(c, "send", "markSent") \/ Go(c, "send", "markFailed")
        /\ sent' = [sent EXCEPT ![cycle[c].on][cycle[c].occ] = @ + 1]
     \/ Go(c, "send", "markFailed") /\ UNCHANGED sent
  /\ UNCHANGED <<clockVars, sched, rows, report, delivery, first, taken, faulted,
                 boundVars>>

Mark(c, from, status) ==
  /\ Go(c, from, "finish")
  /\ delivery' = [delivery EXCEPT ![cycle[c].on][cycle[c].occ] = status]
  /\ UNCHANGED <<clockVars, sched, rows, report, sent, first, taken, faulted, boundVars>>

MarkSent(c) == Mark(c, "markSent", "SENT")
MarkFailed(c) == Mark(c, "markFailed", "FAILED")

\* Mutant: the execution writes its result whoever holds the claim.
ReleaseAnyClaim(c, status) ==
  sched' = [sched EXCEPT ![cycle[c].on] =
              [@ EXCEPT !.last = status, !.claim = NoCycle, !.until = NoLease]]

\* The result is written, and the claim released, unless another has claimed.
Release(c, status) ==
  LET s == cycle[c].on IN
  sched' = IF sched[s].claim = c
           THEN [sched EXCEPT ![s] =
                   [@ EXCEPT !.last = status, !.claim = NoCycle, !.until = NoLease]]
           ELSE sched

Complete(c) ==
  /\ cycle[c].pc = "finish"
  /\ Release(c, "COMPLETED")
  /\ Continue(c)
  /\ UNCHANGED <<clockVars, outVars, first, taken, faulted, boundVars>>

Fail(c) ==
  /\ cycle[c].pc = "fail"
  /\ Release(c, "FAILED")
  /\ Continue(c)
  /\ UNCHANGED <<clockVars, outVars, first, taken, faulted, boundVars>>

-----------------------------------------------------------------------------
(* Exceptions, and processes that die.  A write that throws may have taken   *)
(* effect: the exception is then that of the step after it.                  *)

Fault(c) ==
  /\ faults < MaxFaults /\ faults' = faults + 1
  /\ faulted' = IF cycle[c].pc \in Executing
                THEN faulted \union {<<cycle[c].on, cycle[c].occ>>}
                ELSE faulted

Throw(c) == Fault(c) /\ UNCHANGED <<clockVars, rows, sent, first, taken, toggles>>

\* The report, its row and its delivery row: an exception fails the execution.
StepThrows(c) ==
  /\ cycle[c].pc \in {"create", "dispatch", "send", "markFailed"}
  /\ Goto(c, "fail")
  /\ Throw(c)
  /\ UNCHANGED <<sched, report, delivery>>

\* A report that cannot be built is marked FAILED, if that can be written.
BuildThrows(c) ==
  LET s == cycle[c].on
      o == cycle[c].occ
  IN
  /\ Go(c, "build", "fail")
  /\ report' = [report EXCEPT ![s][o] = "FAILED"] \/ UNCHANGED report
  /\ Throw(c)
  /\ UNCHANGED <<sched, delivery>>

\* A message that arrived is recorded as failed when writing SENT throws.
MarkSentThrows(c) ==
  /\ Go(c, "markSent", "markFailed")
  /\ \/ delivery' = [delivery EXCEPT ![cycle[c].on][cycle[c].occ] = "SENT"]
     \/ UNCHANGED delivery
  /\ Throw(c)
  /\ UNCHANGED <<sched, report>>

\* The write of the result throws, before or after it took effect.
CompleteThrows(c) ==
  /\ Go(c, "finish", "fail")
  /\ Release(c, "COMPLETED") \/ UNCHANGED sched
  /\ Throw(c)
  /\ UNCHANGED <<report, delivery>>

\* The process dies, or a claim or the record of a failure throws: the rest of
\* the list is dropped.  Bound: not on the last day, whose leases outlive the run.
CycleDies(c) ==
  /\ cycle[c].pc # "idle"
  /\ cycle[c].today < MaxDay
  /\ Fault(c)
  /\ cycle' = [cycle EXCEPT ![c] = Idle]
  /\ UNCHANGED <<clockVars, sched, outVars, first, taken, toggles>>

-----------------------------------------------------------------------------

ExecutionStep(c) ==
  \/ CreateReport(c)
  \/ BuildReport(c)
  \/ DispatchReportDelivery(c)
  \/ Send(c)
  \/ MarkSent(c)
  \/ MarkFailed(c)
  \/ Complete(c)
  \/ Fail(c)

CycleStep(c) == StartCycle(c) \/ ReadDue(c) \/ Claim(c) \/ ExecutionStep(c) \/ EndCycle(c)

Next ==
  \/ Tick
  \/ \E s \in Schedules :
       \/ CreateScheduledReport(s)
       \/ \E enabled \in BOOLEAN : SetScheduledReportEnabled(s, enabled)
  \/ \E c \in Cycles :
       \/ CycleStep(c)
       \/ StepThrows(c)
       \/ BuildThrows(c)
       \/ MarkSentThrows(c)
       \/ CompleteThrows(c)
       \/ CycleDies(c)

Spec == Init /\ [][Next]_vars

\* The interval begins cycles for ever, each executes to its end unless its
\* process dies, and time passes.
FairSpec ==
  /\ Spec
  /\ WF_vars(Tick)
  /\ \A c \in Cycles : WF_vars(CycleStep(c))

-----------------------------------------------------------------------------

TypeOK ==
  /\ now \in Nat /\ day \in StartDay..MaxDay
  /\ sched \in [Schedules -> [next : Nat, enabled : BOOLEAN,
                              claim : Cycles \union {NoCycle},
                              until : Nat \union {NoLease},
                              last : {"NONE", "PENDING", "COMPLETED", "FAILED"}]]
  /\ cycle \in [Cycles -> [pc : Steps, at : 0..now, today : {0} \union (StartDay..day),
                           list : SUBSET (Schedules \X (StartDay..day)),
                           on : Schedules \union {NoSchedule},
                           occ : {0} \union (StartDay..day)]]
  /\ rows \in [Schedules -> [Days -> Nat]]
  /\ report \in [Schedules -> [Days -> {"NONE", "PENDING", "COMPLETED", "FAILED"}]]
  /\ delivery \in [Schedules -> [Days -> {"NONE", "PENDING", "SENT", "FAILED"}]]
  /\ sent \in [Schedules -> [Days -> Nat]]
  /\ first \in [Schedules -> Nat]
  /\ taken \in [Schedules -> SUBSET (StartDay..day)]
  /\ faulted \subseteq Schedules \X Days
  /\ faults \in 0..MaxFaults /\ toggles \in 0..MaxToggles

\* However many cycles read an occurrence as due, one report is made for it and
\* one message sent, and what was sent is a finished report.
OnceAnOccurrence ==
  \A s \in Schedules, d \in Days :
    /\ rows[s][d] <= 1 /\ sent[s][d] <= 1
    /\ delivery[s][d] # "NONE" => report[s][d] = "COMPLETED"
    /\ delivery[s][d] = "SENT" => sent[s][d] = 1

\* The windows of the occurrences claimed tile the days since the first one:
\* no day is reported twice or skipped, however late the worker is.
WindowsTile ==
  \A s \in Schedules : first[s] # 0 =>
    \A d \in WindowStart(Frequency[s], first[s]) ..
             (WindowStart(Frequency[s], sched[s].next) - 1) :
      \E o \in taken[s] :
        /\ d \in ReportWindow(Frequency[s], o)
        /\ \A p \in taken[s] : d \in ReportWindow(Frequency[s], p) => p = o

Accounted(s, o) ==
  \/ report[s][o] = "COMPLETED"
  \/ <<s, o>> \in faulted
  \/ \E c \in Cycles : cycle[c].pc \in Executing /\ cycle[c].on = s /\ cycle[c].occ = o

\* An occurrence that was claimed has its report, or an execution at work on
\* it, or one that threw or died: disabling, expiry of the lease and a lost race
\* for the claim never drop one.
NothingDropped == \A s \in Schedules : \A o \in taken[s] : Accounted(s, o)

Latest(s, o) == o \in taken[s] /\ \A p \in taken[s] : p <= o

\* The status shown for a schedule is that of its latest occurrence, although
\* an execution of an earlier one may end later.
StatusIsOfLatest ==
  \A s \in Schedules : \A o \in taken[s] : Latest(s, o) =>
    /\ sched[s].last = "COMPLETED" =>
         report[s][o] = "COMPLETED" /\ delivery[s][o] \in {"SENT", "FAILED"}
    /\ sched[s].last = "FAILED" => <<s, o>> \in faulted

\* Two cycles generate or deliver one schedule at the same time only when the
\* lease of one has run out.
OverlapOnlyAfterLease ==
  \A c, d \in Cycles :
    /\ c # d
    /\ cycle[c].pc \in Executing \ {"fail"} /\ cycle[d].pc \in Executing \ {"fail"}
    /\ cycle[c].on = cycle[d].on
    => now > cycle[c].at + Lease \/ now > cycle[d].at + Lease

Outcome ==
  [s \in Schedules |-> [d \in Days |->
     CASE report[s][d] = "COMPLETED" -> "reported"
       [] report[s][d] # "COMPLETED" /\ d \in taken[s] -> "taken"
       [] OTHER -> "none"]]

Plan == INSTANCE ReportSchedule WITH
  enabled <- {s \in Schedules : sched[s].enabled},
  next <- [s \in Schedules |-> sched[s].next],
  outcome <- Outcome,
  Successor <- [s \in Schedules |-> [d \in Days |-> CalculateNextRunAt(Frequency[s], d)]]

\* Occurrences are taken in order, when due and enabled, once each.
PlanSpec == Plan!Spec

\* An occurrence that is due is reported, unless its execution failed or the
\* schedule is disabled: a crash costs the occurrence it hit and no later one.
DueIsReported ==
  \A s \in Schedules : \A o \in StartDay..MaxDay :
    sched[s].enabled /\ sched[s].next = o /\ o <= day ~>
      report[s][o] = "COMPLETED" \/ <<s, o>> \in faulted \/ ~sched[s].enabled
=============================================================================
