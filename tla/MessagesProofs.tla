--------------------------- MODULE MessagesProofs ---------------------------
(***************************************************************************)
(* Proofs about Messages, for any subscriptions, alerts, staff and         *)
(* executions, and any bounds.  Rows only accumulate, so what a job saw    *)
(* when it looked stays true of the rows that were there, and everything a *)
(* job will still say is said of the rows by what the job has left.        *)
(***************************************************************************)
EXTENDS Messages, SequenceTheorems, TLAPS

Topics == Reminders \union Notices
People == Subs \union Staff
Looking == [pc : {"look"}, job : {"reminders", "alerts"}, now : Nat, todo : TopicSets]
Writing == [pc : {"row", "send"}, job : {"reminders", "alerts", "retry"}, now : Nat,
            todo : TopicSets, topic : Topics, left : SUBSET People, seen : Nat,
            at : Nat, of : Nat, attempt : Nat]
RunRecords == {Resting} \union Looking \union Writing

AtWork(r) == run[r].pc \in {"row", "send"}
Positions == 1..Len(rows)
Expired(s) == <<"EXPIRED", s>>
OnTopic(t) == \E i \in Positions : rows[i].topic = t
Knew(t, to) == \E j \in Positions : rows[j].topic = t /\ rows[j].to = to
Fresh(i, t, now) == rows[i].topic = t => ~IsReminder(t) /\ rows[i].day < now - 1

\* What a job that writes rows knows: the rows it saw were fresh, and whoever it has
\* left out is told; a retry knows its original, which has counted the attempt.
JobKnows(r) ==
  /\ run[r].seen <= Len(rows)
  /\ \A i \in 1..run[r].seen : Fresh(i, run[r].topic, run[r].now)
  /\ \A to \in RecipientsOf(run[r].topic) \ run[r].left : Knew(run[r].topic, to)

RetryKnows(r) ==
  /\ run[r].of \in Positions
  /\ rows[run[r].of].topic = run[r].topic
  /\ run[r].attempt <= rows[run[r].of].retries
  /\ \A x, y \in run[r].left : x = y
  /\ run[r].pc = "send" => run[r].left = {}

SendInv(r) ==
  AtWork(r) =>
    /\ run[r].left \subseteq RecipientsOf(run[r].topic)
    /\ run[r].pc = "send" => run[r].at \in Positions
    /\ run[r].job = "retry" <=> run[r].of # 0
    /\ run[r].of = 0 => JobKnows(r)
    /\ run[r].of # 0 => RetryKnows(r)

\* An active subscription past its end has been reminded, or will be before the job
\* that listed it reaches its sweep, or became so after the job had listed its own.
RemindInv(r) ==
  run[r].pc # "rest" /\ run[r].job = "reminders" =>
    \A s \in Phones \ slipped : PastEnd(s, run[r].now) =>
      \/ Expired(s) \in run[r].todo
      \/ run[r].pc = "row" /\ run[r].topic = Expired(s)
      \/ OnTopic(Expired(s))

LogInv(j) ==
  /\ rows[j].to \in RecipientsOf(rows[j].topic)
  /\ rows[j].of = 0 =>
      /\ rows[j].seen < j
      /\ \A i \in 1..rows[j].seen : Fresh(i, rows[j].topic, rows[j].now)
  /\ rows[j].of # 0 =>
      /\ rows[j].of \in Positions
      /\ rows[rows[j].of].topic = rows[j].topic
      /\ rows[j].attempt <= rows[rows[j].of].retries

Retrying(r) == run[r].pc = "row" /\ run[r].of # 0

\* The retries of a row, written or about to be, have different numbers.
RetryInv ==
  /\ \A i, j \in Positions : i # j /\ rows[i].of # 0 /\ rows[i].of = rows[j].of =>
       rows[i].attempt # rows[j].attempt
  /\ \A r \in Runs : Retrying(r) =>
       /\ \A i \in Positions : rows[i].of = run[r].of => rows[i].attempt # run[r].attempt
       /\ \A q \in Runs \ {r} :
            Retrying(q) /\ run[q].of = run[r].of => run[q].attempt # run[r].attempt

Reminded == \A s \in Phones \ slipped : access[s] = "swept" => OnTopic(Expired(s))
Sending(i) == \E r \in Runs : run[r].pc = "send" /\ run[r].at = i
Reached ==
  losses = 0 => \A i \in Positions :
    /\ rows[i].status = "PENDING" => Sending(i)
    /\ \A to \in RecipientsOf(rows[i].topic) :
         Handling(rows[i].topic, to) \/ Knew(rows[i].topic, to)

MessageInv ==
  /\ MessageTypeOK
  /\ \A r \in Runs : SendInv(r) /\ RemindInv(r)
  /\ \A j \in Positions : LogInv(j)
  /\ RetryInv /\ Reminded /\ Reached

-----------------------------------------------------------------------------
(* Types *)

LEMMA RunCases ==
  ASSUME MessageTypeOK, NEW r \in Runs
  PROVE  /\ run[r] = Resting \/ run[r] \in Looking \/ run[r] \in Writing
         /\ run[r].pc = "look" => run[r] \in Looking
         /\ AtWork(r) => run[r] \in Writing
         /\ run[r].pc = "rest" => run[r] = Resting
         /\ Resting.pc = "rest"
BY DEF MessageTypeOK, Looking, Writing, Topics, People, AtWork, Resting

LEMMA TypeFromParts ==
  MessageTypeOK <=>
    /\ today \in 0..LastDay /\ losses \in 0..MaxLosses
    /\ access \in [Subs -> {"PENDING", "ACTIVE", "refused", "swept"}]
    /\ ends \in [Subs -> EndDays]
    /\ low \subseteq Subs /\ slipped \subseteq Subs
    /\ rows \in Seq(RowType)
    /\ run \in [Runs -> RunRecords]
BY DEF MessageTypeOK, RunRecords, Looking, Writing, Topics, People

LEMMA TypeFromPartsNext ==
  MessageTypeOK' <=>
    /\ today' \in 0..LastDay /\ losses' \in 0..MaxLosses
    /\ access' \in [Subs -> {"PENDING", "ACTIVE", "refused", "swept"}]
    /\ ends' \in [Subs -> EndDays]
    /\ low' \subseteq Subs /\ slipped' \subseteq Subs
    /\ rows' \in Seq(RowType)
    /\ run' \in [Runs -> RunRecords]
BY DEF MessageTypeOK, RunRecords, Looking, Writing, Topics, People

LEMMA EndKnown ==
  ASSUME MessageTypeOK, NEW s \in Phones
  PROVE  s \in Subs /\ ends[s] \in Nat
BY MessageAssumption DEF MessageAssumption, MessageTypeOK

LEMMA Clock == MessageTypeOK => today \in Nat /\ losses \in Nat /\ LastDay \in Nat /\ MaxLosses \in Nat
BY MessageAssumption DEF MessageTypeOK, MessageAssumption

LEMMA Recipients ==
  ASSUME NEW t \in Topics
  PROVE  RecipientsOf(t) \subseteq People
BY MessageAssumption DEF MessageAssumption, Topics, People, RecipientsOf

LEMMA ExpiredTopic ==
  ASSUME NEW s \in Phones
  PROVE  /\ Expired(s) \in Topics /\ Expired(s) \in Reminders
         /\ IsReminder(Expired(s)) /\ RecipientsOf(Expired(s)) = {s}
BY MessageAssumption
   DEF MessageAssumption, Topics, Reminders, Expired, IsReminder, RecipientsOf

\* The row a job writes.
LEMMA LogWritten ==
  ASSUME MessageTypeOK, NEW r \in Runs, NEW to \in Subs \union Staff, WriteRow(r, to)
  PROVE  \E row \in RowType :
           /\ rows' = Append(rows, row)
           /\ row.topic = run[r].topic /\ row.to = to /\ row.status = "PENDING"
           /\ row.retries = 0 /\ row.day = today /\ row.now = run[r].now
           /\ row.seen = run[r].seen /\ row.of = run[r].of /\ row.attempt = run[r].attempt
<1> DEFINE row == [topic |-> run[r].topic, to |-> to, status |-> "PENDING",
                   retries |-> 0, day |-> today, now |-> run[r].now,
                   seen |-> run[r].seen, of |-> run[r].of, attempt |-> run[r].attempt]
<1>1. run[r] \in Writing
  BY RunCases DEF WriteRow, AtWork
<1>2. /\ row.topic = run[r].topic /\ row.to = to /\ row.status = "PENDING"
      /\ row.retries = 0 /\ row.day = today /\ row.now = run[r].now
      /\ row.seen = run[r].seen /\ row.of = run[r].of /\ row.attempt = run[r].attempt
  OBVIOUS
<1>3. row \in RowType
  BY <1>1, Clock DEF Writing, RowType, Topics
<1>4. rows' = Append(rows, row)
  BY DEF WriteRow
<1> QED BY <1>2, <1>3, <1>4

LEMMA LookTyped ==
  ASSUME MessageTypeOK, NEW r \in Runs, NEW t \in Topics, Look(r, t)
  PROVE  MessageTypeOK'
<1> DEFINE x == [run[r] EXCEPT !.todo = @ \ {t}]
           y == [pc |-> "row", job |-> run[r].job, now |-> run[r].now,
                 todo |-> run[r].todo \ {t}, topic |-> t, left |-> RecipientsOf(t),
                 seen |-> Len(rows), at |-> 0, of |-> 0, attempt |-> 0]
<1>1. run[r] \in Looking
  BY RunCases DEF Look
<1>2. x \in RunRecords
  BY <1>1 DEF RunRecords, Looking, TopicSets
<1>3. Len(rows) \in Nat
  BY DEF MessageTypeOK
<1>4. y \in RunRecords
  BY <1>1, <1>3, Recipients DEF RunRecords, Looking, Writing, TopicSets
<1>5. run' = [run EXCEPT ![r] = x] \/ run' = [run EXCEPT ![r] = y]
  BY DEF Look, Sets
<1> HIDE DEF x, y
<1>6. run' \in [Runs -> RunRecords]
  BY <1>2, <1>4, <1>5, TypeFromParts
<1> QED BY <1>6, TypeFromParts, TypeFromPartsNext DEF Look, Sets

LEMMA WriteRowTyped ==
  ASSUME MessageTypeOK, NEW r \in Runs, NEW to \in Subs \union Staff, WriteRow(r, to)
  PROVE  MessageTypeOK'
<1> DEFINE x == [run[r] EXCEPT !.pc = "send", !.left = @ \ {to}, !.at = Len(rows) + 1]
<1>1. run[r] \in Writing
  BY RunCases DEF WriteRow, AtWork
<1>2. Len(rows) \in Nat /\ rows \in Seq(RowType)
  BY DEF MessageTypeOK
<1>3. x \in RunRecords
  <2>1. run[r].left \ {to} \in SUBSET People /\ Len(rows) + 1 \in Nat
    BY <1>1, <1>2 DEF Writing
  <2>2. \A w \in Writing, left \in SUBSET People, at \in Nat :
          [w EXCEPT !.pc = "send", !.left = left, !.at = at] \in Writing
    BY DEF Writing
  <2>3. x \in Writing
    BY <1>1, <2>1, <2>2
  <2> QED BY <2>3 DEF RunRecords
<1>4. run' = [run EXCEPT ![r] = x]
  BY DEF WriteRow, Sets
<1> HIDE DEF x
<1>5. run' \in [Runs -> RunRecords]
  BY <1>3, <1>4, TypeFromParts
<1>6. rows' \in Seq(RowType)
  BY <1>2, LogWritten
<1> QED BY <1>5, <1>6, TypeFromParts, TypeFromPartsNext DEF WriteRow, Sets

LEMMA RowReplaced ==
  ASSUME MessageTypeOK, NEW k \in Positions, NEW row \in RowType,
         rows' = [rows EXCEPT ![k] = row]
  PROVE  /\ rows' \in Seq(RowType) /\ Len(rows') = Len(rows)
         /\ \A i \in Positions : rows'[i] = IF i = k THEN row ELSE rows[i]
BY ExceptSeq DEF MessageTypeOK, Positions

LEMMA RowTyped ==
  ASSUME MessageTypeOK, NEW k \in Positions
  PROVE  rows[k] \in RowType
BY ElementOfSeq DEF MessageTypeOK, Positions

\* The outcome changes the status of one row and nothing else of any row.
LEMMA OutcomeWritten ==
  ASSUME MessageTypeOK, NEW r \in Runs, WriteOutcome(r), run[r].at \in Positions
  PROVE  /\ rows' \in Seq(RowType) /\ Len(rows') = Len(rows)
         /\ \A i \in Positions :
              /\ rows'[i].topic = rows[i].topic /\ rows'[i].to = rows[i].to
              /\ rows'[i].day = rows[i].day /\ rows'[i].now = rows[i].now
              /\ rows'[i].seen = rows[i].seen /\ rows'[i].of = rows[i].of
              /\ rows'[i].attempt = rows[i].attempt /\ rows'[i].retries = rows[i].retries
              /\ i # run[r].at => rows'[i] = rows[i]
              /\ i = run[r].at => rows'[i].status # "PENDING"
<1>1. PICK o \in {"SENT", "FAILED"} : rows' = [rows EXCEPT ![run[r].at].status = o]
  BY DEF WriteOutcome, Outcomes
<1> DEFINE k == run[r].at
           row == [rows[k] EXCEPT !.status = o]
<1>2. /\ row \in RowType /\ row.status = o
      /\ row.topic = rows[k].topic /\ row.to = rows[k].to
      /\ row.day = rows[k].day /\ row.now = rows[k].now
      /\ row.seen = rows[k].seen /\ row.of = rows[k].of
      /\ row.attempt = rows[k].attempt /\ row.retries = rows[k].retries
  <2>1. rows[k] \in RowType
    BY RowTyped
  <2> HIDE DEF k
  <2> QED BY <2>1 DEF RowType
<1>3. rows' = [rows EXCEPT ![k] = row] /\ k \in Positions
  BY <1>1
<1> HIDE DEF k, row
<1>4. /\ rows' \in Seq(RowType) /\ Len(rows') = Len(rows)
      /\ \A i \in Positions : rows'[i] = IF i = k THEN row ELSE rows[i]
  BY <1>2, <1>3, RowReplaced
<1>5. ASSUME NEW i \in Positions
      PROVE  /\ rows'[i].topic = rows[i].topic /\ rows'[i].to = rows[i].to
             /\ rows'[i].day = rows[i].day /\ rows'[i].now = rows[i].now
             /\ rows'[i].seen = rows[i].seen /\ rows'[i].of = rows[i].of
             /\ rows'[i].attempt = rows[i].attempt /\ rows'[i].retries = rows[i].retries
             /\ i # k => rows'[i] = rows[i]
             /\ i = k => rows'[i].status # "PENDING"
  BY <1>2, <1>4
<1> QED BY <1>4, <1>5 DEF k

LEMMA WriteOutcomeTyped ==
  ASSUME MessageTypeOK, NEW r \in Runs, WriteOutcome(r), run[r].at \in Positions
  PROVE  MessageTypeOK'
<1> DEFINE x == [run[r] EXCEPT !.pc = "row"]
           y == [pc |-> "look", job |-> run[r].job, now |-> run[r].now,
                 todo |-> run[r].todo]
<1>1. run[r] \in Writing
  BY RunCases DEF WriteOutcome, AtWork
<1>2. x \in RunRecords /\ (run[r].job # "retry" => y \in RunRecords)
  BY <1>1 DEF RunRecords, Writing, Looking
<1>3. \/ run' = [run EXCEPT ![r] = x]
      \/ run[r].job # "retry" /\ run' = [run EXCEPT ![r] = y]
      \/ run' = [run EXCEPT ![r] = Resting]
  BY DEF WriteOutcome, Sets
<1> HIDE DEF x, y
<1>4. run' \in [Runs -> RunRecords]
  BY <1>2, <1>3, TypeFromParts DEF RunRecords
<1> QED BY <1>4, OutcomeWritten, TypeFromParts, TypeFromPartsNext DEF WriteOutcome, Sets

LEMMA StartTyped ==
  ASSUME MessageTypeOK, NEW r \in Runs, StartReminders(r) \/ StartAlerts(r)
  PROVE  MessageTypeOK'
<1>1. PICK job \in {"reminders", "alerts"}, todo \in TopicSets : StartJob(r, job, todo)
  BY DEF StartReminders, StartAlerts, Due, TopicSets
<1> DEFINE x == [pc |-> "look", job |-> job, now |-> today, todo |-> todo]
<1>2. x \in RunRecords
  BY Clock DEF RunRecords, Looking
<1>3. run' = [run EXCEPT ![r] = x]
  BY <1>1 DEF StartJob, Sets
<1> HIDE DEF x
<1>4. run' \in [Runs -> RunRecords]
  BY <1>2, <1>3, TypeFromParts
<1> QED BY <1>1, <1>4, TypeFromParts, TypeFromPartsNext DEF StartJob, Sets

\* A retry counts the attempt on the original and changes nothing else of any row.
LEMMA RetryCounted ==
  ASSUME MessageTypeOK, NEW r \in Runs, NEW k \in Positions, Retry(r, k)
  PROVE  /\ rows' \in Seq(RowType) /\ Len(rows') = Len(rows)
         /\ \A i \in Positions :
              /\ rows'[i].topic = rows[i].topic /\ rows'[i].to = rows[i].to
              /\ rows'[i].day = rows[i].day /\ rows'[i].now = rows[i].now
              /\ rows'[i].seen = rows[i].seen /\ rows'[i].of = rows[i].of
              /\ rows'[i].attempt = rows[i].attempt /\ rows'[i].status = rows[i].status
              /\ rows[i].retries <= rows'[i].retries
         /\ rows'[k].retries = rows[k].retries + 1
         /\ rows[k] \in RowType
<1> DEFINE row == [rows[k] EXCEPT !.retries = @ + 1]
<1>1. rows[k] \in RowType
  BY RowTyped
<1>2. /\ row \in RowType /\ row.retries = rows[k].retries + 1
      /\ rows[k].retries \in Nat /\ row.status = rows[k].status
      /\ row.topic = rows[k].topic /\ row.to = rows[k].to
      /\ row.day = rows[k].day /\ row.now = rows[k].now
      /\ row.seen = rows[k].seen /\ row.of = rows[k].of
      /\ row.attempt = rows[k].attempt
  BY <1>1 DEF RowType
<1>3. rows' = [rows EXCEPT ![k] = row]
  BY DEF Retry
<1> HIDE DEF row
<1>4. /\ rows' \in Seq(RowType) /\ Len(rows') = Len(rows)
      /\ \A i \in Positions : rows'[i] = IF i = k THEN row ELSE rows[i]
  BY <1>2, <1>3, RowReplaced
<1>5. ASSUME NEW i \in Positions
      PROVE  /\ rows'[i].topic = rows[i].topic /\ rows'[i].to = rows[i].to
             /\ rows'[i].day = rows[i].day /\ rows'[i].now = rows[i].now
             /\ rows'[i].seen = rows[i].seen /\ rows'[i].of = rows[i].of
             /\ rows'[i].attempt = rows[i].attempt /\ rows'[i].status = rows[i].status
             /\ rows[i].retries <= rows'[i].retries
  <2>1. rows[i].retries \in Nat
    BY RowTyped DEF RowType
  <2> QED BY <1>2, <1>4, <2>1
<1> QED BY <1>1, <1>2, <1>4, <1>5

LEMMA RetryTyped ==
  ASSUME MessageTypeOK, NEW r \in Runs, NEW k \in Positions, Retry(r, k)
  PROVE  MessageTypeOK'
<1> DEFINE x == [pc |-> "row", job |-> "retry", now |-> today, todo |-> {},
                 topic |-> rows[k].topic, left |-> {rows[k].to}, seen |-> 0, at |-> 0,
                 of |-> k, attempt |-> rows[k].retries + 1]
<1>1. rows[k] \in RowType /\ k \in Nat
  BY DEF MessageTypeOK, Positions
<1>2. x \in RunRecords
  BY <1>1, Clock DEF RunRecords, RowType, Writing, Topics, People, TopicSets
<1>3. run' = [run EXCEPT ![r] = x]
  BY DEF Retry, Sets
<1> HIDE DEF x
<1>4. run' \in [Runs -> RunRecords]
  BY <1>2, <1>3, TypeFromParts
<1> QED BY <1>4, RetryCounted, TypeFromParts, TypeFromPartsNext DEF Retry, Sets

LEMMA MessageTypeStep ==
  ASSUME MessageTypeOK, [MessageNext]_messageVars,
         \A r \in Runs : run[r].pc = "send" => run[r].at \in Positions
  PROVE  MessageTypeOK'
<1> USE Clock
<1>1. CASE Midnight
  BY <1>1 DEF Midnight, MessageTypeOK
<1>2. ASSUME NEW s \in Subs, Activate(s) \/ UseData(s) \/ RadiusExpires(s)
      PROVE  MessageTypeOK'
  BY <1>2, TypeFromParts, TypeFromPartsNext DEF Activate, UseData, RadiusExpires
<1>3. ASSUME NEW r \in Runs, StartReminders(r) \/ StartAlerts(r)
      PROVE  MessageTypeOK'
  BY <1>3, StartTyped
<1>4. ASSUME NEW r \in Runs, Sweep(r) \/ AlertsDone(r) \/ RunDies(r)
      PROVE  MessageTypeOK'
  <2>1. run' \in [Runs -> RunRecords]
    BY <1>4, TypeFromParts DEF Sweep, AlertsDone, RunDies, Sets, RunRecords
  <2>2. access' \in [Subs -> {"PENDING", "ACTIVE", "refused", "swept"}]
    BY <1>4 DEF Sweep, AlertsDone, RunDies, MessageTypeOK
  <2>3. losses' \in 0..MaxLosses
    BY <1>4 DEF Sweep, AlertsDone, RunDies, Sets, MessageTypeOK
  <2> QED BY <1>4, <2>1, <2>2, <2>3, TypeFromParts, TypeFromPartsNext DEF Sweep, AlertsDone, RunDies, Sets
<1>5. CASE UNCHANGED messageVars
  BY <1>5 DEF messageVars, MessageTypeOK
<1>6. ASSUME NEW r \in Runs, WriteOutcome(r)
      PROVE  MessageTypeOK'
  BY <1>6, WriteOutcomeTyped DEF WriteOutcome
<1> QED BY <1>1, <1>2, <1>3, <1>4, <1>5, <1>6, LookTyped, WriteRowTyped, RetryTyped
        DEF MessageNext, Topics, Positions

-----------------------------------------------------------------------------
(* What stands when rows are only added to, and no overdue access escapes a job *)

RowsKept ==
  /\ rows \in Seq(RowType) /\ rows' \in Seq(RowType) /\ Len(rows) <= Len(rows')
  /\ \A i \in Positions :
       /\ rows'[i].topic = rows[i].topic /\ rows'[i].to = rows[i].to
       /\ rows'[i].day = rows[i].day /\ rows'[i].now = rows[i].now
       /\ rows'[i].seen = rows[i].seen /\ rows'[i].of = rows[i].of
       /\ rows'[i].attempt = rows[i].attempt /\ rows[i].retries <= rows'[i].retries

Telling(q) == run[q].pc # "rest" /\ run[q].job = "reminders"

\* What is past its end at the clock of a running job was so before, or has slipped.
EndsForeseen ==
  /\ slipped \subseteq slipped'
  /\ \A q \in Runs, s \in Phones \ slipped' :
       Telling(q) /\ access'[s] = "ACTIVE" /\ ends'[s] <= run[q].now =>
         PastEnd(s, run[q].now)

LEMMA SameAccess ==
  ASSUME access' = access, ends' = ends, slipped' = slipped
  PROVE  EndsForeseen
BY DEF EndsForeseen, PastEnd

LEMMA KeptPositions ==
  ASSUME RowsKept
  PROVE  /\ Positions \subseteq Positions' /\ Positions \subseteq Nat
         /\ Len(rows) \in Nat /\ Len(rows') \in Nat
         /\ \A i \in Positions : rows[i] \in RowType
         /\ \A i \in Positions' : rows'[i] \in RowType
BY ElementOfSeq DEF RowsKept, Positions

LEMMA SaidStands ==
  ASSUME RowsKept
  PROVE  /\ \A t \in Topics : OnTopic(t) => OnTopic(t)'
         /\ \A t \in Topics, to \in People : Knew(t, to) => Knew(t, to)'
         /\ \A i \in Positions, t \in Topics, now \in Nat : Fresh(i, t, now) => Fresh(i, t, now)'
BY KeptPositions DEF RowsKept, OnTopic, Knew, Fresh

LEMMA KnownStands ==
  ASSUME RowsKept, NEW q \in Runs, run[q] \in Writing, JobKnows(q),
         run'[q].seen = run[q].seen, run'[q].topic = run[q].topic,
         run'[q].now = run[q].now, run'[q].left = run[q].left
  PROVE  JobKnows(q)'
<1>1. run[q].seen \in Nat
  BY DEF Writing
<1>2. run'[q].seen <= Len(rows')
  BY <1>1, KeptPositions DEF JobKnows, RowsKept
<1>3. ASSUME NEW i \in 1..run[q].seen
      PROVE  Fresh(i, run[q].topic, run[q].now)'
  <2>1. i \in Positions /\ Fresh(i, run[q].topic, run[q].now)
    BY <1>1, KeptPositions DEF JobKnows, Positions
  <2> QED BY <2>1, KeptPositions DEF Fresh, RowsKept
<1>4. ASSUME NEW to \in RecipientsOf(run[q].topic) \ run[q].left
      PROVE  Knew(run[q].topic, to)'
  <2>1. PICK j \in Positions : rows[j].topic = run[q].topic /\ rows[j].to = to
    BY DEF JobKnows, Knew
  <2> QED BY <2>1, KeptPositions DEF Knew, RowsKept
<1> QED BY <1>2, <1>3, <1>4 DEF JobKnows, Fresh, Knew

LEMMA WorkStands ==
  ASSUME MessageTypeOK, RowsKept, NEW q \in Runs, run'[q] = run[q], SendInv(q)
  PROVE  SendInv(q)'
<1> SUFFICES ASSUME AtWork(q) PROVE SendInv(q)'
  BY DEF SendInv, AtWork
<1>1. run[q] \in Writing
  BY RunCases
<1>2. ASSUME run[q].of = 0, JobKnows(q) PROVE JobKnows(q)'
  BY <1>1, <1>2, KnownStands
<1>3. ASSUME run[q].of # 0, RetryKnows(q) PROVE RetryKnows(q)'
  <2>1. run[q].attempt \in Nat
    BY <1>1 DEF Writing
  <2>2. /\ rows[run[q].of].retries \in Nat /\ rows'[run[q].of].retries \in Nat
    BY <1>3, KeptPositions DEF RetryKnows, RowType
  <2> QED BY <1>3, <2>1, <2>2, KeptPositions DEF RetryKnows, RowsKept
<1> QED BY <1>2, <1>3, KeptPositions DEF SendInv

LEMMA RemindStands ==
  ASSUME MessageTypeOK, RowsKept, EndsForeseen, NEW q \in Runs, run'[q] = run[q], RemindInv(q)
  PROVE  RemindInv(q)'
BY SaidStands, ExpiredTopic DEF RemindInv, EndsForeseen, Telling, PastEnd

LEMMA RowStands ==
  ASSUME RowsKept, NEW j \in Positions, LogInv(j)
  PROVE  LogInv(j)'
<1>1. /\ rows'[j].to = rows[j].to /\ rows'[j].topic = rows[j].topic
      /\ rows'[j].of = rows[j].of /\ rows'[j].seen = rows[j].seen
      /\ rows'[j].now = rows[j].now /\ rows'[j].attempt = rows[j].attempt
  BY DEF RowsKept
<1>2. /\ rows[j].seen \in Nat /\ rows[j].attempt \in Nat /\ j \in Nat
  BY KeptPositions DEF RowType
<1>3. ASSUME rows[j].of = 0, NEW i \in 1..rows[j].seen
      PROVE  Fresh(i, rows[j].topic, rows[j].now)'
  <2>1. i \in Positions /\ Fresh(i, rows[j].topic, rows[j].now)
    BY <1>2, <1>3, KeptPositions DEF LogInv, Positions
  <2> QED BY <1>1, <2>1, KeptPositions DEF Fresh, RowsKept
<1>4. ASSUME rows[j].of # 0
      PROVE  /\ rows'[j].of \in Positions' /\ rows'[rows'[j].of].topic = rows'[j].topic
             /\ rows'[j].attempt <= rows'[rows'[j].of].retries
  <2>1. rows[j].of \in Positions
    BY <1>4 DEF LogInv
  <2>2. rows[rows[j].of].retries \in Nat /\ rows'[rows[j].of].retries \in Nat
    BY <2>1, KeptPositions DEF RowType
  <2>3. /\ rows[rows[j].of].topic = rows[j].topic
        /\ rows[j].attempt <= rows[rows[j].of].retries
    BY <1>4 DEF LogInv
  <2>4. /\ rows'[rows[j].of].topic = rows[rows[j].of].topic
        /\ rows[rows[j].of].retries <= rows'[rows[j].of].retries
    BY <2>1 DEF RowsKept
  <2>5. rows[j].of \in Positions'
    BY <2>1, KeptPositions
  <2> QED BY <1>1, <1>2, <2>2, <2>3, <2>4, <2>5
<1> QED BY <1>1, <1>2, <1>3, <1>4 DEF LogInv, Fresh

\* Executions that write no row, and rows that nobody writes.
LEMMA StillStep ==
  ASSUME MessageInv, rows' = rows, losses' \in Nat, losses \in Nat, losses <= losses',
         \A q \in Runs : run'[q].pc = "row" /\ run'[q].of # 0 => run'[q] = run[q],
         losses' = losses => \A q \in Runs : AtWork(q) => run'[q] = run[q],
         slipped \subseteq slipped',
         \A s \in Phones \ slipped' :
           access'[s] = "swept" => access[s] = "swept" \/ OnTopic(Expired(s))
  PROVE  /\ \A j \in Positions' : LogInv(j)'
         /\ RetryInv' /\ Reminded' /\ Reached'
<1>1. \A j \in Positions' : LogInv(j)'
  BY DEF MessageInv, Positions, LogInv, Fresh
<1>2. \A q \in Runs : Retrying(q)' => Retrying(q) /\ run'[q] = run[q]
  BY DEF Retrying
<1>3. RetryInv'
  BY <1>2 DEF MessageInv, RetryInv, Positions
<1>4. Reminded'
  BY DEF MessageInv, Reminded, OnTopic, Positions
<1>5. ASSUME losses' = 0
      PROVE  losses = 0 /\ \A q \in Runs : AtWork(q) => run'[q] = run[q]
  BY <1>5
<1>6. ASSUME losses' = 0, NEW i
      PROVE  Sending(i) => Sending(i)'
  BY <1>5, <1>6 DEF Sending, AtWork
<1>7. ASSUME losses' = 0, NEW t, NEW to
      PROVE  /\ Handling(t, to) => Handling(t, to)'
             /\ Knew(t, to) => Knew(t, to)'
  BY <1>5, <1>7 DEF Handling, AtWork, Knew, Positions
<1>8. ASSUME losses' = 0, NEW i \in Positions
      PROVE  /\ rows'[i].status = "PENDING" => Sending(i)'
             /\ \A to \in RecipientsOf(rows'[i].topic) :
                  Handling(rows[i].topic, to)' \/ Knew(rows[i].topic, to)'
  <2>1. PICK t : t = rows[i].topic
    OBVIOUS
  <2>2. /\ rows[i].status = "PENDING" => Sending(i)
        /\ \A to \in RecipientsOf(t) : Handling(t, to) \/ Knew(t, to)
    BY <1>5, <1>8, <2>1 DEF MessageInv, Reached
  <2>3. \A to \in RecipientsOf(t) : Handling(t, to)' \/ Knew(t, to)'
    BY <1>7, <1>8, <2>2
  <2> QED BY <1>6, <1>8, <2>1, <2>2, <2>3 DEF Handling, Knew
<1>9. Positions' = Positions
  BY DEF Positions
<1> QED BY <1>1, <1>3, <1>4, <1>8, <1>9 DEF Reached

-----------------------------------------------------------------------------
(* The actions *)

Kept ==
  /\ \A r \in Runs : SendInv(r)' /\ RemindInv(r)'
  /\ \A j \in Positions' : LogInv(j)'
  /\ RetryInv' /\ Reminded' /\ Reached'

LEMMA SameRows ==
  ASSUME MessageTypeOK, rows' = rows
  PROVE  RowsKept
<1>1. \A i \in Positions : rows[i].retries \in Nat
  BY RowTyped DEF RowType
<1>2. rows \in Seq(RowType) /\ Len(rows) \in Nat
  BY DEF MessageTypeOK
<1> QED BY <1>1, <1>2 DEF RowsKept

LEMMA DaysAroundKeep ==
  ASSUME MessageInv, rows' = rows, run' = run, losses' = losses, EndsForeseen,
         \A s \in Phones : access'[s] = "swept" => access[s] = "swept"
  PROVE  Kept
<1>1. MessageTypeOK /\ losses \in Nat
  BY Clock DEF MessageInv
<1>2. RowsKept
  BY <1>1, SameRows
<1>3. \A q \in Runs : SendInv(q)' /\ RemindInv(q)'
  BY <1>1, <1>2, WorkStands, RemindStands DEF MessageInv
<1>4. /\ \A j \in Positions' : LogInv(j)'
      /\ RetryInv' /\ Reminded' /\ Reached'
  BY <1>1, StillStep DEF EndsForeseen
<1> QED BY <1>3, <1>4 DEF Kept

\* An activation: what it makes overdue behind a running job has slipped.
LEMMA ActivateKeeps ==
  ASSUME MessageInv, NEW x \in Subs, Activate(x)
  PROVE  Kept
<1>1. MessageTypeOK /\ slipped \subseteq slipped'
  BY DEF MessageInv, Activate
<1>2. ASSUME NEW q \in Runs, NEW s \in Phones \ slipped', Telling(q),
             access'[s] = "ACTIVE", ends'[s] <= run[q].now
      PROVE  PastEnd(s, run[q].now)
  <2>1. s \in Subs /\ run[q] # Resting /\ run' = run
    BY <1>1, <1>2, EndKnown DEF Telling, Resting, Activate
  <2> QED BY <1>2, <2>1 DEF Activate, PastEnd, Telling
<1>3. EndsForeseen
  BY <1>1, <1>2 DEF EndsForeseen
<1>4. \A s \in Phones : access'[s] = "swept" => access[s] = "swept"
  BY <1>1, EndKnown DEF Activate, MessageTypeOK
<1>5. rows' = rows /\ run' = run /\ losses' = losses
  BY DEF Activate
<1> QED BY <1>3, <1>4, <1>5, DaysAroundKeep

\* An execution that goes to rest, and has its reminders written if it swept.
LEMMA RestKeeps ==
  ASSUME MessageInv, rows' = rows, NEW r \in Runs, run' = [run EXCEPT ![r] = Resting],
         losses' \in Nat, losses <= losses', losses' = losses => ~AtWork(r), EndsForeseen,
         \A s \in Phones \ slipped' :
           access'[s] = "swept" => access[s] = "swept" \/ OnTopic(Expired(s))
  PROVE  Kept
<1>1. MessageTypeOK /\ losses \in Nat
  BY Clock DEF MessageInv
<1>2. RowsKept
  BY <1>1, SameRows
<1>3. run'[r] = Resting /\ \A q \in Runs \ {r} : run'[q] = run[q]
  BY <1>1 DEF MessageTypeOK
<1>4. \A q \in Runs \ {r} : SendInv(q)' /\ RemindInv(q)'
  BY <1>1, <1>2, <1>3, WorkStands, RemindStands DEF MessageInv
<1>5. SendInv(r)' /\ RemindInv(r)'
  BY <1>3 DEF SendInv, RemindInv, AtWork, Resting
<1>6. /\ \A q \in Runs : run'[q].pc = "row" /\ run'[q].of # 0 => run'[q] = run[q]
      /\ losses' = losses => \A q \in Runs : AtWork(q) => run'[q] = run[q]
  BY <1>3 DEF Resting
<1>7. /\ \A j \in Positions' : LogInv(j)'
      /\ RetryInv' /\ Reminded' /\ Reached'
  BY <1>1, <1>6, StillStep DEF EndsForeseen
<1> QED BY <1>4, <1>5, <1>7 DEF Kept

LEMMA SweepKeeps ==
  ASSUME MessageInv, NEW r \in Runs, Sweep(r)
  PROVE  Kept
<1>1. MessageTypeOK /\ losses \in Nat /\ losses' = losses /\ RemindInv(r)
  BY Clock DEF MessageInv, Sweep, Sets
<1>2. /\ ends' = ends /\ slipped' = slipped
      /\ \A s \in Subs :
           access'[s] = IF PastEnd(s, run[r].now) THEN "swept" ELSE access[s]
  BY DEF Sweep, Sets
<1>3. ASSUME NEW s \in Phones
      PROVE  s \in Subs
  BY MessageAssumption DEF MessageAssumption
<1>4. EndsForeseen
  BY <1>2, <1>3 DEF EndsForeseen, PastEnd
<1>5. ASSUME NEW s \in Phones \ slipped', access'[s] = "swept"
      PROVE  access[s] = "swept" \/ OnTopic(Expired(s))
  BY <1>1, <1>2, <1>3, <1>5 DEF Sweep, RemindInv
<1>6. ~AtWork(r)
  BY DEF Sweep, AtWork
<1>7. /\ rows' = rows /\ run' = [run EXCEPT ![r] = Resting]
      /\ losses' \in Nat /\ losses <= losses' /\ (losses' = losses => ~AtWork(r))
  BY <1>1, <1>6 DEF Sweep, Sets
<1> QED BY <1>4, <1>5, <1>7, RestKeeps

LEMMA DoneKeeps ==
  ASSUME MessageInv, NEW r \in Runs, AlertsDone(r) \/ RunDies(r)
  PROVE  Kept
<1>1. losses \in Nat
  BY Clock DEF MessageInv
<1>2. access' = access /\ ends' = ends /\ slipped' = slipped
  BY DEF AlertsDone, RunDies, Sets
<1>3. /\ rows' = rows /\ run' = [run EXCEPT ![r] = Resting]
      /\ losses' \in Nat /\ losses <= losses' /\ (losses' = losses => ~AtWork(r))
  BY <1>1 DEF AlertsDone, RunDies, Sets, AtWork
<1>4. \A s \in Phones : access'[s] = "swept" => access[s] = "swept" \/ OnTopic(Expired(s))
  BY <1>2
<1> QED BY <1>2, <1>3, <1>4, SameAccess, RestKeeps

\* Everything due goes on the list of a job that starts.
LEMMA StartKeeps ==
  ASSUME MessageInv, NEW r \in Runs, StartReminders(r) \/ StartAlerts(r)
  PROVE  Kept
<1>1. MessageTypeOK /\ losses \in Nat
  BY Clock DEF MessageInv
<1>2. PICK job \in {"reminders", "alerts"}, todo \in TopicSets :
        StartJob(r, job, todo) /\ (job = "reminders" => todo = Due(today))
  BY DEF StartReminders, StartAlerts, Due, TopicSets
<1> DEFINE x == [pc |-> "look", job |-> job, now |-> today, todo |-> todo]
<1>3. run[r] = Resting /\ run' = [run EXCEPT ![r] = x]
  BY <1>2 DEF StartJob, Sets
<1>4. /\ rows' = rows /\ access' = access /\ losses' = losses
      /\ ends' = ends /\ slipped' = slipped
  BY <1>2 DEF StartJob, Sets
<1>5. x.pc = "look" /\ x.job = job /\ x.now = today /\ x.todo = todo
  OBVIOUS
<1> HIDE DEF x
<1>6. run'[r] = x /\ \A q \in Runs \ {r} : run'[q] = run[q]
  BY <1>1, <1>3 DEF MessageTypeOK
<1>7. RowsKept /\ EndsForeseen
  BY <1>1, <1>4, SameRows, SameAccess
<1>8. \A q \in Runs \ {r} : SendInv(q)' /\ RemindInv(q)'
  BY <1>1, <1>6, <1>7, WorkStands, RemindStands DEF MessageInv
<1>9. SendInv(r)'
  BY <1>5, <1>6 DEF SendInv, AtWork
<1>10. ASSUME job = "reminders", NEW s \in Phones, PastEnd(s, today)
       PROVE  Expired(s) \in todo
  <2>1. ends[s] \in Nat /\ today \in Nat /\ ends[s] - today <= 0 /\ access[s] = "ACTIVE"
    BY <1>1, <1>10, Clock, EndKnown DEF PastEnd
  <2>2. Expired(s) \in Reminders /\ Expired(s)[1] = "EXPIRED" /\ Expired(s)[2] = s
    BY ExpiredTopic DEF Expired
  <2> QED BY <1>2, <1>10, <2>1, <2>2 DEF Due
<1>11. RemindInv(r)'
  BY <1>4, <1>5, <1>6, <1>10 DEF RemindInv, PastEnd
<1>12. /\ \A q \in Runs : run'[q].pc = "row" /\ run'[q].of # 0 => run'[q] = run[q]
       /\ \A q \in Runs : AtWork(q) => run'[q] = run[q]
  BY <1>3, <1>5, <1>6 DEF AtWork, Resting
<1>13. /\ \A j \in Positions' : LogInv(j)'
       /\ RetryInv' /\ Reminded' /\ Reached'
  BY <1>1, <1>4, <1>12, StillStep
<1> QED BY <1>8, <1>9, <1>11, <1>13 DEF Kept

\* What a job decides to write is fresh of every row there is.
LEMMA LookKeeps ==
  ASSUME MessageInv, NEW r \in Runs, NEW t \in Topics, Look(r, t)
  PROVE  Kept
<1>1. MessageTypeOK /\ losses \in Nat /\ run[r] \in Looking
  BY Clock, RunCases DEF MessageInv, Look
<1> DEFINE x == [run[r] EXCEPT !.todo = @ \ {t}]
           y == [pc |-> "row", job |-> run[r].job, now |-> run[r].now,
                 todo |-> run[r].todo \ {t}, topic |-> t, left |-> RecipientsOf(t),
                 seen |-> Len(rows), at |-> 0, of |-> 0, attempt |-> 0]
           said == Recent(t, run[r].now) \/ RecipientsOf(t) = {}
<1>2. /\ said => run' = [run EXCEPT ![r] = x]
      /\ ~said => run' = [run EXCEPT ![r] = y]
      /\ rows' = rows /\ access' = access /\ losses' = losses
      /\ ends' = ends /\ slipped' = slipped
  BY DEF Look, Sets
<1>3. /\ x.pc = "look" /\ x.job = run[r].job /\ x.now = run[r].now
      /\ x.todo = run[r].todo \ {t}
  BY <1>1 DEF Looking, Look
<1>4. /\ y.pc = "row" /\ y.job = run[r].job /\ y.now = run[r].now
      /\ y.todo = run[r].todo \ {t} /\ y.topic = t /\ y.left = RecipientsOf(t)
      /\ y.seen = Len(rows) /\ y.of = 0
  OBVIOUS
<1>5. said \/ ~said
  OBVIOUS
<1> HIDE DEF x, y
<1>6. /\ run'[r] = IF said THEN x ELSE y
      /\ \A q \in Runs \ {r} : run'[q] = run[q]
  BY <1>1, <1>2, <1>5 DEF MessageTypeOK
<1>7. RowsKept /\ EndsForeseen
  BY <1>1, <1>2, SameRows, SameAccess
<1>8. \A q \in Runs \ {r} : SendInv(q)' /\ RemindInv(q)'
  BY <1>1, <1>6, <1>7, WorkStands, RemindStands DEF MessageInv
<1>9. ASSUME ~said, NEW i \in Positions
      PROVE  Fresh(i, t, run[r].now)
  <2>1. rows[i].day \in Nat /\ run[r].now \in Nat
    BY <1>1, RowTyped DEF RowType, Looking
  <2>2. ~(rows[i].topic = t /\ (IsReminder(t) \/ rows[i].day >= run[r].now - 1))
    BY <1>9 DEF Recent, Positions
  <2> QED BY <2>1, <2>2 DEF Fresh
<1>10. SendInv(r)'
  <2>1. CASE said
    BY <1>3, <1>6, <2>1 DEF SendInv, AtWork
  <2>2. CASE ~said
    <3>1. run'[r] = y /\ Len(rows) \in Nat /\ run[r].job # "retry"
      BY <1>1, <1>6, <2>2 DEF MessageTypeOK, Looking
    <3>2. JobKnows(r)'
      BY <1>2, <1>4, <1>9, <2>2, <3>1 DEF JobKnows, Fresh, Positions
    <3> QED BY <1>4, <3>1, <3>2 DEF SendInv
  <2> QED BY <2>1, <2>2
<1>11. RemindInv(r)'
  <2> SUFFICES ASSUME run[r].job = "reminders", NEW s \in Phones \ slipped,
                      PastEnd(s, run[r].now)
               PROVE  \/ Expired(s) \in run'[r].todo
                      \/ run'[r].pc = "row" /\ run'[r].topic = Expired(s)
                      \/ OnTopic(Expired(s))'
    BY <1>2, <1>3, <1>4, <1>6 DEF RemindInv, PastEnd
  <2>1. Expired(s) \in run[r].todo \/ OnTopic(Expired(s))
    BY <1>1 DEF MessageInv, RemindInv, Looking
  <2>2. CASE OnTopic(Expired(s))
    BY <1>2, <2>2 DEF OnTopic, Positions
  <2>3. CASE Expired(s) \in run[r].todo /\ Expired(s) # t
    BY <1>3, <1>4, <1>6, <2>3
  <2>4. CASE Expired(s) = t /\ said
    <3>1. Recent(t, run[r].now)
      BY <2>4, ExpiredTopic
    <3> QED BY <1>2, <2>4, <3>1 DEF Recent, OnTopic, Positions
  <2>5. CASE Expired(s) = t /\ ~said
    BY <1>4, <1>6, <2>5
  <2> QED BY <2>1, <2>2, <2>3, <2>4, <2>5
<1>12. /\ \A q \in Runs : run'[q].pc = "row" /\ run'[q].of # 0 => run'[q] = run[q]
       /\ \A q \in Runs : AtWork(q) => run'[q] = run[q]
  BY <1>3, <1>4, <1>6 DEF AtWork, Look
<1>13. /\ \A j \in Positions' : LogInv(j)'
       /\ RetryInv' /\ Reminded' /\ Reached'
  <2>1. \A s \in Phones : access'[s] = "swept" => access[s] = "swept"
    BY <1>2
  <2> QED BY <1>1, <1>2, <1>12, <2>1, StillStep
<1> QED BY <1>8, <1>10, <1>11, <1>13 DEF Kept

\* What is true before and after a row is written.
LEMMA WriteFacts ==
  ASSUME MessageInv, NEW r \in Runs, NEW to \in Subs \union Staff, WriteRow(r, to)
  PROVE  /\ MessageTypeOK /\ run[r] \in Writing /\ AtWork(r) /\ SendInv(r)
         /\ run[r].pc = "row" /\ to \in run[r].left
         /\ access' = access /\ losses' = losses /\ ends' = ends /\ slipped' = slipped
         /\ run'[r].pc = "send" /\ run'[r].job = run[r].job /\ run'[r].now = run[r].now
         /\ run'[r].todo = run[r].todo /\ run'[r].topic = run[r].topic
         /\ run'[r].left = run[r].left \ {to} /\ run'[r].at = Len(rows) + 1
         /\ run'[r].seen = run[r].seen /\ run'[r].of = run[r].of
         /\ run'[r].attempt = run[r].attempt
         /\ \A q \in Runs \ {r} : run'[q] = run[q]
<1>1. MessageTypeOK /\ run[r] \in Writing /\ AtWork(r) /\ SendInv(r)
  BY RunCases DEF MessageInv, WriteRow, AtWork
<1> DEFINE x == [run[r] EXCEPT !.pc = "send", !.left = @ \ {to}, !.at = Len(rows) + 1]
<1>2. /\ run' = [run EXCEPT ![r] = x] /\ access' = access /\ losses' = losses
      /\ ends' = ends /\ slipped' = slipped
  BY DEF WriteRow, Sets
<1>3. /\ x.pc = "send" /\ x.job = run[r].job /\ x.now = run[r].now
      /\ x.todo = run[r].todo /\ x.topic = run[r].topic
      /\ x.left = run[r].left \ {to} /\ x.at = Len(rows) + 1
      /\ x.seen = run[r].seen /\ x.of = run[r].of /\ x.attempt = run[r].attempt
  BY <1>1 DEF Writing
<1> HIDE DEF x
<1>4. run'[r] = x /\ \A q \in Runs \ {r} : run'[q] = run[q]
  BY <1>1, <1>2 DEF MessageTypeOK
<1> QED BY <1>1, <1>2, <1>3, <1>4 DEF WriteRow

LEMMA WriteGrows ==
  ASSUME MessageInv, NEW r \in Runs, NEW to \in Subs \union Staff, WriteRow(r, to)
  PROVE  /\ RowsKept /\ Len(rows) \in Nat /\ Len(rows') = Len(rows) + 1
         /\ Positions' = Positions \union {Len(rows) + 1} /\ Len(rows) + 1 \notin Positions
         /\ \A i \in Positions : rows'[i] = rows[i]
         /\ rows'[Len(rows) + 1].topic = run[r].topic /\ rows'[Len(rows) + 1].to = to
         /\ rows'[Len(rows) + 1].now = run[r].now /\ rows'[Len(rows) + 1].seen = run[r].seen
         /\ rows'[Len(rows) + 1].of = run[r].of
         /\ rows'[Len(rows) + 1].attempt = run[r].attempt
<1>1. MessageTypeOK /\ rows \in Seq(RowType) /\ Len(rows) \in Nat
  BY DEF MessageInv, MessageTypeOK
<1>2. PICK row \in RowType :
           /\ rows' = Append(rows, row)
           /\ row.topic = run[r].topic /\ row.to = to /\ row.now = run[r].now
           /\ row.seen = run[r].seen /\ row.of = run[r].of /\ row.attempt = run[r].attempt
  BY <1>1, LogWritten
<1>3. /\ rows' \in Seq(RowType) /\ Len(rows') = Len(rows) + 1
      /\ \A i \in Positions : rows'[i] = rows[i]
      /\ rows'[Len(rows) + 1] = row
  BY <1>1, <1>2, AppendProperties DEF Positions
<1>4. \A i \in Positions : rows[i].retries \in Nat
  BY <1>1, RowTyped DEF RowType
<1>5. RowsKept
  BY <1>1, <1>3, <1>4 DEF RowsKept
<1>6. Positions' = Positions \union {Len(rows) + 1} /\ Len(rows) + 1 \notin Positions
  BY <1>1, <1>3 DEF Positions
<1> QED BY <1>1, <1>2, <1>3, <1>5, <1>6

LEMMA WriteKeepsWork ==
  ASSUME MessageInv, NEW r \in Runs, NEW to \in Subs \union Staff, WriteRow(r, to)
  PROVE  \A q \in Runs : SendInv(q)' /\ RemindInv(q)'
<1> DEFINE n == Len(rows) + 1
<1>1. EndsForeseen
  BY WriteFacts, SameAccess
<1>2. \A q \in Runs \ {r} : SendInv(q)' /\ RemindInv(q)'
  BY <1>1, WriteFacts, WriteGrows, WorkStands, RemindStands DEF MessageInv
<1>3. /\ run[r].left \subseteq RecipientsOf(run[r].topic)
      /\ run[r].job = "retry" <=> run[r].of # 0
      /\ run[r].of = 0 => JobKnows(r)
      /\ run[r].of # 0 => RetryKnows(r)
  BY WriteFacts DEF SendInv
<1>4. run[r].topic \in Topics /\ run[r].now \in Nat /\ run[r].seen \in Nat
  BY WriteFacts DEF Writing
<1>5. n \in Positions' /\ rows'[n].topic = run[r].topic /\ rows'[n].to = to
  BY WriteGrows
<1>6. ASSUME run[r].of = 0
      PROVE  JobKnows(r)'
  <2>1. run'[r].seen <= Len(rows')
    BY <1>3, <1>4, <1>6, WriteFacts, WriteGrows DEF JobKnows
  <2>2. ASSUME NEW i \in 1..run[r].seen
        PROVE  Fresh(i, run[r].topic, run[r].now)'
    <3>1. i \in Positions /\ Fresh(i, run[r].topic, run[r].now)
      BY <1>3, <1>4, <1>6, WriteGrows DEF JobKnows, Positions
    <3>2. rows'[i] = rows[i] /\ run'[r].topic = run[r].topic /\ run'[r].now = run[r].now
      BY <3>1, WriteFacts, WriteGrows
    <3> QED BY <3>1, <3>2 DEF Fresh
  <2>3. ASSUME NEW p \in RecipientsOf(run[r].topic) \ (run[r].left \ {to})
        PROVE  Knew(run[r].topic, p)'
    <3>1. run'[r].topic = run[r].topic
      BY WriteFacts
    <3>2. CASE p = to
      BY <1>5, <3>1, <3>2 DEF Knew
    <3>3. CASE p # to
      <4>1. PICK j \in Positions : rows[j].topic = run[r].topic /\ rows[j].to = p
        BY <1>3, <1>6, <3>3 DEF JobKnows, Knew
      <4>2. j \in Positions' /\ rows'[j] = rows[j]
        BY WriteGrows
      <4> QED BY <3>1, <4>1, <4>2 DEF Knew
    <3> QED BY <3>2, <3>3
  <2> QED BY <2>1, <2>2, <2>3, WriteFacts DEF JobKnows, Fresh, Knew
<1>7. ASSUME run[r].of # 0
      PROVE  RetryKnows(r)'
  <2>1. run[r].of \in Positions /\ rows'[run[r].of] = rows[run[r].of] /\ run[r].of \in Positions'
    BY <1>3, <1>7, WriteGrows DEF RetryKnows
  <2>2. run[r].left \ {to} = {}
    BY <1>3, <1>7, WriteFacts DEF RetryKnows
  <2>3. /\ rows[run[r].of].topic = run[r].topic
        /\ run[r].attempt <= rows[run[r].of].retries
    BY <1>3, <1>7 DEF RetryKnows
  <2> QED BY <2>1, <2>2, <2>3, WriteFacts DEF RetryKnows
<1>8. SendInv(r)'
  BY <1>3, <1>5, <1>6, <1>7, WriteFacts DEF SendInv
<1>9. RemindInv(r)'
  <2> SUFFICES ASSUME run[r].job = "reminders", NEW s \in Phones \ slipped,
                      PastEnd(s, run[r].now)
               PROVE  Expired(s) \in run[r].todo \/ OnTopic(Expired(s))'
    BY WriteFacts DEF RemindInv, PastEnd
  <2>1. \/ Expired(s) \in run[r].todo
        \/ run[r].topic = Expired(s)
        \/ OnTopic(Expired(s))
    BY WriteFacts DEF MessageInv, RemindInv
  <2>2. OnTopic(Expired(s)) => OnTopic(Expired(s))'
    BY WriteGrows, SaidStands, ExpiredTopic
  <2>3. run[r].topic = Expired(s) => OnTopic(Expired(s))'
    BY <1>5 DEF OnTopic
  <2> QED BY <2>1, <2>2, <2>3
<1> QED BY <1>2, <1>8, <1>9

LEMMA WriteKeepsRows ==
  ASSUME MessageInv, NEW r \in Runs, NEW to \in Subs \union Staff, WriteRow(r, to)
  PROVE  (\A j \in Positions' : LogInv(j)') /\ RetryInv'
<1>0. PICK n \in Nat : n = Len(rows) + 1
  BY WriteGrows
<1>1. \A j \in Positions : LogInv(j)'
  BY WriteGrows, RowStands DEF MessageInv
<1>2. /\ rows'[n].topic = run[r].topic /\ rows'[n].to = to
      /\ rows'[n].now = run[r].now /\ rows'[n].seen = run[r].seen
      /\ rows'[n].of = run[r].of /\ rows'[n].attempt = run[r].attempt
      /\ Positions' = Positions \union {n} /\ n \notin Positions
      /\ \A i \in Positions : rows'[i] = rows[i]
  BY <1>0, WriteGrows
<1>3. SendInv(r)' /\ SendInv(r)
  BY WriteKeepsWork, WriteFacts
<1>4. LogInv(n)'
  <2>1. to \in RecipientsOf(run[r].topic)
    BY <1>3, WriteFacts DEF SendInv
  <2>2. ASSUME run[r].of = 0
        PROVE  /\ run[r].seen < n
               /\ \A i \in 1..run[r].seen : Fresh(i, run[r].topic, run[r].now)'
    <3>1. JobKnows(r) /\ run[r].seen \in Nat /\ Len(rows) \in Nat
      BY <1>3, <2>2, WriteFacts, WriteGrows DEF SendInv, Writing
    <3>2. JobKnows(r)'
      BY <1>3, <2>2, WriteFacts DEF SendInv, AtWork
    <3> QED BY <1>0, <3>1, <3>2, WriteFacts DEF JobKnows
  <2>3. ASSUME run[r].of # 0
        PROVE  /\ run[r].of \in Positions' /\ rows'[run[r].of].topic = run[r].topic
               /\ run[r].attempt <= rows'[run[r].of].retries
    <3>1. RetryKnows(r)'
      BY <1>3, <2>3, WriteFacts DEF SendInv, AtWork
    <3> QED BY <3>1, WriteFacts DEF RetryKnows
  <2>4. run'[r].topic = run[r].topic /\ run'[r].now = run[r].now
    BY WriteFacts
  <2> QED BY <1>2, <2>1, <2>2, <2>3, <2>4 DEF LogInv, Fresh
<1>5. RetryInv
  BY DEF MessageInv
<1>6. ASSUME NEW i \in Positions', NEW j \in Positions', i # j,
             rows'[i].of # 0, rows'[i].of = rows'[j].of
      PROVE  rows'[i].attempt # rows'[j].attempt
  <2>1. ASSUME NEW k \in Positions, rows'[k].of = run[r].of, run[r].of # 0
        PROVE  rows'[k].attempt # run[r].attempt
    BY <1>2, <1>5, <2>1, WriteFacts DEF RetryInv, Retrying
  <2>2. CASE i \in Positions /\ j \in Positions
    BY <1>2, <1>5, <1>6, <2>2 DEF RetryInv
  <2>3. CASE i = n \/ j = n
    BY <1>2, <1>6, <2>1, <2>3
  <2> QED BY <1>2, <2>2, <2>3
<1>7. ASSUME NEW q \in Runs, Retrying(q)'
      PROVE  q # r /\ Retrying(q) /\ run'[q] = run[q]
  BY <1>7, WriteFacts DEF Retrying
<1>8. ASSUME NEW q \in Runs, Retrying(q)', NEW i \in Positions', rows'[i].of = run'[q].of
      PROVE  rows'[i].attempt # run'[q].attempt
  <2>1. q # r /\ Retrying(q) /\ run'[q] = run[q]
    BY <1>7, <1>8
  <2>2. CASE i \in Positions
    BY <1>2, <1>5, <1>8, <2>1, <2>2 DEF RetryInv
  <2>3. CASE i = n
    <3>1. run[r].of = run[q].of /\ Retrying(r)
      BY <1>2, <1>8, <2>1, <2>3, WriteFacts DEF Retrying
    <3> QED BY <1>2, <1>5, <2>1, <2>3, <3>1 DEF RetryInv
  <2> QED BY <1>2, <2>2, <2>3
<1>9. \A p, q \in Runs : p # q /\ Retrying(p)' /\ Retrying(q)' /\ run'[q].of = run'[p].of =>
        run'[q].attempt # run'[p].attempt
  BY <1>5, <1>7 DEF RetryInv
<1>10. RetryInv'
  BY <1>6, <1>8, <1>9 DEF RetryInv
<1> QED BY <1>1, <1>2, <1>4, <1>10

LEMMA WriteKeepsSilence ==
  ASSUME MessageInv, NEW r \in Runs, NEW to \in Subs \union Staff, WriteRow(r, to)
  PROVE  Reminded' /\ Reached'
<1>0. PICK n \in Nat : n = Len(rows) + 1
  BY WriteGrows
<1>1. /\ rows'[n].topic = run[r].topic /\ rows'[n].to = to
      /\ Positions' = Positions \union {n}
      /\ \A i \in Positions : rows'[i] = rows[i]
  BY <1>0, WriteGrows
<1>2. Reminded /\ Reached
  BY DEF MessageInv
<1>3. \A t : OnTopic(t) => OnTopic(t)'
  BY <1>1 DEF OnTopic
<1>4. Reminded'
  BY <1>2, <1>3, WriteFacts DEF Reminded
<1>5. ASSUME losses' = 0, NEW i \in Positions', rows'[i].status = "PENDING"
      PROVE  Sending(i)'
  <2>1. CASE i = n
    BY <1>0, <2>1, WriteFacts DEF Sending
  <2>2. CASE i \in Positions
    <3>1. PICK q \in Runs : run[q].pc = "send" /\ run[q].at = i
      BY <1>1, <1>2, <1>5, <2>2, WriteFacts DEF Reached, Sending
    <3>2. run'[q] = run[q]
      BY <3>1, WriteFacts
    <3> QED BY <3>1, <3>2 DEF Sending
  <2> QED BY <1>1, <2>1, <2>2
<1>6. ASSUME NEW t, NEW p, Handling(t, p)
      PROVE  Handling(t, p)' \/ Knew(t, p)'
  <2>1. PICK q \in Runs : /\ run[q].pc \in {"row", "send"} /\ run[q].topic = t
                          /\ run[q].of = 0 /\ p \in run[q].left
    BY <1>6 DEF Handling
  <2>2. CASE q # r
    <3>1. run'[q] = run[q]
      BY <2>2, WriteFacts
    <3> QED BY <2>1, <3>1 DEF Handling
  <2>3. CASE q = r /\ p = to
    BY <1>1, <2>1, <2>3 DEF Knew
  <2>4. CASE q = r /\ p # to
    BY <2>1, <2>4, WriteFacts DEF Handling
  <2> QED BY <2>2, <2>3, <2>4
<1>7. ASSUME NEW t, NEW p, Knew(t, p)
      PROVE  Knew(t, p)'
  BY <1>1, <1>7 DEF Knew
<1>8. ASSUME losses' = 0, NEW i \in Positions, NEW p \in RecipientsOf(rows[i].topic)
      PROVE  Handling(rows[i].topic, p) \/ Knew(rows[i].topic, p)
  BY <1>2, <1>8, WriteFacts DEF Reached
<1>9. ASSUME losses' = 0, NEW i \in Positions', NEW t, t = rows'[i].topic,
             NEW p \in RecipientsOf(t)
      PROVE  Handling(t, p)' \/ Knew(t, p)'
  <2>1. CASE i \in Positions
    BY <1>1, <1>6, <1>7, <1>8, <1>9, <2>1
  <2>2. CASE i = n /\ run[r].of # 0
    <3>1. run[r].of \in Positions /\ rows[run[r].of].topic = t
      BY <1>1, <1>9, <2>2, WriteFacts DEF SendInv, RetryKnows
    <3> QED BY <1>6, <1>7, <1>8, <1>9, <3>1
  <2>3. CASE i = n /\ run[r].of = 0
    <3>1. t = run[r].topic /\ JobKnows(r)
      BY <1>1, <1>9, <2>3, WriteFacts DEF SendInv
    <3>2. CASE p \in run[r].left
      <4>1. Handling(t, p)
        BY <2>3, <3>1, <3>2, WriteFacts DEF Handling
      <4> QED BY <1>6, <4>1
    <3>3. CASE p \notin run[r].left
      <4>1. Knew(t, p)
        BY <1>9, <3>1, <3>3 DEF JobKnows
      <4> QED BY <1>7, <4>1
    <3> QED BY <3>2, <3>3
  <2> QED BY <1>1, <2>1, <2>2, <2>3
<1>10. ASSUME losses' = 0, NEW i \in Positions', NEW p \in RecipientsOf(rows'[i].topic)
       PROVE  Handling(rows[i].topic, p)' \/ Knew(rows[i].topic, p)'
  <2>1. PICK t : t = rows'[i].topic
    OBVIOUS
  <2>2. Handling(t, p)' \/ Knew(t, p)'
    BY <1>9, <1>10, <2>1
  <2> QED BY <2>1, <2>2 DEF Handling, Knew
<1>11. Reached'
  BY <1>5, <1>10 DEF Reached
<1> QED BY <1>4, <1>11

\* Rows that change but for their topics and recipients.
LEMMA SilenceStands ==
  ASSUME Reminded, Reached, Positions' = Positions, access' = access, losses' = losses,
         slipped' = slipped,
         \A i \in Positions : rows'[i].topic = rows[i].topic /\ rows'[i].to = rows[i].to,
         \A i \in Positions : rows'[i].status = "PENDING" =>
           /\ rows[i].status = "PENDING"
           /\ \A q \in Runs : run[q].pc = "send" /\ run[q].at = i => run'[q] = run[q],
         \A q \in Runs : run[q].pc \in {"row", "send"} /\ run[q].of = 0 /\ run[q].left # {} =>
           /\ run'[q].pc \in {"row", "send"} /\ run'[q].of = 0
           /\ run'[q].topic = run[q].topic /\ run'[q].left = run[q].left
  PROVE  Reminded' /\ Reached'
<1>1. Reminded'
  BY DEF Reminded, OnTopic
<1>2. ASSUME losses' = 0, NEW i \in Positions, rows'[i].status = "PENDING"
      PROVE  Sending(i)'
  BY <1>2 DEF Reached, Sending
<1>3. ASSUME NEW t, NEW p
      PROVE  /\ Handling(t, p) => Handling(t, p)'
             /\ Knew(t, p) => Knew(t, p)'
  BY DEF Handling, Knew
<1>4. ASSUME losses' = 0, NEW i \in Positions, NEW p \in RecipientsOf(rows'[i].topic)
      PROVE  Handling(rows[i].topic, p)' \/ Knew(rows[i].topic, p)'
  <2>1. PICK t : t = rows[i].topic
    OBVIOUS
  <2>2. Handling(t, p) \/ Knew(t, p)
    BY <1>4, <2>1 DEF Reached
  <2>3. rows'[i].topic = t
    BY <2>1
  <2> QED BY <1>3, <2>2, <2>3 DEF Handling, Knew
<1> QED BY <1>1, <1>2, <1>4 DEF Reached

\* Sending: the row reads an outcome, and the execution has told one more recipient.
LEMMA OutcomeFacts ==
  ASSUME MessageInv, NEW r \in Runs, WriteOutcome(r)
  PROVE  /\ MessageTypeOK /\ run[r] \in Writing /\ AtWork(r) /\ SendInv(r)
         /\ run[r].pc = "send" /\ run[r].at \in Positions /\ RowsKept
         /\ Positions' = Positions /\ access' = access /\ losses' = losses
         /\ ends' = ends /\ slipped' = slipped
         /\ \A q \in Runs \ {r} : run'[q] = run[q]
         /\ \/ run'[r] = Resting /\ run[r].left = {}
            \/ /\ run'[r].pc = "look" /\ run'[r].job = run[r].job
               /\ run'[r].now = run[r].now /\ run'[r].todo = run[r].todo
               /\ run[r].left = {}
            \/ /\ run'[r].pc = "row" /\ run'[r].job = run[r].job
               /\ run'[r].now = run[r].now /\ run'[r].todo = run[r].todo
               /\ run'[r].topic = run[r].topic /\ run'[r].left = run[r].left
               /\ run'[r].seen = run[r].seen /\ run'[r].of = run[r].of
               /\ run[r].left # {} /\ run[r].of = 0
<1>1. MessageTypeOK /\ run[r] \in Writing /\ AtWork(r) /\ SendInv(r)
  BY RunCases DEF MessageInv, WriteOutcome, AtWork
<1>2. run[r].pc = "send" /\ run[r].at \in Positions
  BY <1>1 DEF WriteOutcome, SendInv
<1>3. \A i \in Positions : rows[i].retries \in Nat
  BY <1>1, RowTyped DEF RowType
<1>4. rows \in Seq(RowType) /\ Len(rows) \in Nat
  BY <1>1 DEF MessageTypeOK
<1>5. RowsKept /\ Positions' = Positions
  BY <1>1, <1>2, <1>3, <1>4, OutcomeWritten DEF RowsKept, Positions
<1> DEFINE x == [run[r] EXCEPT !.pc = "row"]
           y == [pc |-> "look", job |-> run[r].job, now |-> run[r].now,
                 todo |-> run[r].todo]
<1>6. /\ x.pc = "row" /\ x.job = run[r].job /\ x.now = run[r].now
      /\ x.todo = run[r].todo /\ x.topic = run[r].topic /\ x.left = run[r].left
      /\ x.seen = run[r].seen /\ x.of = run[r].of
      /\ y.pc = "look" /\ y.job = run[r].job /\ y.now = run[r].now
      /\ y.todo = run[r].todo
  BY <1>1 DEF Writing
<1>7. \/ run' = [run EXCEPT ![r] = Resting] /\ run[r].left = {}
      \/ run' = [run EXCEPT ![r] = y] /\ run[r].left = {}
      \/ run' = [run EXCEPT ![r] = x] /\ run[r].left # {}
  BY DEF WriteOutcome, Sets
<1> HIDE DEF x, y
<1>8. \/ run'[r] = Resting /\ run[r].left = {}
      \/ run'[r] = y /\ run[r].left = {}
      \/ run'[r] = x /\ run[r].left # {}
  BY <1>1, <1>7 DEF MessageTypeOK
<1>9. \A q \in Runs \ {r} : run'[q] = run[q]
  BY <1>1, <1>7 DEF MessageTypeOK
<1>10. run[r].left # {} => run[r].of = 0
  BY <1>1, <1>2 DEF SendInv, RetryKnows
<1>11. access' = access /\ losses' = losses /\ ends' = ends /\ slipped' = slipped
  BY DEF WriteOutcome, Sets
<1> QED BY <1>1, <1>2, <1>5, <1>6, <1>8, <1>9, <1>10, <1>11

LEMMA OutcomeKeeps ==
  ASSUME MessageInv, NEW r \in Runs, WriteOutcome(r)
  PROVE  Kept
<1>1. EndsForeseen
  BY OutcomeFacts, SameAccess
<1>2. \A q \in Runs \ {r} : SendInv(q)' /\ RemindInv(q)'
  BY <1>1, OutcomeFacts, WorkStands, RemindStands DEF MessageInv
<1>3. SendInv(r)'
  <2>1. CASE run'[r].pc = "row"
    <3>1. /\ run'[r].job = run[r].job /\ run'[r].now = run[r].now
          /\ run'[r].topic = run[r].topic /\ run'[r].left = run[r].left
          /\ run'[r].seen = run[r].seen /\ run'[r].of = run[r].of /\ run[r].of = 0
      BY <2>1, OutcomeFacts DEF Resting
    <3>2. JobKnows(r)
      BY <3>1, OutcomeFacts DEF SendInv
    <3>3. JobKnows(r)'
      BY <3>1, <3>2, OutcomeFacts, KnownStands
    <3> QED BY <2>1, <3>1, <3>3, OutcomeFacts DEF SendInv
  <2>2. CASE run'[r].pc # "row"
    BY <2>2, OutcomeFacts DEF SendInv, AtWork, Resting
  <2> QED BY <2>1, <2>2
<1>4. RemindInv(r)'
  <2> SUFFICES ASSUME run'[r].pc # "rest", run'[r].job = "reminders",
                      NEW s \in Phones \ slipped, PastEnd(s, run'[r].now)
               PROVE  Expired(s) \in run'[r].todo \/ OnTopic(Expired(s))'
    BY OutcomeFacts DEF RemindInv, PastEnd
  <2>1. /\ run'[r].job = run[r].job /\ run'[r].now = run[r].now
        /\ run'[r].todo = run[r].todo
    BY OutcomeFacts DEF Resting
  <2>2. Expired(s) \in run[r].todo \/ OnTopic(Expired(s))
    BY <2>1, OutcomeFacts DEF MessageInv, RemindInv
  <2> QED BY <2>1, <2>2, OutcomeFacts, SaidStands, ExpiredTopic
<1>5. \A j \in Positions' : LogInv(j)'
  BY OutcomeFacts, RowStands DEF MessageInv
<1>6. \A i \in Positions :
        /\ rows'[i].topic = rows[i].topic /\ rows'[i].to = rows[i].to
        /\ rows'[i].of = rows[i].of /\ rows'[i].attempt = rows[i].attempt
  BY OutcomeFacts DEF RowsKept
<1>7. RetryInv'
  <2>1. \A q \in Runs : Retrying(q)' => Retrying(q) /\ run'[q] = run[q]
    BY OutcomeFacts DEF Retrying, Resting
  <2>2. RetryInv /\ Positions' = Positions
    BY OutcomeFacts DEF MessageInv
  <2> QED BY <1>6, <2>1, <2>2 DEF RetryInv
<1>8. \A i \in Positions : rows'[i].status = "PENDING" =>
        i # run[r].at /\ rows[i].status = "PENDING"
  BY OutcomeFacts, OutcomeWritten
<1>9. Reminded' /\ Reached'
  <2>1. /\ Reminded /\ Reached /\ Positions' = Positions
        /\ access' = access /\ losses' = losses /\ slipped' = slipped
    BY OutcomeFacts DEF MessageInv
  <2>2. \A i \in Positions : rows'[i].status = "PENDING" =>
          /\ rows[i].status = "PENDING"
          /\ \A q \in Runs : run[q].pc = "send" /\ run[q].at = i => run'[q] = run[q]
    BY <1>8, OutcomeFacts
  <2>3. \A q \in Runs : run[q].pc \in {"row", "send"} /\ run[q].of = 0 /\ run[q].left # {} =>
          /\ run'[q].pc \in {"row", "send"} /\ run'[q].of = 0
          /\ run'[q].topic = run[q].topic /\ run'[q].left = run[q].left
    BY OutcomeFacts
  <2> QED BY <1>6, <2>1, <2>2, <2>3, SilenceStands
<1> QED BY <1>2, <1>3, <1>4, <1>5, <1>7, <1>9 DEF Kept

\* A retry that is about to write has a number that no other retry of its row has.
LEMMA RetryKeeps ==
  ASSUME MessageInv, NEW r \in Runs, NEW k \in Positions, Retry(r, k)
  PROVE  Kept
<1>1. MessageTypeOK /\ LogInv(k) /\ RetryInv
  BY DEF MessageInv
<1> DEFINE x == [pc |-> "row", job |-> "retry", now |-> today, todo |-> {},
                 topic |-> rows[k].topic, left |-> {rows[k].to}, seen |-> 0, at |-> 0,
                 of |-> k, attempt |-> rows[k].retries + 1]
<1>2. /\ x.pc = "row" /\ x.job = "retry" /\ x.topic = rows[k].topic
      /\ x.left = {rows[k].to} /\ x.of = k /\ x.attempt = rows[k].retries + 1
  OBVIOUS
<1>3. /\ run' = [run EXCEPT ![r] = x] /\ run[r] = Resting
      /\ access' = access /\ losses' = losses /\ ends' = ends /\ slipped' = slipped
  BY DEF Retry, Sets
<1> HIDE DEF x
<1>4. run'[r] = x /\ \A q \in Runs \ {r} : run'[q] = run[q]
  BY <1>1, <1>3 DEF MessageTypeOK
<1>5. /\ rows[k].retries \in Nat /\ rows'[k].retries = rows[k].retries + 1
      /\ Len(rows) \in Nat /\ rows \in Seq(RowType) /\ k \in Nat /\ k # 0
  <2>1. rows[k] \in RowType /\ rows'[k].retries = rows[k].retries + 1
    BY <1>1, RetryCounted
  <2>2. rows \in Seq(RowType) /\ Len(rows) \in Nat
    BY <1>1 DEF MessageTypeOK
  <2>3. rows[k].retries \in Nat
    BY <2>1 DEF RowType
  <2>4. k \in Nat /\ k # 0
    BY <2>2 DEF Positions
  <2> QED BY <2>1, <2>2, <2>3, <2>4
<1>6. RowsKept /\ Positions' = Positions /\ EndsForeseen
  BY <1>1, <1>3, <1>5, RetryCounted, SameAccess DEF RowsKept, Positions
<1>7. \A q \in Runs \ {r} : SendInv(q)' /\ RemindInv(q)'
  BY <1>1, <1>4, <1>6, WorkStands, RemindStands DEF MessageInv
<1>8. \A i \in Positions :
        /\ rows'[i].topic = rows[i].topic /\ rows'[i].to = rows[i].to
        /\ rows'[i].of = rows[i].of /\ rows'[i].attempt = rows[i].attempt
        /\ rows'[i].status = rows[i].status
  BY <1>1, RetryCounted
<1>9. SendInv(r)'
  <2>1. RetryKnows(r)'
    BY <1>2, <1>4, <1>5, <1>6, <1>8 DEF RetryKnows
  <2>2. {rows[k].to} \subseteq RecipientsOf(rows[k].topic)
    BY <1>1 DEF LogInv
  <2> QED BY <1>2, <1>4, <1>5, <2>1, <2>2 DEF SendInv
<1>10. RemindInv(r)'
  BY <1>2, <1>4 DEF RemindInv
<1>11. \A j \in Positions' : LogInv(j)'
  BY <1>6, RowStands DEF MessageInv
<1>12. ASSUME NEW i \in Positions, rows[i].of = k
       PROVE  rows[i].attempt # x.attempt
  <2>1. rows[i].attempt \in Nat /\ rows[i].attempt <= rows[k].retries
    BY <1>1, <1>5, <1>12, RowTyped DEF MessageInv, LogInv, RowType
  <2> QED BY <1>2, <1>5, <2>1
<1>13. ASSUME NEW q \in Runs \ {r}, Retrying(q), run[q].of = k
       PROVE  run[q].attempt # x.attempt
  <2>1. AtWork(q) /\ SendInv(q) /\ run[q].attempt \in Nat
    BY <1>1, <1>13, RunCases DEF MessageInv, Retrying, AtWork, Writing
  <2>2. run[q].attempt <= rows[k].retries
    BY <1>5, <1>13, <2>1 DEF SendInv, RetryKnows
  <2> QED BY <1>2, <1>5, <2>1, <2>2
<1>14. RetryInv'
  <2>1. \A q \in Runs \ {r} : Retrying(q)' <=> Retrying(q)
    BY <1>4 DEF Retrying
  <2>2. ASSUME NEW q \in Runs, Retrying(q)', NEW i \in Positions, rows[i].of = run'[q].of
        PROVE  rows[i].attempt # run'[q].attempt
    BY <1>1, <1>2, <1>4, <1>12, <2>1, <2>2 DEF RetryInv
  <2>3. ASSUME NEW p \in Runs, NEW q \in Runs \ {p}, Retrying(p)', Retrying(q)',
               run'[q].of = run'[p].of
        PROVE  run'[q].attempt # run'[p].attempt
    <3>1. CASE p # r /\ q # r
      BY <1>1, <1>4, <2>1, <2>3, <3>1 DEF RetryInv
    <3>2. CASE p = r
      BY <1>2, <1>4, <1>13, <2>1, <2>3, <3>2
    <3>3. CASE q = r
      BY <1>2, <1>4, <1>13, <2>1, <2>3, <3>3
    <3> QED BY <3>1, <3>2, <3>3
  <2> QED BY <1>1, <1>6, <1>8, <2>2, <2>3 DEF RetryInv
<1>15. Reminded' /\ Reached'
  <2>1. Reminded /\ Reached
    BY DEF MessageInv
  <2>2. \A q \in Runs : run[q].pc \in {"row", "send"} => run'[q] = run[q]
    BY <1>3, <1>4 DEF Resting
  <2>3. \A i \in Positions : rows'[i].status = "PENDING" =>
          /\ rows[i].status = "PENDING"
          /\ \A q \in Runs : run[q].pc = "send" /\ run[q].at = i => run'[q] = run[q]
    BY <1>8, <2>2
  <2>4. \A q \in Runs : run[q].pc \in {"row", "send"} /\ run[q].of = 0 /\ run[q].left # {} =>
          /\ run'[q].pc \in {"row", "send"} /\ run'[q].of = 0
          /\ run'[q].topic = run[q].topic /\ run'[q].left = run[q].left
    BY <2>2
  <2> QED BY <1>3, <1>6, <1>8, <2>1, <2>3, <2>4, SilenceStands
<1> QED BY <1>7, <1>9, <1>10, <1>11, <1>14, <1>15 DEF Kept

LEMMA MessageInitial == MessageInit => MessageInv
<1> SUFFICES ASSUME MessageInit PROVE MessageInv
  OBVIOUS
<1>1. rows = <<>> /\ Positions = {} /\ Len(rows) = 0
  BY DEF MessageInit, Positions
<1>2. \A r \in Runs : run[r] = Resting
  BY DEF MessageInit
<1>3. MessageTypeOK
  BY <1>1, MessageAssumption, EmptySeq DEF MessageInit, MessageTypeOK, MessageAssumption
<1>4. \A r \in Runs : SendInv(r) /\ RemindInv(r)
  BY <1>2 DEF SendInv, RemindInv, AtWork, Resting
<1>5. \A s \in Phones : access[s] # "swept"
  BY MessageAssumption DEF MessageInit, MessageAssumption
<1>6. RetryInv /\ Reminded /\ Reached
  BY <1>1, <1>2, <1>5 DEF RetryInv, Reminded, Reached, Retrying, Resting
<1> QED BY <1>1, <1>3, <1>4, <1>6 DEF MessageInv

LEMMA MessageStep == MessageInv /\ [MessageNext]_messageVars => MessageInv'
<1> SUFFICES ASSUME MessageInv, [MessageNext]_messageVars PROVE MessageInv'
  OBVIOUS
<1>1. MessageTypeOK'
  <2>1. \A r \in Runs : run[r].pc = "send" => run[r].at \in Positions
    BY DEF MessageInv, SendInv, AtWork
  <2> QED BY <2>1, MessageTypeStep DEF MessageInv
<1>2. ASSUME Midnight \/ UNCHANGED messageVars
      PROVE  Kept
  <2>1. access' = access /\ EndsForeseen
    BY <1>2, SameAccess DEF Midnight, messageVars
  <2>2. rows' = rows /\ run' = run /\ losses' = losses
    BY <1>2 DEF Midnight, messageVars
  <2>3. \A p \in Phones : access'[p] = "swept" => access[p] = "swept"
    BY <2>1
  <2> QED BY <2>1, <2>2, <2>3, DaysAroundKeep
<1>3. ASSUME NEW s \in Subs, UseData(s) \/ RadiusExpires(s)
      PROVE  Kept
  <2>1. EndsForeseen /\ \A p \in Phones : access'[p] = "swept" => access[p] = "swept"
    BY <1>3, MessageAssumption
       DEF UseData, RadiusExpires, EndsForeseen, PastEnd, MessageAssumption, MessageInv,
           MessageTypeOK
  <2>2. rows' = rows /\ run' = run /\ losses' = losses
    BY <1>3 DEF UseData, RadiusExpires
  <2> QED BY <2>1, <2>2, DaysAroundKeep
<1>10. ASSUME NEW s \in Subs, Activate(s)
       PROVE  Kept
  BY <1>10, ActivateKeeps
<1>4. ASSUME NEW r \in Runs, NEW t \in Reminders \union Notices, Look(r, t)
      PROVE  Kept
  BY <1>4, LookKeeps DEF Topics
<1>5. ASSUME NEW r \in Runs, NEW to \in Subs \union Staff, WriteRow(r, to)
      PROVE  Kept
  BY <1>5, WriteKeepsWork, WriteKeepsRows, WriteKeepsSilence DEF Kept
<1>6. ASSUME NEW r \in Runs, NEW i \in 1..Len(rows), Retry(r, i)
      PROVE  Kept
  BY <1>6, RetryKeeps DEF Positions
<1>7. ASSUME NEW r \in Runs, StartReminders(r) \/ StartAlerts(r)
      PROVE  Kept
  BY <1>7, StartKeeps
<1>8. ASSUME NEW r \in Runs, AlertsDone(r) \/ RunDies(r)
      PROVE  Kept
  BY <1>8, DoneKeeps
<1>9. Kept
  BY <1>2, <1>3, <1>4, <1>5, <1>6, <1>7, <1>8, <1>10, OutcomeKeeps, SweepKeeps
     DEF MessageNext
<1> QED BY <1>1, <1>9 DEF MessageInv, Kept

\* The messages keep the invariant: the rows, the executions and what they know.
THEOREM MessagesInvariant == MessageSpec => []MessageInv
BY MessageInitial, MessageStep, PTL DEF MessageSpec

\* The rows, the executions and the clock keep their types.
THEOREM MessagesTyped == MessageSpec => []MessageTypeOK
<1>1. MessageInv => MessageTypeOK
  BY DEF MessageInv
<1> QED BY <1>1, MessagesInvariant, PTL

\* Nobody is sent the same message twice, except by jobs that overlapped or by retries,
\* which are counted: a job writes only what no row it saw was about.
THEOREM SentAgainByOverlap == MessageSpec => []SentAgainOnlyByOverlap
<1>1. MessageInv => SentAgainOnlyByOverlap
  <2> SUFFICES ASSUME MessageInv, NEW i \in 1..Len(rows), NEW j \in 1..Len(rows), i < j,
                      SameMessage(i, j), rows[i].of = rows[j].of
               PROVE  IF rows[j].of = 0
                      THEN \/ rows[j].seen < i
                           \/ ~IsReminder(rows[j].topic) /\ rows[i].day < rows[j].now - 1
                      ELSE /\ rows[i].attempt # rows[j].attempt
                           /\ rows[j].attempt <= rows[rows[j].of].retries
    BY DEF SentAgainOnlyByOverlap
  <2>1. i \in Positions /\ j \in Positions /\ MessageTypeOK /\ LogInv(j) /\ RetryInv
    BY DEF Positions, MessageInv
  <2>2. rows[j].seen \in Nat /\ rows[i].topic = rows[j].topic
    BY <2>1, RowTyped DEF RowType, SameMessage
  <2>3. CASE rows[j].of = 0
    BY <2>1, <2>2, <2>3 DEF LogInv, Fresh
  <2>4. CASE rows[j].of # 0
    BY <2>1, <2>4 DEF LogInv, RetryInv
  <2> QED BY <2>3, <2>4
<1> QED BY <1>1, MessagesInvariant, PTL

\* Whoever is swept was reminded, unless activated already over behind a running job's
\* back; and while no execution has died, no row is left
\* neither sent nor failed, and what went to one recipient goes to all of them.
THEOREM SilentByFault == MessageSpec => []SilentOnlyByFault
<1>1. MessageInv => SilentOnlyByFault
  BY DEF MessageInv, Reminded, Reached, SilentOnlyByFault, OnTopic, Knew, Sending, Expired,
         Positions
<1> QED BY <1>1, MessagesInvariant, PTL

=============================================================================
