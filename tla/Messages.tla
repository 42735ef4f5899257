------------------------------ MODULE Messages ------------------------------
(***************************************************************************)
(* Reminders to customers, operational alerts to staff, and the retries of *)
(* failed messages.  Both delivery jobs look for an earlier message, write *)
(* a PENDING row, send, and write the outcome, each in its own call; the   *)
(* worker may start a job while an earlier one still runs.  The reminder   *)
(* job ends by expiring the subscriptions that are overdue, those included *)
(* that a late payment has activated since the job listed them.            *)
(***************************************************************************)
EXTENDS Integers, Sequences

CONSTANTS
  Subs, EndDays,    \* subscriptions; the days on which one may expire
  Phones,           \* subscriptions whose customer has a phone number
  Alerts, Staff,    \* texts of operational alerts; the staff they go to
  Runs,             \* executions of the two jobs and of the retry
  LastDay, MaxRows, MaxRetries, MaxLosses   \* bounds: the clock, the rows, deaths

ASSUME MessageAssumption ==
  /\ EndDays \subseteq Nat
  /\ Phones \subseteq Subs
  /\ {LastDay, MaxRows, MaxRetries, MaxLosses} \subseteq Nat

VARIABLES
  today,
  access,   \* Subscription.status and what expired it
  ends,     \* Subscription.expires_at
  low,      \* subscriptions that used 80% of their data
  rows,     \* Notification rows, in the order they were created
  run,      \* each execution: program counter and what it is doing
  losses,   \* executions that died
  slipped   \* history: subscriptions made overdue behind the back of a reminder job

messageVars == <<today, access, ends, low, rows, run, losses, slipped>>

Resting == [pc |-> "rest"]
Reminders == {"EXPIRY_SOON", "EXPIRED", "LOW_DATA"} \X Subs
Notices == {"ALERT"} \X Alerts
IsReminder(t) == t[1] # "ALERT"

\* A reminder goes to the customer's phone, an alert to every active member of staff
\* of every organization: User is not one of the models a tenant client scopes.
RecipientsOf(t) == IF IsReminder(t) THEN {t[2]} \intersect Phones ELSE Staff

Due(now) ==
  {t \in Reminders :
     LET left == ends[t[2]] - now
     IN  /\ access[t[2]] = "ACTIVE"
         /\ \/ t[1] = "EXPIRED" /\ left <= 0
            \/ t[1] = "EXPIRY_SOON" /\ left = 1
            \/ t[1] = "LOW_DATA" /\ left > 0 /\ t[2] \in low}

MessageInit ==
  /\ today = 0
  /\ access = [s \in Subs |-> "PENDING"]
  /\ ends \in [Subs -> EndDays]
  /\ low = {}
  /\ rows = <<>>
  /\ run = [r \in Runs |-> Resting]
  /\ losses = 0
  /\ slipped = {}

-----------------------------------------------------------------------------
(* What happens around the jobs *)

Midnight ==
  /\ today < LastDay
  /\ today' = today + 1
  /\ UNCHANGED <<access, ends, low, rows, run, losses, slipped>>

PastEnd(s, now) == access[s] = "ACTIVE" /\ ends[s] <= now

\* activateSubscription writes by id what it decided when it read PENDING, and its
\* period starts when the payment was made: it may be over.
Activate(s) ==
  /\ access' = [access EXCEPT ![s] = "ACTIVE"]
  /\ \E day \in EndDays : ends' = [ends EXCEPT ![s] = day]
  /\ UNCHANGED <<today, low, rows, run, losses>>
  /\ slipped' = slipped \union
       {x \in Subs : \E r \in Runs : /\ run[r] # Resting /\ run[r].job = "reminders"
                                    /\ ~PastEnd(x, run[r].now) /\ PastEnd(x, run[r].now)'}

UseData(s) ==
  /\ access[s] = "ACTIVE" /\ s \notin low
  /\ low' = low \union {s}
  /\ UNCHANGED <<today, access, ends, rows, run, losses, slipped>>

\* authorizeSubscriber expires an overdue subscription when the customer connects.
RadiusExpires(s) ==
  /\ PastEnd(s, today)
  /\ access' = [access EXCEPT ![s] = "refused"]
  /\ UNCHANGED <<today, ends, low, rows, run, losses, slipped>>

-----------------------------------------------------------------------------
(* The jobs *)

Sets(r, record) ==
  /\ run' = [run EXCEPT ![r] = record]
  /\ UNCHANGED <<today, ends, low, losses, slipped>>

\* "now" is read once, and the reminders due are those of that moment.
StartJob(r, job, todo) ==
  /\ run[r] = Resting
  /\ Sets(r, [pc |-> "look", job |-> job, now |-> today, todo |-> todo])
  /\ UNCHANGED <<access, rows>>

StartReminders(r) == StartJob(r, "reminders", Due(today))
StartAlerts(r) == \E raised \in SUBSET Notices \ {{}} : StartJob(r, "alerts", raised)

\* Mutant: only messages that were sent count as an earlier message.
SentBefore(t, now) ==
  \E i \in 1..Len(rows) : /\ rows[i].topic = t /\ rows[i].status = "SENT"
                          /\ IsReminder(t) \/ rows[i].day >= now - 1

\* Any row on the topic counts, whatever its status; for an alert those of a day.
Recent(t, now) ==
  \E i \in 1..Len(rows) : rows[i].topic = t /\ (IsReminder(t) \/ rows[i].day >= now - 1)

Look(r, t) ==
  /\ run[r].pc = "look" /\ t \in run[r].todo
  /\ Sets(r, IF Recent(t, run[r].now) \/ RecipientsOf(t) = {}
             THEN [run[r] EXCEPT !.todo = @ \ {t}]
             ELSE [pc |-> "row", job |-> run[r].job, now |-> run[r].now,
                   todo |-> run[r].todo \ {t}, topic |-> t, left |-> RecipientsOf(t),
                   seen |-> Len(rows), at |-> 0, of |-> 0, attempt |-> 0])
  /\ UNCHANGED <<access, rows>>

WriteRow(r, to) ==
  /\ run[r].pc = "row" /\ to \in run[r].left
  /\ Len(rows) < MaxRows
  /\ rows' = Append(rows, [topic |-> run[r].topic, to |-> to, status |-> "PENDING",
                           retries |-> 0, day |-> today, now |-> run[r].now,
                           seen |-> run[r].seen, of |-> run[r].of,
                           attempt |-> run[r].attempt])
  /\ Sets(r, [run[r] EXCEPT !.pc = "send", !.left = @ \ {to}, !.at = Len(rows) + 1])
  /\ UNCHANGED access

\* The provider delivers or refuses; a delivered message may also read FAILED, when
\* writing SENT fails.  A retried reminder has no phone number and is refused.
Outcomes(r) == IF run[r].of # 0 /\ IsReminder(run[r].topic) THEN {"FAILED"}
               ELSE {"SENT", "FAILED"}

WriteOutcome(r) ==
  /\ run[r].pc = "send"
  /\ \E o \in Outcomes(r) : rows' = [rows EXCEPT ![run[r].at].status = o]
  /\ Sets(r, IF run[r].left # {} THEN [run[r] EXCEPT !.pc = "row"]
             ELSE IF run[r].job = "retry" THEN Resting
             ELSE [pc |-> "look", job |-> run[r].job, now |-> run[r].now,
                   todo |-> run[r].todo])
  /\ UNCHANGED access

\* Mutant: the sweep runs before the reminders.
SweepFirst(r) ==
  /\ run[r].pc = "look" /\ run[r].job = "reminders"
  /\ access' = [s \in Subs |-> IF PastEnd(s, run[r].now) THEN "swept" ELSE access[s]]
  /\ Sets(r, Resting)
  /\ UNCHANGED rows

\* The sweep: whatever is active and overdue at the run's "now" expires.
Sweep(r) ==
  /\ run[r].pc = "look" /\ run[r].job = "reminders" /\ run[r].todo = {}
  /\ access' = [s \in Subs |-> IF PastEnd(s, run[r].now) THEN "swept" ELSE access[s]]
  /\ Sets(r, Resting)
  /\ UNCHANGED rows

AlertsDone(r) ==
  /\ run[r].pc = "look" /\ run[r].job = "alerts" /\ run[r].todo = {}
  /\ Sets(r, Resting)
  /\ UNCHANGED <<access, rows>>

\* The attempt is counted on the original before a row of its own is written; the
\* original stays FAILED, so it can be retried again, whatever the outcome.
Retry(r, i) ==
  /\ run[r] = Resting /\ rows[i].status = "FAILED"
  /\ rows[i].retries < MaxRetries
  /\ rows' = [rows EXCEPT ![i].retries = @ + 1]
  /\ Sets(r, [pc |-> "row", job |-> "retry", now |-> today, todo |-> {},
              topic |-> rows[i].topic, left |-> {rows[i].to}, seen |-> 0, at |-> 0,
              of |-> i, attempt |-> rows[i].retries + 1])
  /\ UNCHANGED access

RunDies(r) ==
  /\ run[r] # Resting /\ losses < MaxLosses
  /\ losses' = losses + 1
  /\ run' = [run EXCEPT ![r] = Resting]
  /\ UNCHANGED <<today, access, ends, low, rows, slipped>>

MessageNext ==
  \/ Midnight
  \/ \E s \in Subs : Activate(s) \/ UseData(s) \/ RadiusExpires(s)
  \/ \E r \in Runs :
       \/ StartReminders(r) \/ StartAlerts(r)
       \/ \E t \in Reminders \union Notices : Look(r, t)
       \/ \E to \in Subs \union Staff : WriteRow(r, to)
       \/ WriteOutcome(r) \/ Sweep(r) \/ AlertsDone(r)
       \/ \E i \in 1..Len(rows) : Retry(r, i)
       \/ RunDies(r)

MessageSpec == MessageInit /\ [][MessageNext]_messageVars

-----------------------------------------------------------------------------
(* Properties *)

RowType == [topic : Reminders \union Notices, to : Subs \union Staff,
            status : {"PENDING", "SENT", "FAILED"}, retries : Nat, day : Nat,
            now : Nat, seen : Nat, of : Nat, attempt : Nat]
TopicSets == SUBSET (Reminders \union Notices)

\* The types of the rows, the executions and the clock.
MessageTypeOK ==
  /\ today \in 0..LastDay /\ losses \in 0..MaxLosses
  /\ access \in [Subs -> {"PENDING", "ACTIVE", "refused", "swept"}]
  /\ ends \in [Subs -> EndDays]
  /\ low \subseteq Subs /\ slipped \subseteq Subs
  /\ rows \in Seq(RowType)
  /\ run \in [Runs -> {Resting}
       \union [pc : {"look"}, job : {"reminders", "alerts"}, now : Nat, todo : TopicSets]
       \union [pc : {"row", "send"}, job : {"reminders", "alerts", "retry"},
               now : Nat, todo : TopicSets, topic : Reminders \union Notices,
               left : SUBSET (Subs \union Staff), seen : Nat, at : Nat,
               of : Nat, attempt : Nat]]

SameMessage(i, j) == rows[i].topic = rows[j].topic /\ rows[i].to = rows[j].to

\* Nobody is sent a reminder again, nor an alert again within a day of the job's
\* clock, except by a job that looked before the earlier message was recorded, or by
\* a retry; and the retries of a message are told apart by their number, counted on
\* the original (deliverOnce, deliverOperationalAlerts, retryFailedNotification).
SentAgainOnlyByOverlap ==
  \A i, j \in 1..Len(rows) :
    i < j /\ SameMessage(i, j) /\ rows[i].of = rows[j].of =>
      IF rows[j].of = 0
      THEN \/ rows[j].seen < i
           \/ ~IsReminder(rows[j].topic) /\ rows[i].day < rows[j].now - 1
      ELSE /\ rows[i].attempt # rows[j].attempt
           /\ rows[j].attempt <= rows[rows[j].of].retries

Handling(t, to) ==
  \E r \in Runs : /\ run[r].pc \in {"row", "send"} /\ run[r].topic = t
                  /\ run[r].of = 0 /\ to \in run[r].left

\* A customer whose access the reminder job expired, and who has a phone number, has
\* a row for the "expired" reminder, unless a period already over was activated while
\* a job was running, which sweeps it unheard; a row is neither sent nor failed only
\* while its job is sending it; and an alert that went to one member of staff goes to
\* all of them; unless an execution died, after which the row suppresses any later
\* message (deliverCustomerReminders, deliverOperationalAlerts, sendNotification).
\* What RADIUS expires first gets no such reminder.
SilentOnlyByFault ==
  /\ \A s \in Phones \ slipped : access[s] = "swept" =>
       \E i \in 1..Len(rows) : rows[i].topic = <<"EXPIRED", s>>
  /\ losses = 0 => \A i \in 1..Len(rows) :
       /\ rows[i].status = "PENDING" =>
            \E r \in Runs : run[r].pc = "send" /\ run[r].at = i
       /\ \A to \in RecipientsOf(rows[i].topic) :
            \/ Handling(rows[i].topic, to)
            \/ \E j \in 1..Len(rows) : rows[j].topic = rows[i].topic /\ rows[j].to = to
=============================================================================
