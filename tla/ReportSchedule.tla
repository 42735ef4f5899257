--------------------------- MODULE ReportSchedule ---------------------------
(***************************************************************************)
(* What scheduled reporting promises, whatever its workers do: the         *)
(* occurrences of a schedule are taken one after another, only when they   *)
(* are due and the schedule is enabled, none twice, and each yields at     *)
(* most one finished report.                                               *)
(***************************************************************************)
EXTENDS Integers

CONSTANTS Schedules, Days,
          Successor     \* the occurrence after each one, per schedule

VARIABLES
  day,
  enabled,    \* schedules their owner has switched on
  next,       \* the occurrence each schedule waits for (0: no such schedule)
  outcome     \* of each occurrence

Init ==
  /\ day \in Days
  /\ enabled = {}
  /\ next = [s \in Schedules |-> 0]
  /\ outcome = [s \in Schedules |-> [d \in Days |-> "none"]]

NewDay ==
  /\ day' > day
  /\ UNCHANGED <<enabled, next, outcome>>

Create(s) ==
  /\ next[s] = 0
  /\ next'[s] > day
  /\ next' = [next EXCEPT ![s] = next'[s]]
  /\ enabled' = enabled \union {s}
  /\ UNCHANGED <<day, outcome>>

SetEnabled(s, flag) ==
  /\ next[s] # 0
  /\ enabled' = IF flag THEN enabled \union {s} ELSE enabled \ {s}
  /\ UNCHANGED <<day, next, outcome>>

Take(s) ==
  /\ s \in enabled /\ next[s] <= day
  /\ outcome[s][next[s]] = "none"
  /\ outcome' = [outcome EXCEPT ![s][next[s]] = "taken"]
  /\ next' = [next EXCEPT ![s] = Successor[s][next[s]]]
  /\ UNCHANGED <<day, enabled>>

Finish(s, d) ==
  /\ outcome[s][d] = "taken"
  /\ outcome' = [outcome EXCEPT ![s][d] = "reported"]
  /\ UNCHANGED <<day, enabled, next>>

Next ==
  \/ NewDay
  \/ \E s \in Schedules :
       \/ Create(s)
       \/ \E flag \in BOOLEAN : SetEnabled(s, flag)
       \/ Take(s)
       \/ \E d \in Days : Finish(s, d)

Spec == Init /\ [][Next]_<<day, enabled, next, outcome>>
=============================================================================
