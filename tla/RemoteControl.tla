--------------------------- MODULE RemoteControl ---------------------------
(***************************************************************************)
(* Isolating, restoring, disconnecting and reconnecting one subscriber     *)
(* from the application, through the network agent, on every router where  *)
(* the subscriber has an active session.  The application waits 15 seconds *)
(* for the agent; the agent goes on after that.  The subscriber's status   *)
(* is written only after every router answered COMPLETED.                  *)
(***************************************************************************)
EXTENDS Integers

CONSTANTS
  Sessions, NodeOf,   \* sessions the subscriber has had, by address; their routers
  Calls,              \* server actions, each run once
  MaxEdits            \* bound on edits of the customer

ASSUME RemoteAssumption == MaxEdits \in Nat

VARIABLES
  standing,   \* Subscriber.status: "ACTIVE" or "SUSPENDED"
  online,     \* sessions whose Session.status is ACTIVE; the others ended
  blocked,    \* sessions whose address is in their router's block list
  call,       \* each server action
  job,        \* job[c][s]: what the agent still does for call c at session s
  covered,    \* sessions the last completed isolation or restoration reached
  disturbed,  \* since then a call failed, overlapped, or went another way
  edits

remoteVars == <<standing, online, blocked, call, job, covered, disturbed, edits>>

Unused == [pc |-> "new"]
Over == [pc |-> "over"]
Running == {"block", "kick", "unblock"}
FirstStep == [isolate |-> "block", restore |-> "unblock",
              disconnect |-> "kick", reconnect |-> "unblock"]

RemoteInit ==
  /\ standing = "ACTIVE"
  /\ online = {} /\ blocked = {} /\ covered = {}
  /\ call = [c \in Calls |-> Unused]
  /\ job = [c \in Calls |-> [s \in Sessions |-> "none"]]
  /\ disturbed = FALSE /\ edits = 0

Busy(c) == call[c].pc = "work" \/ \E s \in Sessions : job[c][s] \in Running

-----------------------------------------------------------------------------
(* The subscriber and the staff *)

\* RADIUS authorizes only an ACTIVE subscriber; the block list is not consulted.
LogIn(s) ==
  /\ standing = "ACTIVE" /\ s \notin online
  /\ online' = online \union {s}
  /\ UNCHANGED <<standing, blocked, call, job, covered, disturbed, edits>>

SessionEnds(s) ==
  /\ s \in online
  /\ online' = online \ {s}
  /\ UNCHANGED <<standing, blocked, call, job, covered, disturbed, edits>>

\* updateCustomerAction writes the status and tells no router.
EditStatus(to) ==
  /\ edits < MaxEdits /\ to # standing
  /\ edits' = edits + 1
  /\ standing' = to
  /\ disturbed' = TRUE
  /\ UNCHANGED <<online, blocked, call, job, covered>>

-----------------------------------------------------------------------------
(* The application *)

\* Calls that share any of their time are no longer alone.
Starts(c, op, targets) ==
  /\ call[c] = Unused
  /\ call' = [d \in Calls |->
       IF d = c THEN [pc |-> "work", op |-> op, todo |-> targets, read |-> targets,
                      wait |-> {}, ok |-> TRUE, alone |-> \A e \in Calls : ~Busy(e)]
       ELSE IF call[d].pc = "work" THEN [call[d] EXCEPT !.alone = FALSE] ELSE call[d]]
  /\ UNCHANGED <<standing, online, blocked, job, covered, disturbed, edits>>

\* One active session of each router: the last one read.
Contexts(T) ==
  /\ T # {} /\ T \subseteq online
  /\ \A s \in online : \E u \in T : NodeOf[u] = NodeOf[s]
  /\ \A s, u \in T : NodeOf[s] = NodeOf[u] => s = u

OperateOnSubscriber(c) ==
  \E op \in {"isolate", "restore"}, T \in SUBSET Sessions :
    Contexts(T) /\ Starts(c, op, T)

\* A session is reconnected although it ended.
OperateOnSession(c, s) ==
  \/ s \in online /\ Starts(c, "disconnect", {s})
  \/ Starts(c, "reconnect", {s})

Send(c, s) ==
  /\ call[c].pc = "work" /\ call[c].wait = {} /\ s \in call[c].todo
  /\ call' = [call EXCEPT ![c].wait = {s}, ![c].todo = @ \ {s}]
  /\ job' = [job EXCEPT ![c][s] = FirstStep[call[c].op]]
  /\ UNCHANGED <<standing, online, blocked, covered, disturbed, edits>>

\* The answer, or none within 15 seconds.
Hears(c, s) ==
  /\ call[c].pc = "work" /\ s \in call[c].wait
  /\ call' = [call EXCEPT ![c].wait = {}, ![c].ok = @ /\ job[c][s] = "completed"]
  /\ job' = [job EXCEPT ![c][s] = IF @ \in Running THEN @ ELSE "none"]
  /\ UNCHANGED <<standing, online, blocked, covered, disturbed, edits>>

\* Mutant: the status is written although a router failed.
FinishRegardless(c) ==
  /\ call[c].pc = "work" /\ call[c].wait = {} /\ call[c].todo = {}
  /\ call' = [call EXCEPT ![c] = Over]
  /\ IF call[c].op \in {"isolate", "restore"}
     THEN /\ standing' = IF call[c].op = "isolate" THEN "SUSPENDED" ELSE "ACTIVE"
          /\ covered' = call[c].read
          /\ disturbed' = ~call[c].alone
     ELSE UNCHANGED <<standing, covered>> /\ disturbed' = (disturbed \/ call[c].op = "reconnect")
  /\ UNCHANGED <<online, blocked, job, edits>>

Finish(c) ==
  /\ call[c].pc = "work" /\ call[c].wait = {} /\ call[c].todo = {}
  /\ call' = [call EXCEPT ![c] = Over]
  /\ IF call[c].ok /\ call[c].op \in {"isolate", "restore"}
     THEN /\ standing' = IF call[c].op = "isolate" THEN "SUSPENDED" ELSE "ACTIVE"
          /\ covered' = call[c].read
          /\ disturbed' = ~call[c].alone
     ELSE /\ UNCHANGED <<standing, covered>>
          /\ disturbed' = (disturbed \/ call[c].op # "disconnect")
  /\ UNCHANGED <<online, blocked, job, edits>>

-----------------------------------------------------------------------------
(* The agent and the router *)

Awaited(c, s) == call[c].pc = "work" /\ s \in call[c].wait

\* Nobody hears how a command ends that outlived its 15 seconds.
JobGoes(c, s, from, to) ==
  /\ job[c][s] = from
  /\ job' = [job EXCEPT ![c][s] = IF to \in Running \/ Awaited(c, s) THEN to ELSE "none"]
  /\ UNCHANGED <<standing, online, call, covered, disturbed, edits>>

IsolateSubscriber(c, s) ==
  /\ JobGoes(c, s, "block", "kick")
  /\ blocked' = blocked \union {s}

RestoreSubscriber(c, s) ==
  /\ JobGoes(c, s, "unblock", "completed")
  /\ blocked' = blocked \ {s}

\* The hotspot session is removed; its accounting Stop ends the session later.
DisconnectSubscriber(c, s) ==
  /\ JobGoes(c, s, "kick", "completed")
  /\ UNCHANGED blocked

JobFails(c, s) ==
  /\ \E step \in Running : JobGoes(c, s, step, "failed")
  /\ UNCHANGED blocked

RemoteNext ==
  \/ \E s \in Sessions : LogIn(s) \/ SessionEnds(s)
  \/ \E to \in {"ACTIVE", "SUSPENDED"} : EditStatus(to)
  \/ \E c \in Calls :
       \/ OperateOnSubscriber(c) \/ Finish(c)
       \/ \E s \in Sessions :
            \/ OperateOnSession(c, s) \/ Send(c, s) \/ Hears(c, s)
            \/ IsolateSubscriber(c, s) \/ RestoreSubscriber(c, s)
            \/ DisconnectSubscriber(c, s) \/ JobFails(c, s)

RemoteSpec == RemoteInit /\ [][RemoteNext]_remoteVars

-----------------------------------------------------------------------------
(* Properties *)

\* The types of the rows, the calls, the agent's jobs and the history.
RemoteTypeOK ==
  /\ standing \in {"ACTIVE", "SUSPENDED"}
  /\ online \subseteq Sessions
  /\ blocked \subseteq Sessions /\ covered \subseteq Sessions
  /\ call \in [Calls -> {Unused, Over} \union
       [pc : {"work"}, op : DOMAIN FirstStep, todo : SUBSET Sessions,
        read : SUBSET Sessions, wait : SUBSET Sessions, ok : BOOLEAN, alone : BOOLEAN]]
  /\ job \in [Calls -> [Sessions -> Running \union {"none", "completed", "failed"}]]
  /\ disturbed \in BOOLEAN /\ edits \in 0..MaxEdits

Settled == ~disturbed /\ \A c \in Calls : ~Busy(c)

\* When nothing is under way, a suspended subscriber is blocked at every router that
\* the isolation reached and an active one at none that the restoration reached,
\* unless since then a call failed on some router, shared its time with another call
\* or with a command that outlived its 15 seconds, a session was reconnected, or the
\* status was edited (operateOnSubscriberRemotely, subscriberNetworkAction).
StatusMatchesRouters ==
  Settled => IF standing = "SUSPENDED" THEN covered \subseteq blocked
             ELSE covered \intersect blocked = {}
=============================================================================
