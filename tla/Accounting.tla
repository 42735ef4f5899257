----------------------------- MODULE Accounting -----------------------------
(***************************************************************************)
(* RADIUS accounting: Start, Interim-Update and Stop packets of a router's *)
(* sessions, handled by concurrent requests, each a series of separate     *)
(* database calls.  Updates carry the cumulative traffic of the session;   *)
(* its growth is booked on the subscriber's latest active subscription,    *)
(* whose data allowance the authorization of the next session checks.      *)
(* Packets may be repeated, delayed and reordered, and nothing keeps two   *)
(* of a session or of a subscriber from being handled at the same time:    *)
(* the history variables doubled, recounted and crossed record where they  *)
(* were.  Upload and download are one counter: the code treats both alike. *)
(***************************************************************************)
EXTENDS Integers, FiniteSets, FiniteSetsExt

CONSTANTS
  Accts,         \* Acct-Session-Id values
  Subscribers,
  SubscriberOf,  \* the subscriber of each session
  Subscriptions,
  OwnerOf,       \* the subscriber of each subscription
  Limit,         \* the data allowance of each subscription, in MB
  Rows,          \* rows of the sessions table
  Requests,      \* accounting requests that may execute at the same time
  Times,         \* values of started_at
  MaxMb,         \* bound on the traffic of a session
  MaxLate,       \* bound on updates delivered after a later one
  MaxCrashes,    \* bound on requests that die
  NoRow, NoAcct, NoSubscription

ASSUME AccountingAssumption ==
  /\ SubscriberOf \in [Accts -> Subscribers]
  /\ OwnerOf \in [Subscriptions -> Subscribers]
  /\ Limit \in [Subscriptions -> Nat]
  /\ Times \subseteq Nat
  /\ MaxMb \in Nat /\ MaxLate \in Nat /\ MaxCrashes \in Nat
  /\ NoRow \notin Rows /\ NoAcct \notin Accts
  /\ NoSubscription \notin Subscriptions
  /\ IsFiniteSet(Accts) /\ IsFiniteSet(Subscriptions)
  /\ IsFiniteSet(Rows) /\ IsFiniteSet(Requests)

VARIABLES
  phase,     \* the router's session: "off", "on" or "over"
  sent,      \* the latest counter the router has reported for it
  session,   \* Session rows (acct = NoAcct: not created)
  state,     \* Subscription.status
  started,   \* Subscription.started_at
  used,      \* Subscription.data_used_mb
  req,       \* each request: its program counter and local variables
  told,      \* subscriptions whose exhaustion an update has answered
  stopped,   \* sessions whose Stop was answered with a terminated row
  dropped,   \* per subscriber, traffic that found no subscription
  rewound,   \* per subscriber, traffic by which late updates set rows back
  doubled,   \* sessions two Starts of which found no row before one was created
  recounted, \* rows two updates read before one of them wrote the counters
  crossed,   \* subscriptions two requests read before one of them wrote the usage
  late, crashes

nasVars == <<phase, sent, late>>
subVars == <<state, started, used, told>>
books == <<dropped, rewound>>
races == <<doubled, recounted, crossed>>
vars == <<nasVars, session, subVars, req, stopped, books, races, crashes>>

Idle == [pc |-> "idle", acct |-> NoAcct, row |-> NoRow, mb |-> 0, delta |-> 0,
         sub |-> NoSubscription, seen |-> 0]
NoSession == [acct |-> NoAcct, status |-> "ACTIVE", mb |-> 0]
Steps == {"idle", "create", "counters", "subscription", "usage", "terminate"}

Init ==
  /\ phase = [a \in Accts |-> "off"]
  /\ sent = [a \in Accts |-> 0]
  /\ session = [w \in Rows |-> NoSession]
  /\ state = [u \in Subscriptions |-> "PENDING"]
  /\ started = [u \in Subscriptions |-> 0]
  /\ used = [u \in Subscriptions |-> 0]
  /\ req = [r \in Requests |-> Idle]
  /\ told = {} /\ stopped = {}
  /\ dropped = [s \in Subscribers |-> 0]
  /\ rewound = [s \in Subscribers |-> 0]
  /\ doubled = {} /\ recounted = {} /\ crossed = {}
  /\ late = 0 /\ crashes = 0

-----------------------------------------------------------------------------
(* Subscriptions, whose own steps are in Settlement.                       *)

Active(s) == {u \in Subscriptions : OwnerOf[u] = s /\ state[u] = "ACTIVE"}

\* findFirst of the ACTIVE subscriptions by started_at, any of equal ones.
Latest(s) == {u \in Active(s) : \A v \in Active(s) : started[v] <= started[u]}

Activate(u) ==
  /\ state[u] = "PENDING"
  /\ state' = [state EXCEPT ![u] = "ACTIVE"]
  /\ \E t \in Times : started' = [started EXCEPT ![u] = t]
  /\ UNCHANGED <<nasVars, session, used, told, req, stopped, books, races, crashes>>

Expire(u) ==
  /\ state[u] = "ACTIVE"
  /\ state' = [state EXCEPT ![u] = "EXPIRED"]
  /\ UNCHANGED <<nasVars, session, started, used, told, req, stopped, books, races, crashes>>

-----------------------------------------------------------------------------
(* The router.                                                             *)

\* authorizeSubscriber: accepted with an allowance left on the latest one.
Authorize(a) ==
  /\ phase[a] = "off"
  /\ \E u \in Latest(SubscriberOf[a]) : used[u] < Limit[u]
  /\ phase' = [phase EXCEPT ![a] = "on"]
  /\ UNCHANGED <<sent, late, session, subVars, req, stopped, books, races, crashes>>

Traffic(a) ==
  /\ phase[a] = "on"
  /\ sent[a] < MaxMb
  /\ sent' = [sent EXCEPT ![a] = @ + 1]
  /\ UNCHANGED <<phase, late, session, subVars, req, stopped, books, races, crashes>>

HangUp(a) ==
  /\ phase[a] = "on"
  /\ phase' = [phase EXCEPT ![a] = "over"]
  /\ UNCHANGED <<sent, late, session, subVars, req, stopped, books, races, crashes>>

-----------------------------------------------------------------------------
(* Requests.                                                               *)

RowsOf(a) == {w \in Rows : session[w].acct = a}
ActiveRows(a) == {w \in RowsOf(a) : session[w].status = "ACTIVE"}

Receive(r, a) == req[r].pc = "idle" /\ phase[a] # "off"

Creating(a) == {r \in Requests : req[r].pc = "create" /\ req[r].acct = a}
Counting(w) == {r \in Requests : req[r].pc = "counters" /\ req[r].row = w}
Charging(u) == {r \in Requests : req[r].pc = "usage" /\ req[r].sub = u}

Goto(r, next) == req' = [req EXCEPT ![r] = next]

\* Mutant: only an active row counts as the existing session.
StartUnlessActive(r, a) ==
  /\ Receive(r, a)
  /\ ActiveRows(a) = {}
  /\ Goto(r, [Idle EXCEPT !.pc = "create", !.acct = a])
  /\ doubled' = doubled \union {b \in {a} : Creating(b) # {}}
  /\ UNCHANGED <<nasVars, session, subVars, stopped, books, recounted, crossed, crashes>>

\* handleAccountingStart: an existing row is returned as it is.
Start(r, a) ==
  /\ Receive(r, a)
  /\ RowsOf(a) = {}
  /\ Goto(r, [Idle EXCEPT !.pc = "create", !.acct = a])
  /\ doubled' = doubled \union {b \in {a} : Creating(b) # {}}
  /\ UNCHANGED <<nasVars, session, subVars, stopped, books, recounted, crossed, crashes>>

Create(r) ==
  /\ req[r].pc = "create"
  /\ \E w \in Rows :
       /\ session[w] = NoSession
       /\ session' = [session EXCEPT
            ![w] = [acct |-> req[r].acct, status |-> "ACTIVE", mb |-> 0]]
  /\ Goto(r, Idle)
  /\ UNCHANGED <<nasVars, subVars, stopped, books, races, crashes>>

\* Mutant: the difference is not cut off at zero.
UpdateSigned(r, a, mb) ==
  /\ Receive(r, a)
  /\ \/ mb = sent[a] /\ UNCHANGED late
     \/ mb < sent[a] /\ late < MaxLate /\ late' = late + 1
  /\ \E w \in ActiveRows(a) :
       /\ Goto(r, [Idle EXCEPT !.pc = "counters", !.acct = a, !.row = w, !.mb = mb,
                               !.delta = mb - session[w].mb])
       /\ recounted' = recounted \union {v \in {w} : Counting(v) # {}}
  /\ UNCHANGED <<phase, sent, session, subVars, stopped, books, doubled, crossed, crashes>>

\* handleAccountingUpdate: the growth since the counter stored on the row.
Update(r, a, mb) ==
  /\ Receive(r, a)
  /\ \/ mb = sent[a] /\ UNCHANGED late
     \/ mb < sent[a] /\ late < MaxLate /\ late' = late + 1
  /\ \E w \in ActiveRows(a) :
       /\ Goto(r, [Idle EXCEPT !.pc = "counters", !.acct = a, !.row = w, !.mb = mb,
                               !.delta = Max({0, mb - session[w].mb})])
       /\ recounted' = recounted \union {v \in {w} : Counting(v) # {}}
  /\ UNCHANGED <<phase, sent, session, subVars, stopped, books, doubled, crossed, crashes>>

Book(account, s, mb) == [account EXCEPT ![s] = @ + mb]

\* Mutant: an older counter leaves the row as it is.
WriteLarger(r) ==
  LET q == req[r] IN
  /\ q.pc = "counters"
  /\ session' = [session EXCEPT ![q.row].mb = Max({@, q.mb})]
  /\ rewound' = Book(rewound, SubscriberOf[q.acct],
                     Max({0, session[q.row].mb - q.mb}))
  /\ Goto(r, [q EXCEPT !.pc = "subscription"])
  /\ UNCHANGED <<nasVars, subVars, stopped, dropped, races, crashes>>

\* The row takes the reported counter, smaller or larger, by id.
WriteCounters(r) ==
  LET q == req[r] IN
  /\ q.pc = "counters"
  /\ session' = [session EXCEPT ![q.row].mb = q.mb]
  /\ rewound' = Book(rewound, SubscriberOf[q.acct],
                     Max({0, session[q.row].mb - q.mb}))
  /\ Goto(r, [q EXCEPT !.pc = "subscription"])
  /\ UNCHANGED <<nasVars, subVars, stopped, dropped, races, crashes>>

ReadSubscription(r) ==
  LET q == req[r]
      s == SubscriberOf[q.acct]
  IN
  /\ q.pc = "subscription"
  /\ \/ /\ Latest(s) = {}
        /\ dropped' = Book(dropped, s, q.delta)
        /\ Goto(r, Idle)
        /\ UNCHANGED crossed
     \/ /\ \E u \in Latest(s) :
             /\ Goto(r, [q EXCEPT !.pc = "usage", !.sub = u, !.seen = used[u]])
             /\ crossed' = crossed \union {v \in {u} : Charging(v) # {}}
        /\ UNCHANGED dropped
  /\ UNCHANGED <<nasVars, session, subVars, stopped, rewound, doubled, recounted, crashes>>

\* Mutant: the subscription takes the growth as its usage.
WriteDelta(r) ==
  LET q == req[r] IN
  /\ q.pc = "usage"
  /\ used' = [used EXCEPT ![q.sub] = q.delta]
  /\ told' = IF q.delta >= Limit[q.sub] THEN told \union {q.sub} ELSE told
  /\ Goto(r, Idle)
  /\ UNCHANGED <<nasVars, session, state, started, stopped, books, races, crashes>>

\* The usage read plus the growth, and the disconnect it may call for.
WriteUsage(r) ==
  LET q == req[r]
      newUsage == q.seen + q.delta
  IN
  /\ q.pc = "usage"
  /\ used' = [used EXCEPT ![q.sub] = newUsage]
  /\ told' = IF newUsage >= Limit[q.sub] THEN told \union {q.sub} ELSE told
  /\ Goto(r, Idle)
  /\ UNCHANGED <<nasVars, session, state, started, stopped, books, races, crashes>>

\* handleAccountingStop: any row of the session; without one, no effect.
Stop(r, a) ==
  /\ req[r].pc = "idle"
  /\ phase[a] = "over"
  /\ \E w \in RowsOf(a) :
       Goto(r, [Idle EXCEPT !.pc = "terminate", !.acct = a, !.row = w])
  /\ UNCHANGED <<nasVars, session, subVars, stopped, books, races, crashes>>

\* disconnectSessionAction, after the router has dropped the session.
OperatorDisconnects(r, w) ==
  /\ req[r].pc = "idle"
  /\ session[w].acct # NoAcct /\ session[w].status = "ACTIVE"
  /\ Goto(r, [Idle EXCEPT !.pc = "terminate", !.acct = session[w].acct, !.row = w])
  /\ UNCHANGED <<nasVars, session, subVars, stopped, books, races, crashes>>

Terminate(r) ==
  LET q == req[r] IN
  /\ q.pc = "terminate"
  /\ session' = [session EXCEPT ![q.row].status = "TERMINATED"]
  /\ stopped' = stopped \union {q.acct}
  /\ Goto(r, Idle)
  /\ UNCHANGED <<nasVars, subVars, books, races, crashes>>

\* A request that dies after it wrote the counters loses their growth.
RequestDies(r) ==
  LET q == req[r] IN
  /\ q.pc # "idle"
  /\ crashes < MaxCrashes
  /\ crashes' = crashes + 1
  /\ dropped' = IF q.pc \in {"subscription", "usage"}
                THEN Book(dropped, SubscriberOf[q.acct], q.delta)
                ELSE dropped
  /\ Goto(r, Idle)
  /\ UNCHANGED <<nasVars, session, subVars, stopped, rewound, races>>

-----------------------------------------------------------------------------

Next ==
  \/ \E u \in Subscriptions : Activate(u) \/ Expire(u)
  \/ \E a \in Accts : Authorize(a) \/ Traffic(a) \/ HangUp(a)
  \/ \E r \in Requests :
       \/ \E a \in Accts :
            \/ Start(r, a)
            \/ \E mb \in 0..MaxMb : Update(r, a, mb)
            \/ Stop(r, a)
       \/ \E w \in Rows : OperatorDisconnects(r, w)
       \/ Create(r)
       \/ WriteCounters(r)
       \/ ReadSubscription(r)
       \/ WriteUsage(r)
       \/ Terminate(r)
       \/ RequestDies(r)

Spec == Init /\ [][Next]_vars

-----------------------------------------------------------------------------

TypeOK ==
  /\ phase \in [Accts -> {"off", "on", "over"}]
  /\ sent \in [Accts -> 0..MaxMb]
  /\ session \in [Rows -> [acct : Accts \union {NoAcct},
                           status : {"ACTIVE", "TERMINATED"}, mb : 0..MaxMb]]
  /\ state \in [Subscriptions -> {"PENDING", "ACTIVE", "EXPIRED"}]
  /\ started \in [Subscriptions -> Nat]
  /\ used \in [Subscriptions -> Nat]
  /\ req \in [Requests ->
       [pc : Steps, acct : Accts \union {NoAcct}, row : Rows \union {NoRow},
        mb : 0..MaxMb, delta : 0..MaxMb,
        sub : Subscriptions \union {NoSubscription}, seen : Nat]]
  /\ told \subseteq Subscriptions /\ stopped \subseteq Accts
  /\ dropped \in [Subscribers -> Nat] /\ rewound \in [Subscribers -> Nat]
  /\ doubled \subseteq Accts /\ recounted \subseteq Rows
  /\ crossed \subseteq Subscriptions
  /\ late \in 0..MaxLate /\ crashes \in 0..MaxCrashes

\* A session has one row, however often its Start is delivered (doc: a
\* duplicate Acct-Session-Id is idempotent).
OneRowPerSession == \A a \in Accts : \A v, w \in RowsOf(a) : v = w

\* A session has a second row only when two of its Starts both found none; a
\* repeated Start handled after the row was created, or after a Stop closed
\* it, makes none (handleAccountingStart).
SecondRowOnlyByOverlap ==
  \A a \in Accts \ doubled : \A v, w \in RowsOf(a) : v = w

\* A session whose Stop was recorded, or that an operator disconnected, is
\* active again only when two of its Starts overlapped, whatever Start or
\* Update is delivered afterwards or is being handled meanwhile.
ReopenedOnlyByOverlap == \A a \in stopped \ doubled : ActiveRows(a) = {}

\* A subscription whose session was told to disconnect because the allowance
\* is exhausted has allowance again, for the next authorization to accept, only
\* when two requests read its usage before one of them wrote it
\* (handleAccountingUpdate).
RefilledOnlyByOverlap == \A u \in told \ crossed : used[u] >= Limit[u]

Traffics(s) == {a \in Accts : SubscriberOf[a] = s}

Owned(s) == {u \in Subscriptions : OwnerOf[u] = s}
RowsFor(s) == {w \in Rows : session[w].acct \in Traffics(s)}
InHand(s) == {r \in Requests : /\ req[r].pc \in {"subscription", "usage"}
                               /\ SubscriberOf[req[r].acct] = s}

Stored == [w \in Rows |-> session[w].mb]
Growth == [r \in Requests |-> req[r].delta]

\* No two requests read the same row, or the same usage, of the subscriber
\* before one of them wrote it.
Orderly(s) == Owned(s) \intersect crossed = {} /\ RowsFor(s) \intersect recounted = {}

\* Every megabyte stored on a subscriber's sessions is on one subscription, in
\* the hands of a request, or was dropped because a request found no
\* subscription or died, and only a late update makes a megabyte count again:
\* unless two requests read the same row or the same usage before one of them
\* wrote it.  Updates of two devices may otherwise overlap as they like.
MiscountedOnlyByOverlap ==
  \A s \in Subscribers : Orderly(s) =>
    SumFunctionOnSet(used, Owned(s)) + dropped[s] + SumFunctionOnSet(Growth, InHand(s))
      = SumFunctionOnSet(Stored, RowsFor(s)) + rewound[s]

\* A subscriber is charged no more than the router has reported (doc:
\* accounting is idempotent by Acct-Session-Id).
ChargedAtMostOnce ==
  \A s \in Subscribers :
    SumFunctionOnSet(used, Owned(s)) <= SumFunctionOnSet(sent, Traffics(s))
=============================================================================
