-------------------------- MODULE AccountingProofs --------------------------
(***************************************************************************)
(* The safety of Accounting for any number of sessions, subscriptions,     *)
(* rows and concurrent requests, however their packets overlap: a packet   *)
(* that another overtook between its read and its write is the exception   *)
(* the properties name, and what it disturbs is one session, one row or    *)
(* one subscription, not the others.                                       *)
(***************************************************************************)
EXTENDS Accounting, FiniteSetTheorems, WellFoundedInduction, TLAPS

Request ==
  [pc : Steps, acct : Accts \union {NoAcct}, row : Rows \union {NoRow},
   mb : 0..MaxMb, delta : 0..MaxMb,
   sub : Subscriptions \union {NoSubscription}, seen : Nat]

\* The local variables a request has set at each step.
LocalFacts(q) ==
  /\ q.pc # "idle" => q.acct \in Accts
  /\ q.pc \in {"counters", "terminate"} => q.row \in Rows
  /\ q.pc = "terminate" => session[q.row].acct = q.acct
  /\ q.pc = "usage" => /\ q.sub \in Subscriptions
                       /\ OwnerOf[q.sub] = SubscriberOf[q.acct]

Locals == \A r \in Requests : LocalFacts(req[r])

\* Where no two Starts overlapped, the one request that is about to create a row is
\* right that there is none.
RowInv ==
  /\ SecondRowOnlyByOverlap
  /\ \A a \in Accts \ doubled :
       /\ Creating(a) # {} => RowsOf(a) = {}
       /\ \A r, q \in Creating(a) : r = q
  /\ \A a \in stopped : RowsOf(a) # {}
  /\ ReopenedOnlyByOverlap

\* Where no two requests overlapped, the usage the one request has read is still the
\* usage of its subscription.
UsageInv ==
  /\ \A u \in Subscriptions \ crossed :
       /\ \A r \in Charging(u) : req[r].seen = used[u]
       /\ \A r, q \in Charging(u) : r = q
  /\ RefilledOnlyByOverlap

LEMMA PositivePart ==
  ASSUME NEW i \in Int
  PROVE  /\ Max({0, i}) \in Nat
         /\ Max({0, i}) = 0 \/ Max({0, i}) = i
<1>1. \E x \in {0, i} : \A y \in {0, i} : x >= y
  OBVIOUS
<1>2. QED
  BY <1>1 DEF Max

LEMMA BookType ==
  ASSUME NEW account \in [Subscribers -> Nat], NEW s \in Subscribers, NEW mb \in Nat
  PROVE  Book(account, s, mb) \in [Subscribers -> Nat]
  BY DEF Book

SessionRows == [Rows -> [acct : Accts \union {NoAcct},
                         status : {"ACTIVE", "TERMINATED"}, mb : 0..MaxMb]]

LEMMA RowTypes ==
  ASSUME session \in SessionRows, NEW w \in Rows
  PROVE  /\ \A mb \in 0..MaxMb : [session EXCEPT ![w].mb = mb] \in SessionRows
         /\ [session EXCEPT ![w].status = "TERMINATED"] \in SessionRows
<1>1. session[w] \in [acct : Accts \union {NoAcct},
                      status : {"ACTIVE", "TERMINATED"}, mb : 0..MaxMb]
  BY DEF SessionRows
<1>2. ASSUME NEW mb \in 0..MaxMb
      PROVE  [session EXCEPT ![w].mb = mb] \in SessionRows
  <2>1. [session[w] EXCEPT !.mb = mb] \in [acct : Accts \union {NoAcct},
                      status : {"ACTIVE", "TERMINATED"}, mb : 0..MaxMb]
    BY <1>1
  <2>2. QED
    BY <2>1 DEF SessionRows
<1>3. [session[w] EXCEPT !.status = "TERMINATED"] \in [acct : Accts \union {NoAcct},
                      status : {"ACTIVE", "TERMINATED"}, mb : 0..MaxMb]
  BY <1>1
<1>4. QED
  BY <1>2, <1>3 DEF SessionRows

-----------------------------------------------------------------------------
(* Types and local variables.                                              *)

LEMMA InitTypes == Init => TypeOK /\ Locals
  BY AccountingAssumption DEF Init, TypeOK, Locals, LocalFacts, Idle, NoSession, Steps

\* A step of one request to a record with its own facts, on the same rows.
LEMMA GotoTypes ==
  ASSUME TypeOK, Locals, NEW r \in Requests, NEW q \in Request, Goto(r, q),
         LocalFacts(q),
         \A w \in Rows : session[w].acct # NoAcct => session'[w].acct = session[w].acct
  PROVE  req' \in [Requests -> Request] /\ Locals'
<1>1. req \in [Requests -> Request]
  BY DEF TypeOK, Request
<1>2. req' = [req EXCEPT ![r] = q]
  BY DEF Goto
<1>3. req' \in [Requests -> Request]
  BY <1>1, <1>2
<1>4. ASSUME NEW p \in Requests PROVE LocalFacts(req[p])'
  <2>1. /\ req'[p] \in Request
        /\ LocalFacts(req'[p])
    BY <1>1, <1>2, <1>3 DEF Locals
  <2>2. req'[p].pc = "terminate" =>
          session'[req'[p].row].acct = session[req'[p].row].acct
    BY <2>1, AccountingAssumption DEF LocalFacts
  <2>3. QED
    BY <2>1, <2>2 DEF LocalFacts
<1>5. QED
  BY <1>3, <1>4 DEF Locals

LEMMA IdleTypes == Idle \in Request /\ LocalFacts(Idle)
  BY AccountingAssumption DEF Idle, Request, LocalFacts, Steps

LEMMA NextTypes == TypeOK /\ Locals /\ [Next]_vars => TypeOK' /\ Locals'
<1> SUFFICES ASSUME TypeOK, Locals, [Next]_vars PROVE TypeOK' /\ Locals'
  OBVIOUS
<1> USE AccountingAssumption DEF nasVars, subVars, books, races
<1>a. req \in [Requests -> Request]
  BY DEF TypeOK, Request
<1>1. ASSUME NEW u \in Subscriptions, Activate(u) \/ Expire(u)
      PROVE  TypeOK' /\ Locals'
  BY <1>1 DEF Activate, Expire, TypeOK, Locals, LocalFacts
<1>2. ASSUME NEW a \in Accts, Authorize(a) \/ Traffic(a) \/ HangUp(a)
      PROVE  TypeOK' /\ Locals'
  BY <1>2 DEF Authorize, Traffic, HangUp, TypeOK, Locals, LocalFacts
<1>3. ASSUME NEW r \in Requests, NEW a \in Accts, Start(r, a)
      PROVE  TypeOK' /\ Locals'
  <2> DEFINE q == [Idle EXCEPT !.pc = "create", !.acct = a]
  <2>1. q \in Request /\ LocalFacts(q)
    BY IdleTypes DEF Request, LocalFacts, Steps
  <2>2. Goto(r, q)
    BY <1>3 DEF Start
  <2>3. /\ doubled' \subseteq Accts
        /\ UNCHANGED <<nasVars, session, subVars, stopped, books, recounted, crossed, crashes>>
    BY <1>3 DEF Start, TypeOK
  <2> HIDE DEF q
  <2>4. req' \in [Requests -> Request] /\ Locals'
    BY <2>1, <2>2, <2>3, GotoTypes
  <2>5. QED
    BY <2>3, <2>4 DEF TypeOK, Request
<1>4. ASSUME NEW r \in Requests, NEW a \in Accts, NEW mb \in 0..MaxMb, Update(r, a, mb)
      PROVE  TypeOK' /\ Locals'
  <2>1. PICK w \in ActiveRows(a) :
          Goto(r, [Idle EXCEPT !.pc = "counters", !.acct = a, !.row = w, !.mb = mb,
                               !.delta = Max({0, mb - session[w].mb})])
    BY <1>4 DEF Update
  <2> DEFINE delta == Max({0, mb - session[w].mb})
             q == [Idle EXCEPT !.pc = "counters", !.acct = a, !.row = w, !.mb = mb,
                               !.delta = delta]
  <2>2. w \in Rows /\ session[w].mb \in 0..MaxMb
    BY DEF ActiveRows, RowsOf, TypeOK
  <2>3. delta \in 0..MaxMb
    <3>1. mb - session[w].mb \in Int /\ mb - session[w].mb <= MaxMb
      BY <2>2
    <3>2. delta \in Nat /\ (delta = 0 \/ delta = mb - session[w].mb)
      BY <3>1, PositivePart
    <3> HIDE DEF delta
    <3>3. QED
      BY <3>1, <3>2
  <2>4. Goto(r, q)
    BY <2>1
  <2> HIDE DEF delta
  <2>5. q \in Request /\ LocalFacts(q)
    BY <2>2, <2>3, IdleTypes DEF Request, LocalFacts, Steps
  <2> HIDE DEF q
  <2>6. /\ late' \in 0..MaxLate
        /\ recounted' \subseteq Rows
        /\ UNCHANGED <<phase, sent, session, subVars, stopped, books, doubled, crossed, crashes>>
    BY <1>4 DEF Update, ActiveRows, RowsOf, TypeOK
  <2>7. req' \in [Requests -> Request] /\ Locals'
    BY <2>4, <2>5, <2>6, GotoTypes
  <2>8. QED
    BY <2>6, <2>7 DEF TypeOK, Request
<1>5. ASSUME NEW r \in Requests, Create(r)
      PROVE  TypeOK' /\ Locals'
  <2>1. PICK w \in Rows :
          /\ session[w] = NoSession
          /\ session' = [session EXCEPT
               ![w] = [acct |-> req[r].acct, status |-> "ACTIVE", mb |-> 0]]
    BY <1>5 DEF Create
  <2>2. req[r].acct \in Accts
    BY <1>5 DEF Create, Locals, LocalFacts
  <2>3. session' \in [Rows -> [acct : Accts \union {NoAcct},
                               status : {"ACTIVE", "TERMINATED"}, mb : 0..MaxMb]]
    BY <2>1, <2>2 DEF TypeOK
  <2>4. \A v \in Rows : session[v].acct # NoAcct => session'[v].acct = session[v].acct
    BY <2>1 DEF NoSession, TypeOK
  <2>5. req' \in [Requests -> Request] /\ Locals'
    BY <1>5, <2>4, IdleTypes, GotoTypes DEF Create
  <2>6. QED
    BY <1>5, <2>3, <2>5 DEF Create, TypeOK, Request
<1>6. ASSUME NEW r \in Requests, WriteCounters(r)
      PROVE  TypeOK' /\ Locals'
  <2> DEFINE q == [req[r] EXCEPT !.pc = "subscription"]
             back == Max({0, session[req[r].row].mb - req[r].mb})
  <2>1. /\ session' = [session EXCEPT ![req[r].row].mb = req[r].mb]
        /\ rewound' = Book(rewound, SubscriberOf[req[r].acct], back)
        /\ Goto(r, q)
        /\ req[r].pc = "counters"
        /\ UNCHANGED <<nasVars, subVars, stopped, dropped, races, crashes>>
    BY <1>6 DEF WriteCounters
  <2>2. req[r] \in Request /\ LocalFacts(req[r])
    BY <1>a DEF Locals
  <2>3. session[req[r].row].mb - req[r].mb \in Int
    BY <2>1, <2>2 DEF LocalFacts, Request, TypeOK
  <2>4. back \in Nat
    BY <2>3, PositivePart
  <2> HIDE DEF back
  <2>5. rewound' \in [Subscribers -> Nat]
    BY <2>1, <2>2, <2>4, BookType DEF TypeOK, LocalFacts
  <2>6. session' \in SessionRows
    BY <2>1, <2>2, RowTypes DEF TypeOK, SessionRows, Request, LocalFacts
  <2>7. \A v \in Rows : session'[v].acct = session[v].acct
    BY <2>1 DEF TypeOK
  <2>8. q \in Request /\ LocalFacts(q)
    BY <2>1, <2>2 DEF Request, LocalFacts, Steps
  <2> HIDE DEF q
  <2>9. req' \in [Requests -> Request] /\ Locals'
    BY <2>1, <2>7, <2>8, GotoTypes
  <2>10. QED
    BY <2>1, <2>5, <2>6, <2>9 DEF TypeOK, SessionRows, Request
<1>7. ASSUME NEW r \in Requests, ReadSubscription(r)
      PROVE  TypeOK' /\ Locals'
  <2>1. req[r] \in Request /\ LocalFacts(req[r])
    BY <1>a DEF Locals
  <2>2. dropped' \in [Subscribers -> Nat]
    <3>1. req[r].acct \in Accts /\ req[r].delta \in Nat
      <4>1. req[r].pc = "subscription"
        BY <1>7 DEF ReadSubscription
      <4>2. QED
        BY <2>1, <4>1 DEF Request, LocalFacts
    <3>2. Book(dropped, SubscriberOf[req[r].acct], req[r].delta) \in [Subscribers -> Nat]
      BY <3>1, BookType DEF TypeOK
    <3>3. \/ dropped' = dropped
          \/ dropped' = Book(dropped, SubscriberOf[req[r].acct], req[r].delta)
      BY <1>7 DEF ReadSubscription
    <3>4. QED
      BY <3>2, <3>3 DEF TypeOK
  <2>3. \E q \in Request : Goto(r, q) /\ LocalFacts(q)
    <3>1. CASE Goto(r, Idle)
      BY <3>1, IdleTypes
    <3>2. CASE \E u \in Latest(SubscriberOf[req[r].acct]) :
                 Goto(r, [req[r] EXCEPT !.pc = "usage", !.sub = u, !.seen = used[u]])
      <4>1. PICK u \in Latest(SubscriberOf[req[r].acct]) :
              Goto(r, [req[r] EXCEPT !.pc = "usage", !.sub = u, !.seen = used[u]])
        BY <3>2
      <4>2. u \in Subscriptions /\ OwnerOf[u] = SubscriberOf[req[r].acct] /\ used[u] \in Nat
        BY DEF Latest, Active, TypeOK
      <4>3. req[r].acct \in Accts
        BY <1>7, <2>1 DEF ReadSubscription, LocalFacts
      <4> DEFINE q == [req[r] EXCEPT !.pc = "usage", !.sub = u, !.seen = used[u]]
      <4>4. q \in Request /\ LocalFacts(q)
        BY <2>1, <4>2, <4>3 DEF Request, LocalFacts, Steps
      <4>5. QED
        BY <4>1, <4>4
    <3>3. QED
      BY <1>7, <3>1, <3>2 DEF ReadSubscription
  <2>4. req' \in [Requests -> Request] /\ Locals'
    BY <1>7, <2>3, GotoTypes DEF ReadSubscription
  <2>5. crossed' \subseteq Subscriptions
    BY <1>7 DEF ReadSubscription, Latest, Active, TypeOK
  <2>6. QED
    BY <1>7, <2>2, <2>4, <2>5 DEF ReadSubscription, TypeOK, Request
<1>8. ASSUME NEW r \in Requests, WriteUsage(r)
      PROVE  TypeOK' /\ Locals'
  <2>1. req[r] \in Request /\ LocalFacts(req[r])
    BY <1>a DEF Locals
  <2>2. used' \in [Subscriptions -> Nat] /\ told' \subseteq Subscriptions
    BY <1>8, <2>1 DEF WriteUsage, TypeOK, Request, LocalFacts
  <2>3. req' \in [Requests -> Request] /\ Locals'
    BY <1>8, IdleTypes, GotoTypes DEF WriteUsage
  <2>4. QED
    BY <1>8, <2>2, <2>3 DEF WriteUsage, TypeOK, Request
<1>9. ASSUME NEW r \in Requests, NEW a \in Accts, NEW w \in RowsOf(a),
             Goto(r, [Idle EXCEPT !.pc = "terminate", !.acct = a, !.row = w]),
             UNCHANGED <<nasVars, session, subVars, stopped, books, races, crashes>>
      PROVE  TypeOK' /\ Locals'
  <2> DEFINE q == [Idle EXCEPT !.pc = "terminate", !.acct = a, !.row = w]
  <2>1. q \in Request /\ LocalFacts(q)
    BY IdleTypes DEF RowsOf, Request, LocalFacts, Steps
  <2>2. Goto(r, q)
    BY <1>9
  <2> HIDE DEF q
  <2>3. req' \in [Requests -> Request] /\ Locals'
    BY <1>9, <2>1, <2>2, GotoTypes
  <2>4. QED
    BY <1>9, <2>3 DEF TypeOK, Request
<1>10. ASSUME NEW r \in Requests, NEW a \in Accts, Stop(r, a)
       PROVE  TypeOK' /\ Locals'
  BY <1>9, <1>10 DEF Stop
<1>11. ASSUME NEW r \in Requests, NEW w \in Rows, OperatorDisconnects(r, w)
       PROVE  TypeOK' /\ Locals'
  <2>1. session[w].acct \in Accts /\ w \in RowsOf(session[w].acct)
    BY <1>11 DEF OperatorDisconnects, RowsOf, TypeOK
  <2>2. QED
    BY <1>9, <1>11, <2>1 DEF OperatorDisconnects
<1>12. ASSUME NEW r \in Requests, Terminate(r)
       PROVE  TypeOK' /\ Locals'
  <2>1. req[r] \in Request /\ LocalFacts(req[r])
    BY <1>a DEF Locals
  <2>2. \A v \in Rows : session'[v].acct = session[v].acct
    BY <1>12 DEF Terminate, TypeOK
  <2>3. req' \in [Requests -> Request] /\ Locals'
    BY <1>12, <2>2, IdleTypes, GotoTypes DEF Terminate
  <2>4. stopped' \subseteq Accts
    BY <1>12, <2>1 DEF Terminate, LocalFacts, TypeOK
  <2>5. session' \in SessionRows
    BY <1>12, <2>1, RowTypes DEF Terminate, TypeOK, SessionRows, LocalFacts
  <2>6. QED
    BY <1>12, <2>3, <2>4, <2>5 DEF Terminate, TypeOK, SessionRows, Request
<1>13. ASSUME NEW r \in Requests, RequestDies(r)
       PROVE  TypeOK' /\ Locals'
  <2>1. req[r] \in Request /\ LocalFacts(req[r])
    BY <1>a DEF Locals
  <2>2. dropped' \in [Subscribers -> Nat]
    <3>1. req[r].acct \in Accts /\ req[r].delta \in Nat
      BY <1>13, <2>1 DEF RequestDies, Request, LocalFacts
    <3>2. Book(dropped, SubscriberOf[req[r].acct], req[r].delta) \in [Subscribers -> Nat]
      BY <3>1, BookType DEF TypeOK
    <3>3. \/ dropped' = dropped
          \/ dropped' = Book(dropped, SubscriberOf[req[r].acct], req[r].delta)
      BY <1>13 DEF RequestDies
    <3>4. QED
      BY <3>2, <3>3 DEF TypeOK
  <2>3. req' \in [Requests -> Request] /\ Locals'
    BY <1>13, IdleTypes, GotoTypes DEF RequestDies
  <2>4. crashes' \in 0..MaxCrashes
    BY <1>13 DEF RequestDies, TypeOK
  <2>5. QED
    BY <1>13, <2>2, <2>3, <2>4 DEF RequestDies, TypeOK, Request
<1>14. CASE UNCHANGED vars
  BY <1>14 DEF vars, TypeOK, Locals, LocalFacts
<1>15. QED
  BY <1>1, <1>2, <1>3, <1>4, <1>5, <1>6, <1>7, <1>8, <1>10, <1>11, <1>12, <1>13,
     <1>14 DEF Next

-----------------------------------------------------------------------------
(* Rows.                                                                   *)

LEMMA InitRows == Init => RowInv
<1> SUFFICES ASSUME Init PROVE RowInv
  OBVIOUS
<1>1. \A w \in Rows : session[w].acct = NoAcct
  BY DEF Init, NoSession
<1>2. \A a \in Accts : RowsOf(a) = {}
  BY <1>1, AccountingAssumption DEF RowsOf
<1>3. \A a : Creating(a) = {}
  BY DEF Init, Idle, Creating
<1>4. QED
  BY <1>2, <1>3 DEF Init, RowInv, SecondRowOnlyByOverlap, ReopenedOnlyByOverlap

LEMMA NextRows == TypeOK /\ Locals /\ RowInv /\ [Next]_vars => RowInv'
<1> SUFFICES ASSUME TypeOK, Locals, RowInv, [Next]_vars
             PROVE  RowInv'
  OBVIOUS
<1>a. req \in [Requests -> Request]
  BY DEF TypeOK, Request
\* No row changes its session or status and no request begins to create one.
<1>b. ASSUME \A w \in Rows : /\ session'[w].acct = session[w].acct
                             /\ session'[w].status = session[w].status,
             UNCHANGED <<stopped, doubled>>,
             \A p \in Requests : req'[p].pc = "create" => req'[p] = req[p]
      PROVE  RowInv'
  <2>1. \A a : RowsOf(a)' = RowsOf(a) /\ ActiveRows(a)' = ActiveRows(a)
    BY <1>b DEF RowsOf, ActiveRows
  <2>2. \A a : Creating(a)' \subseteq Creating(a)
    BY <1>b DEF Creating
  <2>3. QED
    BY <1>b, <2>1, <2>2 DEF RowInv, SecondRowOnlyByOverlap, ReopenedOnlyByOverlap
<1>c. ASSUME NEW r \in Requests, NEW q, Goto(r, q), q.pc # "create"
      PROVE  \A p \in Requests : req'[p].pc = "create" => req'[p] = req[p]
  BY <1>a, <1>c DEF Goto
<1>1. ASSUME NEW r \in Requests, NEW a \in Accts, Start(r, a)
      PROVE  RowInv'
  <2> DEFINE q == [Idle EXCEPT !.pc = "create", !.acct = a]
  <2>1. q.acct = a /\ q.pc = "create"
    BY IdleTypes DEF Request
  <2>2. /\ Goto(r, q) /\ RowsOf(a) = {} /\ UNCHANGED <<session, stopped>>
        /\ doubled \subseteq doubled' /\ (Creating(a) # {} => a \in doubled')
    BY <1>1 DEF Start
  <2> HIDE DEF q
  <2>3. \A p \in Requests : req'[p] = IF p = r THEN q ELSE req[p]
    BY <1>a, <2>2 DEF Goto
  <2>4. \A b : RowsOf(b)' = RowsOf(b) /\ ActiveRows(b)' = ActiveRows(b)
    BY <2>2 DEF RowsOf, ActiveRows
  <2>5. \A b : b # a => Creating(b)' \subseteq Creating(b)
    BY <2>1, <2>3 DEF Creating
  <2>6. Creating(a)' \subseteq Creating(a) \union {r}
    BY <2>3 DEF Creating
  <2>7. ASSUME NEW b \in Accts \ doubled'
        PROVE  /\ Creating(b)' # {} => RowsOf(b)' = {}
               /\ \A p1, p2 \in Creating(b)' : p1 = p2
    <3>1. CASE b = a
      BY <2>2, <2>4, <2>6, <2>7, <3>1
    <3>2. CASE b # a
      BY <2>2, <2>4, <2>5, <2>7, <3>2 DEF RowInv
    <3> QED BY <3>1, <3>2
  <2>8. SecondRowOnlyByOverlap' /\ ReopenedOnlyByOverlap'
    BY <2>2, <2>4 DEF RowInv, SecondRowOnlyByOverlap, ReopenedOnlyByOverlap
  <2>9. QED
    BY <2>2, <2>4, <2>7, <2>8 DEF RowInv
<1>2. ASSUME NEW r \in Requests, Create(r)
      PROVE  RowInv'
  <2>1. PICK a \in Accts :
          /\ req[r].pc = "create" /\ a = req[r].acct
          /\ Goto(r, Idle) /\ UNCHANGED <<stopped, doubled>>
    BY <1>2 DEF Create, Locals, LocalFacts, races
  <2>2. PICK w \in Rows :
          /\ session[w] = NoSession
          /\ session' = [session EXCEPT ![w] = [acct |-> a, status |-> "ACTIVE", mb |-> 0]]
    BY <1>2, <2>1 DEF Create
  <2>3. /\ session'[w].acct = a /\ session[w].acct = NoAcct
        /\ \A v \in Rows \ {w} : session'[v] = session[v]
    BY <2>2 DEF TypeOK, NoSession
  <2>4. RowsOf(a)' = RowsOf(a) \union {w}
    BY <2>3, AccountingAssumption DEF RowsOf
  <2>5. \A b \in Accts \ {a} : RowsOf(b)' = RowsOf(b) /\ ActiveRows(b)' = ActiveRows(b)
    BY <2>3, AccountingAssumption DEF RowsOf, ActiveRows
  <2>6. \A p \in Requests : req'[p] = IF p = r THEN Idle ELSE req[p]
    BY <1>a, <2>1 DEF Goto
  <2>7. r \in Creating(a) /\ \A b : Creating(b)' \subseteq Creating(b) \ {r}
    BY <2>1, <2>6 DEF Creating, Idle
  <2>8. a \notin doubled => RowsOf(a) = {} /\ Creating(a)' = {} /\ a \notin stopped
    BY <2>7 DEF RowInv
  <2>9. SecondRowOnlyByOverlap'
    BY <2>1, <2>4, <2>5, <2>8 DEF RowInv, SecondRowOnlyByOverlap
  <2>10. ASSUME NEW b \in Accts \ doubled'
         PROVE  /\ Creating(b)' # {} => RowsOf(b)' = {}
                /\ \A p1, p2 \in Creating(b)' : p1 = p2
    <3>1. CASE b = a
      BY <2>1, <2>8, <2>10, <3>1
    <3>2. CASE b # a
      BY <2>1, <2>5, <2>7, <2>10, <3>2 DEF RowInv
    <3> QED BY <3>1, <3>2
  <2>11. stopped \subseteq Accts
    BY DEF TypeOK
  <2>12. ReopenedOnlyByOverlap' /\ \A b \in stopped' : RowsOf(b)' # {}
    BY <2>1, <2>4, <2>5, <2>8, <2>11 DEF RowInv, ReopenedOnlyByOverlap
  <2>13. QED
    BY <2>9, <2>10, <2>12 DEF RowInv
<1>3. ASSUME NEW r \in Requests, NEW a \in Accts, NEW mb \in 0..MaxMb, Update(r, a, mb)
      PROVE  RowInv'
  <2>1. \E q : Goto(r, q) /\ q.pc = "counters"
    <3>1. PICK w \in ActiveRows(a) :
            Goto(r, [Idle EXCEPT !.pc = "counters", !.acct = a, !.row = w, !.mb = mb,
                                 !.delta = Max({0, mb - session[w].mb})])
      BY <1>3 DEF Update
    <3> DEFINE delta == Max({0, mb - session[w].mb})
               q == [Idle EXCEPT !.pc = "counters", !.acct = a, !.row = w, !.mb = mb,
                                 !.delta = delta]
    <3>2. Goto(r, q)
      BY <3>1
    <3> HIDE DEF delta
    <3>3. q.pc = "counters"
      BY DEF Idle
    <3> HIDE DEF q
    <3>4. QED
      BY <3>2, <3>3
  <2>2. UNCHANGED <<session, stopped, doubled>>
    BY <1>3 DEF Update
  <2>3. QED
    BY <1>b, <1>c, <2>1, <2>2
<1>4. ASSUME NEW r \in Requests, WriteCounters(r)
      PROVE  RowInv'
  <2>1. /\ Goto(r, [req[r] EXCEPT !.pc = "subscription"])
        /\ [req[r] EXCEPT !.pc = "subscription"].pc # "create"
    BY <1>4, <1>a DEF WriteCounters, Request
  <2>2. \A w \in Rows : session'[w].acct = session[w].acct /\ session'[w].status = session[w].status
    BY <1>4 DEF WriteCounters, TypeOK
  <2>3. UNCHANGED <<stopped, doubled>>
    BY <1>4 DEF WriteCounters, races
  <2>4. QED
    BY <1>b, <1>c, <2>1, <2>2, <2>3
<1>5. ASSUME NEW r \in Requests, ReadSubscription(r)
      PROVE  RowInv'
  <2>1. \E q : Goto(r, q) /\ q.pc # "create"
    <3>1. \A u : [req[r] EXCEPT !.pc = "usage", !.sub = u, !.seen = used[u]].pc = "usage"
      BY <1>a DEF Request
    <3>2. Idle.pc = "idle"
      BY DEF Idle
    <3>3. QED
      BY <1>5, <3>1, <3>2 DEF ReadSubscription
  <2>2. UNCHANGED <<session, stopped, doubled>>
    BY <1>5 DEF ReadSubscription, races
  <2>3. QED
    BY <1>b, <1>c, <2>1, <2>2
<1>6. ASSUME NEW r \in Requests, WriteUsage(r) \/ RequestDies(r)
      PROVE  RowInv'
  <2>1. Goto(r, Idle) /\ UNCHANGED <<session, stopped, doubled>>
    BY <1>6 DEF WriteUsage, RequestDies, races
  <2>2. Idle.pc # "create"
    BY DEF Idle
  <2>3. QED
    BY <1>b, <1>c, <2>1, <2>2
<1>7. ASSUME NEW r \in Requests, NEW q, Goto(r, q), q.pc = "terminate",
             UNCHANGED <<session, stopped, doubled>>
      PROVE  RowInv'
  BY <1>b, <1>c, <1>7
<1>8. ASSUME NEW a, NEW w
      PROVE  [Idle EXCEPT !.pc = "terminate", !.acct = a, !.row = w].pc = "terminate"
  BY DEF Idle
<1>9. ASSUME NEW r \in Requests, NEW a \in Accts, Stop(r, a)
      PROVE  RowInv'
  BY <1>7, <1>8, <1>9 DEF Stop, races
<1>10. ASSUME NEW r \in Requests, NEW w \in Rows, OperatorDisconnects(r, w)
       PROVE  RowInv'
  BY <1>7, <1>8, <1>10 DEF OperatorDisconnects, races
<1>11. ASSUME NEW r \in Requests, Terminate(r)
       PROVE  RowInv'
  <2>1. PICK a \in Accts, v \in Rows :
          /\ session[v].acct = a
          /\ Goto(r, Idle) /\ stopped' = stopped \union {a} /\ UNCHANGED doubled
          /\ session' = [session EXCEPT ![v].status = "TERMINATED"]
    BY <1>11 DEF Terminate, Locals, LocalFacts, races
  <2>2. \A w \in Rows : /\ session'[w].acct = session[w].acct
                        /\ session'[w].status =
                             IF w = v THEN "TERMINATED" ELSE session[w].status
    BY <2>1 DEF TypeOK
  <2>3. \A b : RowsOf(b)' = RowsOf(b) /\ ActiveRows(b)' \subseteq ActiveRows(b)
    BY <2>2 DEF RowsOf, ActiveRows
  <2>4. v \in RowsOf(a) /\ (a \notin doubled => \A w \in RowsOf(a) : w = v)
    BY <2>1 DEF RowsOf, RowInv, SecondRowOnlyByOverlap
  <2>5. a \notin doubled => ActiveRows(a)' = {}
    BY <2>2, <2>3, <2>4 DEF ActiveRows
  <2>6. \A p \in Requests : req'[p].pc = "create" => req'[p] = req[p]
    <3>1. Idle.pc # "create"
      BY DEF Idle
    <3>2. QED
      BY <1>c, <2>1, <3>1
  <2>7. \A b : Creating(b)' \subseteq Creating(b)
    BY <2>6 DEF Creating
  <2>8. SecondRowOnlyByOverlap'
    BY <2>1, <2>3 DEF RowInv, SecondRowOnlyByOverlap
  <2>9. ReopenedOnlyByOverlap'
    BY <2>1, <2>3, <2>5 DEF RowInv, ReopenedOnlyByOverlap
  <2>10. QED
    BY <2>1, <2>3, <2>4, <2>7, <2>8, <2>9 DEF RowInv
<1>12. ASSUME NEW u \in Subscriptions, Activate(u) \/ Expire(u)
       PROVE  RowInv'
  BY <1>b, <1>12 DEF Activate, Expire, races
<1>13. ASSUME NEW a \in Accts, Authorize(a) \/ Traffic(a) \/ HangUp(a)
       PROVE  RowInv'
  BY <1>b, <1>13 DEF Authorize, Traffic, HangUp, races
<1>14. CASE UNCHANGED vars
  BY <1>b, <1>14 DEF vars, races
<1>15. QED
  BY <1>1, <1>2, <1>3, <1>4, <1>5, <1>6, <1>9, <1>10, <1>11, <1>12, <1>13, <1>14 DEF Next

-----------------------------------------------------------------------------
(* Usage.                                                                  *)

LEMMA InitUsage == Init => UsageInv
  BY DEF Init, UsageInv, RefilledOnlyByOverlap, Idle, Charging

LEMMA NextUsage == TypeOK /\ Locals /\ UsageInv /\ [Next]_vars => UsageInv'
<1> SUFFICES ASSUME TypeOK, Locals, UsageInv, [Next]_vars
             PROVE  UsageInv'
  OBVIOUS
<1>a. req \in [Requests -> Request]
  BY DEF TypeOK, Request
\* No usage is written and no request reads one.
<1>b. ASSUME UNCHANGED <<used, told, crossed>>,
             \A p \in Requests : req'[p].pc = "usage" => req'[p] = req[p]
      PROVE  UsageInv'
  <2>1. \A u : \A p \in Charging(u)' : p \in Charging(u) /\ req'[p] = req[p]
    BY <1>b DEF Charging
  <2>2. RefilledOnlyByOverlap'
    BY <1>b DEF UsageInv, RefilledOnlyByOverlap
  <2> QED BY <1>b, <2>1, <2>2 DEF UsageInv
<1>c. ASSUME NEW r \in Requests, NEW q, Goto(r, q), q.pc # "usage",
             UNCHANGED <<used, told, crossed>>
      PROVE  UsageInv'
  <2>1. \A p \in Requests : req'[p].pc = "usage" => req'[p] = req[p]
    BY <1>a, <1>c DEF Goto
  <2>2. QED
    BY <1>b, <1>c, <2>1
<1>1. ASSUME NEW r \in Requests, NEW a \in Accts, Start(r, a)
      PROVE  UsageInv'
  <2>1. [Idle EXCEPT !.pc = "create", !.acct = a].pc = "create"
    BY DEF Idle
  <2>2. QED
    BY <1>1, <1>c, <2>1 DEF Start, subVars, races
<1>2. ASSUME NEW r \in Requests, NEW a \in Accts, NEW mb \in 0..MaxMb, Update(r, a, mb)
      PROVE  UsageInv'
  <2>1. PICK w \in ActiveRows(a) :
          Goto(r, [Idle EXCEPT !.pc = "counters", !.acct = a, !.row = w, !.mb = mb,
                               !.delta = Max({0, mb - session[w].mb})])
    BY <1>2 DEF Update
  <2> DEFINE delta == Max({0, mb - session[w].mb})
             q == [Idle EXCEPT !.pc = "counters", !.acct = a, !.row = w, !.mb = mb,
                               !.delta = delta]
  <2>2. Goto(r, q)
    BY <2>1
  <2> HIDE DEF delta
  <2>3. q.pc = "counters"
    BY DEF Idle
  <2> HIDE DEF q
  <2>4. QED
    BY <1>2, <1>c, <2>2, <2>3 DEF Update, subVars, races
<1>3. ASSUME NEW r \in Requests, Create(r) \/ Terminate(r) \/ RequestDies(r)
      PROVE  UsageInv'
  <2>1. Goto(r, Idle) /\ UNCHANGED <<used, told, crossed>>
    BY <1>3 DEF Create, Terminate, RequestDies, subVars, races
  <2>2. Idle.pc = "idle"
    BY DEF Idle
  <2>3. QED
    BY <1>c, <2>1, <2>2
<1>4. ASSUME NEW r \in Requests, WriteCounters(r)
      PROVE  UsageInv'
  <2>1. [req[r] EXCEPT !.pc = "subscription"].pc = "subscription"
    BY <1>a DEF Request
  <2>2. QED
    BY <1>4, <1>c, <2>1 DEF WriteCounters, subVars, races
<1>5. ASSUME NEW r \in Requests, ReadSubscription(r)
      PROVE  UsageInv'
  <2>1. UNCHANGED <<used, told>>
    BY <1>5 DEF ReadSubscription, subVars
  <2>2. CASE Goto(r, Idle) /\ UNCHANGED crossed
    <3>1. Idle.pc = "idle"
      BY DEF Idle
    <3>2. QED
      BY <1>c, <2>1, <2>2, <3>1
  <2>3. CASE \E u \in Latest(SubscriberOf[req[r].acct]) :
               /\ Goto(r, [req[r] EXCEPT !.pc = "usage", !.sub = u, !.seen = used[u]])
               /\ crossed' = crossed \union {v \in {u} : Charging(v) # {}}
    <3>1. PICK u \in Latest(SubscriberOf[req[r].acct]) :
            /\ Goto(r, [req[r] EXCEPT !.pc = "usage", !.sub = u, !.seen = used[u]])
            /\ crossed' = crossed \union {v \in {u} : Charging(v) # {}}
      BY <2>3
    <3> DEFINE q == [req[r] EXCEPT !.pc = "usage", !.sub = u, !.seen = used[u]]
    <3>2. q.sub = u /\ q.seen = used[u]
      BY <1>a DEF Request
    <3>3. \A p \in Requests : req'[p] = IF p = r THEN q ELSE req[p]
      BY <1>a, <3>1 DEF Goto
    <3> HIDE DEF q
    <3>4. /\ \A v : v # u => \A p \in Charging(v)' : p \in Charging(v) /\ req'[p] = req[p]
          /\ \A p \in Charging(u)' : p = r \/ p \in Charging(u)
      BY <3>2, <3>3 DEF Charging
    <3>5. crossed \subseteq crossed' /\ (Charging(u) # {} => u \in crossed')
      BY <3>1
    <3>6. ASSUME NEW v \in Subscriptions \ crossed'
          PROVE  /\ \A p \in Charging(v)' : req'[p].seen = used[v]
                 /\ \A p1, p2 \in Charging(v)' : p1 = p2
      <4>1. CASE v = u
        BY <3>2, <3>3, <3>4, <3>5, <3>6, <4>1
      <4>2. CASE v # u
        BY <3>4, <3>5, <3>6, <4>2 DEF UsageInv
      <4> QED BY <4>1, <4>2
    <3>7. RefilledOnlyByOverlap'
      BY <2>1, <3>5 DEF UsageInv, RefilledOnlyByOverlap
    <3>8. QED
      BY <2>1, <3>6, <3>7 DEF UsageInv
  <2>4. QED
    BY <1>5, <2>2, <2>3 DEF ReadSubscription
<1>6. ASSUME NEW r \in Requests, WriteUsage(r)
      PROVE  UsageInv'
  <2>1. PICK u \in Subscriptions, delta \in Nat, n \in Nat :
          /\ req[r].pc = "usage" /\ req[r].sub = u
          /\ n = req[r].seen + delta
          /\ used' = [used EXCEPT ![u] = n]
          /\ told' = IF n >= Limit[u] THEN told \union {u} ELSE told
          /\ Goto(r, Idle) /\ UNCHANGED crossed
    <3>1. req[r].pc = "usage" /\ req[r].delta \in Nat /\ req[r].seen \in Nat
      BY <1>6, <1>a, AccountingAssumption DEF WriteUsage, Request, AccountingAssumption
    <3>2. req[r].sub \in Subscriptions
      BY <3>1 DEF Locals, LocalFacts
    <3>3. req[r].seen + req[r].delta \in Nat /\ UNCHANGED crossed
      BY <1>6, <3>1 DEF WriteUsage, races
    <3>4. /\ used' = [used EXCEPT ![req[r].sub] = req[r].seen + req[r].delta]
          /\ told' = IF req[r].seen + req[r].delta >= Limit[req[r].sub]
                     THEN told \union {req[r].sub} ELSE told
          /\ Goto(r, Idle)
      BY <1>6 DEF WriteUsage
    <3> HIDE DEF Goto
    <3>5. QED
      BY <3>1, <3>2, <3>3, <3>4
  <2>2. \A p \in Requests : req'[p] = IF p = r THEN Idle ELSE req[p]
    BY <1>a, <2>1 DEF Goto
  <2>3. /\ r \in Charging(u)
        /\ \A v : \A p \in Charging(v)' : p \in Charging(v) /\ p # r /\ req'[p] = req[p]
    BY <2>1, <2>2 DEF Charging, Idle
  <2>4. \A v \in Subscriptions : used'[v] = IF v = u THEN n ELSE used[v]
    BY <2>1 DEF TypeOK
  <2>5. ASSUME NEW v \in Subscriptions \ crossed'
        PROVE  /\ \A p \in Charging(v)' : req'[p].seen = used'[v]
               /\ \A p1, p2 \in Charging(v)' : p1 = p2
    <3>1. v = u => Charging(v)' = {}
      BY <2>1, <2>3, <2>5 DEF UsageInv
    <3> QED BY <2>1, <2>3, <2>4, <2>5, <3>1 DEF UsageInv
  <2>6. used[u] \in Nat /\ Limit[u] \in Nat /\ told \subseteq Subscriptions
    BY AccountingAssumption DEF TypeOK
  <2>7. ASSUME NEW v \in told' \ crossed'
        PROVE  used'[v] >= Limit[v]
    <3>1. CASE v = u
      <4>1. n = used[u] + delta
        BY <2>1, <2>3, <2>7, <3>1 DEF UsageInv
      <4>2. n >= Limit[u]
        BY <2>1, <2>6, <2>7, <3>1, <4>1 DEF UsageInv, RefilledOnlyByOverlap
      <4>3. QED
        BY <2>4, <3>1, <4>2
    <3>2. CASE v # u
      BY <2>1, <2>4, <2>6, <2>7, <3>2 DEF UsageInv, RefilledOnlyByOverlap
    <3>3. QED
      BY <3>1, <3>2
  <2>8. QED
    BY <2>5, <2>7 DEF UsageInv, RefilledOnlyByOverlap
<1>7. ASSUME NEW a, NEW w
      PROVE  [Idle EXCEPT !.pc = "terminate", !.acct = a, !.row = w].pc = "terminate"
  BY DEF Idle
<1>8. ASSUME NEW r \in Requests, NEW a \in Accts, Stop(r, a)
      PROVE  UsageInv'
  BY <1>7, <1>8, <1>c DEF Stop, subVars, races
<1>9. ASSUME NEW r \in Requests, NEW w \in Rows, OperatorDisconnects(r, w)
      PROVE  UsageInv'
  BY <1>7, <1>9, <1>c DEF OperatorDisconnects, subVars, races
<1>10. ASSUME NEW u \in Subscriptions, Activate(u) \/ Expire(u)
       PROVE  UsageInv'
  BY <1>b, <1>10 DEF Activate, Expire, races
<1>11. ASSUME NEW a \in Accts, Authorize(a) \/ Traffic(a) \/ HangUp(a)
       PROVE  UsageInv'
  BY <1>b, <1>11 DEF Authorize, Traffic, HangUp, subVars, races
<1>12. CASE UNCHANGED vars
  BY <1>b, <1>12 DEF vars, subVars, races
<1>13. QED
  BY <1>1, <1>2, <1>3, <1>4, <1>5, <1>6, <1>8, <1>9, <1>10, <1>11, <1>12 DEF Next

-----------------------------------------------------------------------------
(* Sums of a function over a finite set.  SumFunctionOnSet takes the       *)
(* members one by one in a fixed order; that the order does not matter     *)
(* follows by taking a smallest set of which it would be false.            *)

Any(s) == CHOOSE x \in s : TRUE

\* A function that gives the sum of f over every subset of S.
Sums(f, h, S) ==
  h = [s \in SUBSET S |-> IF s = {} THEN 0 ELSE f[Any(s)] + h[s \ {Any(s)}]]

SumIter(f, S) == CHOOSE h : Sums(f, h, S)

LEMMA SumIsIter ==
  ASSUME NEW f, NEW S
  PROVE  SumFunctionOnSet(f, S) = SumIter(f, S)[S]
BY DEF SumFunctionOnSet, FoldFunctionOnSet, MapThenFoldSet, SumIter, Sums, Any

LEMMA AnyIn ==
  ASSUME NEW s, s # {}
  PROVE  Any(s) \in s
BY DEF Any

LEMMA SmallestSet ==
  ASSUME NEW S, IsFiniteSet(S), NEW T, T \subseteq SUBSET S, T # {}
  PROVE  \E s \in T : /\ IsFiniteSet(s)
                      /\ \A t \in T : ~(t \subseteq s /\ t # s)
<1>1. IsWellFoundedOn(StrictSubsetOrdering(S), SUBSET S)
  BY FS_StrictSubsetOrderingWellFounded, FS_FiniteSubsetsOfFinite
<1>2. PICK s \in T : \A t \in T : ~(<<t, s>> \in StrictSubsetOrdering(S))
  BY <1>1, WFMin
<1>3. IsFiniteSet(s)
  BY FS_Subset
<1>4. ASSUME NEW t \in T PROVE ~(t \subseteq s /\ t # s)
  <2>1. <<t, s>> \in (SUBSET S) \X (SUBSET S)
    OBVIOUS
  <2> QED BY <1>2, <2>1 DEF StrictSubsetOrdering
<1> QED BY <1>3, <1>4

\* Two such functions agree where both are defined.
LEMMA SumsAgree ==
  ASSUME NEW f, NEW S, IsFiniteSet(S), NEW T \in SUBSET S, NEW g, NEW h,
         Sums(f, g, S), Sums(f, h, T)
  PROVE  \A s \in SUBSET T : g[s] = h[s]
<1> DEFINE Bad == {s \in SUBSET T : g[s] # h[s]}
<1>1. SUFFICES ASSUME Bad # {} PROVE FALSE
  OBVIOUS
<1>2. PICK s \in Bad : \A t \in Bad : ~(t \subseteq s /\ t # s)
  <2>1. Bad \subseteq SUBSET S
    OBVIOUS
  <2> HIDE DEF Bad
  <2> QED BY <1>1, <2>1, SmallestSet
<1>3. g[s] = IF s = {} THEN 0 ELSE f[Any(s)] + g[s \ {Any(s)}]
  BY DEF Sums
<1>4. h[s] = IF s = {} THEN 0 ELSE f[Any(s)] + h[s \ {Any(s)}]
  BY DEF Sums
<1>5. s # {} => g[s \ {Any(s)}] = h[s \ {Any(s)}]
  BY <1>2, AnyIn
<1> QED BY <1>3, <1>4, <1>5

\* And there is one.
LEMMA SumsExist ==
  ASSUME NEW f, NEW S, IsFiniteSet(S)
  PROVE  \A T \in SUBSET S : Sums(f, SumIter(f, T), T)
<1> DEFINE Bad == {T \in SUBSET S : ~Sums(f, SumIter(f, T), T)}
<1>1. SUFFICES ASSUME Bad # {} PROVE FALSE
  OBVIOUS
<1>2. PICK T \in Bad : /\ IsFiniteSet(T)
                       /\ \A t \in Bad : ~(t \subseteq T /\ t # T)
  <2>1. Bad \subseteq SUBSET S
    OBVIOUS
  <2> HIDE DEF Bad
  <2> QED BY <1>1, <2>1, SmallestSet
<1> DEFINE below(s) == IF s = {} THEN 0 ELSE f[Any(s)] + SumIter(f, s \ {Any(s)})[s \ {Any(s)}]
           g == [s \in SUBSET T |-> below(s)]
<1>3. ASSUME NEW t \in SUBSET T, t # T
      PROVE  Sums(f, SumIter(f, t), t)
  BY <1>2, <1>3
<1>4. ASSUME NEW t \in SUBSET T, t # {}
      PROVE  SumIter(f, t \ {Any(t)})[t \ {Any(t)}] = g[t \ {Any(t)}]
  <2> DEFINE u == t \ {Any(t)}
  <2>1. u \in SUBSET T /\ u # T /\ IsFiniteSet(u)
    BY <1>2, <1>4, AnyIn, FS_Subset
  <2>2. Sums(f, SumIter(f, u), u)
    BY <1>3, <2>1
  <2>3. SumIter(f, u)[u] = IF u = {} THEN 0 ELSE f[Any(u)] + SumIter(f, u)[u \ {Any(u)}]
    BY <2>2 DEF Sums
  <2>4. ASSUME u # {} PROVE SumIter(f, u)[u \ {Any(u)}] = SumIter(f, u \ {Any(u)})[u \ {Any(u)}]
    <3>1. u \ {Any(u)} \in SUBSET u /\ u \ {Any(u)} \in SUBSET T /\ u \ {Any(u)} # T
      BY <2>1, <2>4, AnyIn
    <3>2. Sums(f, SumIter(f, u \ {Any(u)}), u \ {Any(u)})
      BY <1>3, <3>1
    <3> QED BY <2>1, <2>2, <3>1, <3>2, SumsAgree
  <2>5. g[u] = below(u)
    BY <2>1
  <2> QED BY <2>3, <2>4, <2>5
<1>5. Sums(f, g, T)
  <2>1. ASSUME NEW s \in SUBSET T
        PROVE  g[s] = IF s = {} THEN 0 ELSE f[Any(s)] + g[s \ {Any(s)}]
    BY <1>4, <2>1
  <2> QED BY <2>1 DEF Sums
<1>6. Sums(f, SumIter(f, T), T)
  BY <1>5 DEF SumIter
<1> QED BY <1>2, <1>6

LEMMA SumEmpty ==
  ASSUME NEW f
  PROVE  SumFunctionOnSet(f, {}) = 0
<1>1. Sums(f, SumIter(f, {}), {})
  BY SumsExist, FS_EmptySet
<1> QED BY <1>1, SumIsIter DEF Sums

LEMMA SumStep ==
  ASSUME NEW f, NEW S, IsFiniteSet(S), S # {}
  PROVE  SumFunctionOnSet(f, S) = f[Any(S)] + SumFunctionOnSet(f, S \ {Any(S)})
<1> DEFINE T == S \ {Any(S)}
<1>1. Sums(f, SumIter(f, S), S) /\ Sums(f, SumIter(f, T), T)
  BY SumsExist
<1>2. SumIter(f, S)[S] = f[Any(S)] + SumIter(f, S)[T]
  BY <1>1 DEF Sums
<1>3. SumIter(f, S)[T] = SumIter(f, T)[T]
  <2>1. T \in SUBSET S /\ T \in SUBSET T
    OBVIOUS
  <2> HIDE DEF T
  <2> QED BY <1>1, <2>1, SumsAgree
<1> QED BY <1>2, <1>3, SumIsIter

LEMMA SumType ==
  ASSUME NEW f, NEW S, IsFiniteSet(S), \A x \in S : f[x] \in Nat
  PROVE  SumFunctionOnSet(f, S) \in Nat
<1> DEFINE Bad == {s \in SUBSET S : SumFunctionOnSet(f, s) \notin Nat}
<1>1. SUFFICES ASSUME Bad # {} PROVE FALSE
  OBVIOUS
<1>2. PICK s \in Bad : /\ IsFiniteSet(s)
                       /\ \A t \in Bad : ~(t \subseteq s /\ t # s)
  <2>1. Bad \subseteq SUBSET S
    OBVIOUS
  <2> HIDE DEF Bad
  <2> QED BY <1>1, <2>1, SmallestSet
<1>3. s # {}
  BY SumEmpty
<1>4. SumFunctionOnSet(f, s) = f[Any(s)] + SumFunctionOnSet(f, s \ {Any(s)})
  BY <1>2, <1>3, SumStep
<1>5. Any(s) \in s
  BY <1>3, AnyIn
<1>6. SumFunctionOnSet(f, s \ {Any(s)}) \in Nat
  BY <1>2, <1>5
<1> QED BY <1>4, <1>5, <1>6

\* Any member may be taken out first.
LEMMA SumTakes ==
  ASSUME NEW f, NEW S, IsFiniteSet(S), \A x \in S : f[x] \in Nat
  PROVE  \A s \in SUBSET S, x \in S :
           x \in s => SumFunctionOnSet(f, s) = f[x] + SumFunctionOnSet(f, s \ {x})
<1> DEFINE Takes(s, x) == SumFunctionOnSet(f, s) = f[x] + SumFunctionOnSet(f, s \ {x})
           Bad == {s \in SUBSET S : \E x \in s : ~Takes(s, x)}
<1>1. SUFFICES ASSUME Bad # {} PROVE FALSE
  OBVIOUS
<1>2. PICK s \in Bad : /\ IsFiniteSet(s)
                       /\ \A t \in Bad : ~(t \subseteq s /\ t # s)
  <2>1. Bad \subseteq SUBSET S
    OBVIOUS
  <2> HIDE DEF Bad
  <2> QED BY <1>1, <2>1, SmallestSet
<1>3. ASSUME NEW t \in SUBSET S, t \subseteq s, t # s, NEW x \in t
      PROVE  Takes(t, x)
  BY <1>2, <1>3
<1>4. PICK x \in s : ~Takes(s, x)
  OBVIOUS
<1>5. PICK c \in s : Takes(s, c)
  BY <1>2, SumStep, AnyIn
<1>6. x # c
  BY <1>4, <1>5
<1>7. SumFunctionOnSet(f, s \ {c}) = f[x] + SumFunctionOnSet(f, s \ {c, x})
  <2>1. s \ {c} \in SUBSET S /\ x \in s \ {c} /\ s \ {c} # s /\ (s \ {c}) \ {x} = s \ {c, x}
    BY <1>6
  <2> QED BY <1>3, <2>1
<1>8. SumFunctionOnSet(f, s \ {x}) = f[c] + SumFunctionOnSet(f, s \ {c, x})
  <2>1. s \ {x} \in SUBSET S /\ c \in s \ {x} /\ s \ {x} # s /\ (s \ {x}) \ {c} = s \ {c, x}
    BY <1>6
  <2> QED BY <1>3, <2>1
<1>9. SumFunctionOnSet(f, s \ {c, x}) \in Nat /\ f[x] \in Nat /\ f[c] \in Nat
  <2>1. IsFiniteSet(s \ {c, x}) /\ \A y \in s \ {c, x} : f[y] \in Nat
    BY <1>2, FS_Subset
  <2> QED BY <2>1, SumType
<1> QED BY <1>4, <1>5, <1>7, <1>8, <1>9

\* The sum depends on the values in the set only.
LEMMA SumCongruent ==
  ASSUME NEW f, NEW g, NEW S, IsFiniteSet(S), \A x \in S : f[x] = g[x]
  PROVE  SumFunctionOnSet(f, S) = SumFunctionOnSet(g, S)
<1> DEFINE Bad == {s \in SUBSET S : SumFunctionOnSet(f, s) # SumFunctionOnSet(g, s)}
<1>1. SUFFICES ASSUME Bad # {} PROVE FALSE
  OBVIOUS
<1>2. PICK s \in Bad : /\ IsFiniteSet(s)
                       /\ \A t \in Bad : ~(t \subseteq s /\ t # s)
  <2>1. Bad \subseteq SUBSET S
    OBVIOUS
  <2> HIDE DEF Bad
  <2> QED BY <1>1, <2>1, SmallestSet
<1>3. s # {}
  BY SumEmpty
<1>4. Any(s) \in s /\ f[Any(s)] = g[Any(s)]
  BY <1>3, AnyIn
<1>5. SumFunctionOnSet(f, s) = f[Any(s)] + SumFunctionOnSet(f, s \ {Any(s)})
  BY <1>2, <1>3, SumStep
<1>6. SumFunctionOnSet(g, s) = g[Any(s)] + SumFunctionOnSet(g, s \ {Any(s)})
  BY <1>2, <1>3, SumStep
<1>7. SumFunctionOnSet(f, s \ {Any(s)}) = SumFunctionOnSet(g, s \ {Any(s)})
  BY <1>2, <1>4
<1> QED BY <1>4, <1>5, <1>6, <1>7

\* Nothing sums up to nothing.
LEMMA SumZero ==
  ASSUME NEW f, NEW S, IsFiniteSet(S), \A x \in S : f[x] = 0
  PROVE  SumFunctionOnSet(f, S) = 0
<1> DEFINE Bad == {s \in SUBSET S : SumFunctionOnSet(f, s) # 0}
<1>1. SUFFICES ASSUME Bad # {} PROVE FALSE
  OBVIOUS
<1>2. PICK s \in Bad : /\ IsFiniteSet(s)
                       /\ \A t \in Bad : ~(t \subseteq s /\ t # s)
  <2>1. Bad \subseteq SUBSET S
    OBVIOUS
  <2> HIDE DEF Bad
  <2> QED BY <1>1, <2>1, SmallestSet
<1>3. s # {}
  BY SumEmpty
<1>4. Any(s) \in s
  BY <1>3, AnyIn
<1>5. SumFunctionOnSet(f, s) = f[Any(s)] + SumFunctionOnSet(f, s \ {Any(s)})
  BY <1>2, <1>3, SumStep
<1>6. SumFunctionOnSet(f, s \ {Any(s)}) = 0 /\ f[Any(s)] = 0
  BY <1>2, <1>4
<1> QED BY <1>5, <1>6
-----------------------------------------------------------------------------
(* The books of megabytes.                                                 *)

\* The row a request is about to write is its session's; where no two requests read the
\* row before one of them wrote it, the one request knows the growth over the row.
CountInv ==
  /\ \A r \in Requests : req[r].pc = "counters" => session[req[r].row].acct = req[r].acct
  /\ \A w \in Rows \ recounted :
       /\ \A r \in Counting(w) : req[r].delta = Max({0, req[r].mb - session[w].mb})
       /\ \A r, q \in Counting(w) : r = q

BooksInv == CountInv /\ MiscountedOnlyByOverlap

\* What a member, or not, adds to the sum.
Part(f, S, x) == IF x \in S THEN f[x] ELSE 0

\* A function and a set that change at x only.
ChangesAt(f, g, S, T, x) ==
  /\ IsFiniteSet(S) /\ IsFiniteSet(T)
  /\ \A y \in S : f[y] \in Nat
  /\ \A y \in T : g[y] \in Nat
  /\ S \ {x} = T \ {x}
  /\ \A y \in S \ {x} : f[y] = g[y]

LEMMA SumMoves ==
  ASSUME NEW f, NEW g, NEW S, NEW T, NEW x, ChangesAt(f, g, S, T, x)
  PROVE  /\ SumFunctionOnSet(g, T) + Part(f, S, x) = SumFunctionOnSet(f, S) + Part(g, T, x)
         /\ SumFunctionOnSet(g, T) \in Nat /\ SumFunctionOnSet(f, S) \in Nat
<1> USE DEF ChangesAt
<1> DEFINE rest == SumFunctionOnSet(f, S \ {x})
<1>1. IsFiniteSet(S \ {x}) /\ \A y \in S \ {x} : f[y] \in Nat
  BY FS_RemoveElement
<1>2. rest \in Nat
  BY <1>1, SumType
<1>3. rest = SumFunctionOnSet(g, T \ {x})
  BY <1>1, SumCongruent
<1>4. SumFunctionOnSet(f, S) = rest + (IF x \in S THEN f[x] ELSE 0)
  <2>1. CASE x \in S
    <3>1. SumFunctionOnSet(f, S) = f[x] + rest
      BY <2>1, SumTakes
    <3> HIDE DEF rest
    <3> QED BY <1>2, <2>1, <3>1
  <2>2. CASE x \notin S
    <3>1. S \ {x} = S
      BY <2>2
    <3>2. SumFunctionOnSet(f, S) = rest
      BY <3>1
    <3> HIDE DEF rest
    <3> QED BY <1>2, <2>2, <3>2
  <2> QED BY <2>1, <2>2
<1>5. SumFunctionOnSet(g, T) = rest + (IF x \in T THEN g[x] ELSE 0)
  <2>1. CASE x \in T
    <3>1. SumFunctionOnSet(g, T) = g[x] + SumFunctionOnSet(g, T \ {x})
      BY <2>1, SumTakes
    <3> HIDE DEF rest
    <3> QED BY <1>2, <1>3, <2>1, <3>1
  <2>2. CASE x \notin T
    <3>1. T \ {x} = T
      BY <2>2
    <3>2. SumFunctionOnSet(g, T) = rest
      BY <1>3, <3>1
    <3> HIDE DEF rest
    <3> QED BY <1>2, <2>2, <3>2
  <2> QED BY <2>1, <2>2
<1> HIDE DEF rest
<1>6. (x \in S => f[x] \in Nat) /\ (x \in T => g[x] \in Nat)
  OBVIOUS
<1> QED BY <1>2, <1>4, <1>5, <1>6 DEF Part

\* What a request holds for a subscriber.
Share(q, s) ==
  IF q.pc \in {"subscription", "usage"} /\ SubscriberOf[q.acct] = s THEN q.delta ELSE 0

LEMMA GrowthMoves ==
  ASSUME TypeOK, NEW r \in Requests, NEW q \in Request, Goto(r, q), NEW s
  PROVE  /\ SumFunctionOnSet(Growth', InHand(s)') + Share(req[r], s)
              = SumFunctionOnSet(Growth, InHand(s)) + Share(q, s)
         /\ SumFunctionOnSet(Growth', InHand(s)') \in Nat
         /\ SumFunctionOnSet(Growth, InHand(s)) \in Nat
<1>1. req \in [Requests -> Request] /\ IsFiniteSet(Requests)
  BY AccountingAssumption DEF TypeOK, Request, AccountingAssumption
<1>2. req' \in [Requests -> Request] /\ req'[r] = q
      /\ \A p \in Requests : p # r => req'[p] = req[p]
  BY <1>1 DEF Goto
<1> DEFINE f == Growth
           g == [p \in Requests |-> req'[p].delta]
           S == InHand(s)
           T == {p \in Requests : /\ req'[p].pc \in {"subscription", "usage"}
                                  /\ SubscriberOf[req'[p].acct] = s}
<1>3. Growth' = g /\ InHand(s)' = T
  BY DEF Growth, InHand
<1>4. S \subseteq Requests /\ T \subseteq Requests /\ IsFiniteSet(S) /\ IsFiniteSet(T)
  BY <1>1, FS_Subset DEF InHand
<1>5. /\ \A p \in Requests : f[p] = req[p].delta /\ f[p] \in Nat
      /\ \A p \in Requests : g[p] = req'[p].delta /\ g[p] \in Nat
  BY <1>1, <1>2, AccountingAssumption DEF Growth, Request, AccountingAssumption
<1>6. S \ {r} = T \ {r} /\ \A p \in S \ {r} : f[p] = g[p]
  BY <1>2, <1>4, <1>5 DEF InHand
<1>7. /\ Part(f, S, r) = Share(req[r], s)
      /\ Part(g, T, r) = Share(q, s)
  BY <1>2, <1>5 DEF InHand, Share, Part
<1> HIDE DEF f, g, S, T
<1>8. /\ SumFunctionOnSet(g, T) + Part(f, S, r) = SumFunctionOnSet(f, S) + Part(g, T, r)
      /\ SumFunctionOnSet(g, T) \in Nat /\ SumFunctionOnSet(f, S) \in Nat
  <2>1. IsFiniteSet(S) /\ IsFiniteSet(T)
    BY <1>4
  <2>2. (\A y \in S : f[y] \in Nat) /\ (\A y \in T : g[y] \in Nat)
    BY <1>4, <1>5
  <2>3. ChangesAt(f, g, S, T, r)
    BY <1>6, <2>1, <2>2 DEF ChangesAt
  <2> QED BY <2>3, SumMoves
<1> QED BY <1>3, <1>7, <1>8 DEF f, S

LEMMA StoredMoves ==
  ASSUME TypeOK, NEW w \in Rows, NEW x, session' = [session EXCEPT ![w] = x],
         x.mb \in Nat, NEW s
  PROVE  /\ SumFunctionOnSet(Stored', RowsFor(s)')
              + (IF session[w].acct \in Traffics(s) THEN session[w].mb ELSE 0)
              = SumFunctionOnSet(Stored, RowsFor(s))
                  + (IF x.acct \in Traffics(s) THEN x.mb ELSE 0)
         /\ SumFunctionOnSet(Stored', RowsFor(s)') \in Nat
         /\ SumFunctionOnSet(Stored, RowsFor(s)) \in Nat
<1>1. session \in SessionRows /\ IsFiniteSet(Rows)
  BY AccountingAssumption DEF TypeOK, SessionRows, AccountingAssumption
<1>2. session'[w] = x /\ \A v \in Rows : v # w => session'[v] = session[v]
  BY <1>1 DEF SessionRows
<1> DEFINE f == Stored
           g == [v \in Rows |-> session'[v].mb]
           S == RowsFor(s)
           T == {v \in Rows : session'[v].acct \in Traffics(s)}
<1>3. Stored' = g /\ RowsFor(s)' = T
  BY DEF Stored, RowsFor, Traffics
<1>4. S \subseteq Rows /\ T \subseteq Rows /\ IsFiniteSet(S) /\ IsFiniteSet(T)
  BY <1>1, FS_Subset DEF RowsFor
<1>5. /\ \A v \in Rows : f[v] = session[v].mb /\ f[v] \in Nat
      /\ \A v \in Rows : g[v] = session'[v].mb /\ g[v] \in Nat
  <2>1. \A v \in Rows : session[v].mb \in Nat
    BY <1>1, AccountingAssumption DEF SessionRows, AccountingAssumption
  <2> QED BY <1>2, <2>1 DEF Stored
<1>6. S \ {w} = T \ {w} /\ \A v \in S \ {w} : f[v] = g[v]
  BY <1>2, <1>4, <1>5 DEF RowsFor
<1>7. /\ Part(f, S, w) = IF session[w].acct \in Traffics(s) THEN session[w].mb ELSE 0
      /\ Part(g, T, w) = IF x.acct \in Traffics(s) THEN x.mb ELSE 0
  BY <1>2, <1>5 DEF RowsFor, Part
<1> HIDE DEF f, g, S, T
<1>8. /\ SumFunctionOnSet(g, T) + Part(f, S, w) = SumFunctionOnSet(f, S) + Part(g, T, w)
      /\ SumFunctionOnSet(g, T) \in Nat /\ SumFunctionOnSet(f, S) \in Nat
  <2>1. IsFiniteSet(S) /\ IsFiniteSet(T)
    BY <1>4
  <2>2. (\A y \in S : f[y] \in Nat) /\ (\A y \in T : g[y] \in Nat)
    BY <1>4, <1>5
  <2>3. ChangesAt(f, g, S, T, w)
    BY <1>6, <2>1, <2>2 DEF ChangesAt
  <2> QED BY <2>3, SumMoves
<1> QED BY <1>3, <1>7, <1>8 DEF f, S

LEMMA UsedMoves ==
  ASSUME TypeOK, NEW u \in Subscriptions, NEW n \in Nat,
         used' = [used EXCEPT ![u] = n], NEW s
  PROVE  /\ SumFunctionOnSet(used', Owned(s)) + (IF OwnerOf[u] = s THEN used[u] ELSE 0)
              = SumFunctionOnSet(used, Owned(s)) + (IF OwnerOf[u] = s THEN n ELSE 0)
         /\ SumFunctionOnSet(used', Owned(s)) \in Nat
         /\ SumFunctionOnSet(used, Owned(s)) \in Nat
<1>1. used \in [Subscriptions -> Nat] /\ IsFiniteSet(Subscriptions)
  BY AccountingAssumption DEF TypeOK, AccountingAssumption
<1>2. /\ used'[u] = n /\ \A v \in Subscriptions : v # u => used'[v] = used[v]
      /\ \A v \in Subscriptions : used'[v] \in Nat /\ used[v] \in Nat
  BY <1>1
<1> DEFINE S == Owned(s)
<1>3. IsFiniteSet(S) /\ S \subseteq Subscriptions /\ (u \in S <=> OwnerOf[u] = s)
  BY <1>1, FS_Subset DEF Owned
<1> HIDE DEF S
<1>4. /\ SumFunctionOnSet(used', S) + Part(used, S, u) = SumFunctionOnSet(used, S) + Part(used', S, u)
      /\ SumFunctionOnSet(used', S) \in Nat /\ SumFunctionOnSet(used, S) \in Nat
  <2>1. (\A y \in S : used[y] \in Nat) /\ (\A y \in S : used'[y] \in Nat)
    BY <1>2, <1>3
  <2>2. \A y \in S \ {u} : used[y] = used'[y]
    BY <1>2, <1>3
  <2>3. ChangesAt(used, used', S, S, u)
    BY <1>3, <2>1, <2>2 DEF ChangesAt
  <2> QED BY <2>3, SumMoves
<1> QED BY <1>2, <1>3, <1>4 DEF S, Part

LEMMA SumsTyped ==
  ASSUME TypeOK, NEW s
  PROVE  /\ SumFunctionOnSet(used, Owned(s)) \in Nat
         /\ SumFunctionOnSet(Growth, InHand(s)) \in Nat
         /\ SumFunctionOnSet(Stored, RowsFor(s)) \in Nat
<1>1. /\ Owned(s) \subseteq Subscriptions /\ InHand(s) \subseteq Requests
      /\ RowsFor(s) \subseteq Rows
  BY DEF Owned, InHand, RowsFor
<1>2. IsFiniteSet(Owned(s)) /\ IsFiniteSet(InHand(s)) /\ IsFiniteSet(RowsFor(s))
  BY <1>1, FS_Subset, AccountingAssumption DEF AccountingAssumption
<1>3. \A u \in Owned(s) : used[u] \in Nat
  BY <1>1 DEF TypeOK
<1>4. \A r \in InHand(s) : Growth[r] \in Nat
  BY <1>1, AccountingAssumption DEF TypeOK, Growth, AccountingAssumption
<1>5. \A w \in RowsFor(s) : Stored[w] \in Nat
  BY <1>1, AccountingAssumption DEF TypeOK, Stored, AccountingAssumption
<1> QED BY <1>2, <1>3, <1>4, <1>5, SumType

LEMMA BookAdds ==
  ASSUME NEW account \in [Subscribers -> Nat], NEW t \in Subscribers, NEW mb \in Nat,
         NEW s \in Subscribers
  PROVE  /\ Book(account, t, mb)[s] = account[s] + (IF t = s THEN mb ELSE 0)
         /\ Book(account, t, mb)[s] \in Nat
BY DEF Book

\* What is orderly after a step was so before it.
LEMMA OrderlyBefore ==
  ASSUME \A w \in Rows : session[w].acct # NoAcct => session'[w].acct = session[w].acct,
         recounted \subseteq recounted', crossed \subseteq crossed'
  PROVE  \A s \in Subscribers : Orderly(s)' => Orderly(s)
<1>1. \A s : Traffics(s)' = Traffics(s) /\ Owned(s)' = Owned(s) /\ NoAcct \notin Traffics(s)
  BY AccountingAssumption DEF Traffics, Owned, AccountingAssumption
<1>2. \A s : RowsFor(s) \subseteq RowsFor(s)'
  BY <1>1 DEF RowsFor
<1> QED BY <1>1, <1>2 DEF Orderly

\* A request that moves on, or ends, and writes no counter.
LEMMA CountsStand ==
  ASSUME TypeOK, Locals, CountInv,
         NEW r \in Requests, NEW q \in Request, Goto(r, q), q.pc # "counters",
         UNCHANGED recounted,
         \A w \in Rows : /\ session'[w].mb = session[w].mb
                         /\ session[w].acct # NoAcct => session'[w].acct = session[w].acct
  PROVE  CountInv'
<1>1. \A p \in Requests : req'[p] = IF p = r THEN q ELSE req[p]
  BY DEF Goto, TypeOK
<1>2. ASSUME NEW p \in Requests, req'[p].pc = "counters"
      PROVE  session'[req'[p].row].acct = req'[p].acct
  <2>1. p # r /\ req'[p] = req[p] /\ req[p].pc = "counters"
    BY <1>1, <1>2
  <2>2. req[p].row \in Rows /\ req[p].acct \in Accts
    BY <2>1 DEF Locals, LocalFacts
  <2>3. session[req[p].row].acct = req[p].acct
    BY <2>1 DEF CountInv
  <2>4. session[req[p].row].acct # NoAcct
    BY <2>2, <2>3, AccountingAssumption DEF AccountingAssumption
  <2> QED BY <2>1, <2>2, <2>3, <2>4
<1>3. \A w : \A p \in Counting(w)' : p \in Counting(w) /\ req'[p] = req[p]
  BY <1>1 DEF Counting
<1> QED BY <1>2, <1>3 DEF CountInv

LEMMA InitBooks == Init => BooksInv
<1> SUFFICES ASSUME Init PROVE BooksInv
  OBVIOUS
<1>1. CountInv
  BY DEF Init, CountInv, Counting, Idle
<1>2. ASSUME NEW s \in Subscribers
      PROVE  SumFunctionOnSet(used, Owned(s)) + dropped[s] + SumFunctionOnSet(Growth, InHand(s))
               = SumFunctionOnSet(Stored, RowsFor(s)) + rewound[s]
  <2>1. InHand(s) = {} /\ RowsFor(s) = {}
    BY AccountingAssumption
       DEF Init, InHand, RowsFor, Traffics, Idle, NoSession, AccountingAssumption
  <2>2. IsFiniteSet(Owned(s)) /\ Owned(s) \subseteq Subscriptions
    BY AccountingAssumption, FS_Subset DEF Owned, AccountingAssumption
  <2>3. \A u \in Owned(s) : used[u] = 0
    BY <2>2 DEF Init
  <2>4. SumFunctionOnSet(used, Owned(s)) = 0
    BY <2>2, <2>3, SumZero
  <2>5. dropped[s] = 0 /\ rewound[s] = 0
    BY DEF Init
  <2> QED BY <2>1, <2>4, <2>5, SumEmpty
<1> QED BY <1>1, <1>2 DEF BooksInv, MiscountedOnlyByOverlap

\* A step that writes neither a counter nor a usage: what a request held and holds no
\* more is dropped.
LEMMA BooksStand ==
  ASSUME TypeOK, MiscountedOnlyByOverlap,
         NEW r \in Requests, NEW q \in Request, Goto(r, q), dropped' \in [Subscribers -> Nat],
         UNCHANGED <<used, session, rewound>>,
         recounted \subseteq recounted', crossed \subseteq crossed',
         \A s \in Subscribers : dropped'[s] + Share(q, s) = dropped[s] + Share(req[r], s)
  PROVE  MiscountedOnlyByOverlap'
<1>1. Stored' = Stored /\ \A s : RowsFor(s)' = RowsFor(s) /\ Owned(s)' = Owned(s)
  BY DEF Stored, RowsFor, Traffics, Owned
<1>2. ASSUME NEW s \in Subscribers, Orderly(s)'
      PROVE  SumFunctionOnSet(used, Owned(s)) + dropped'[s] + SumFunctionOnSet(Growth', InHand(s)')
               = SumFunctionOnSet(Stored, RowsFor(s)) + rewound[s]
  <2>1. /\ SumFunctionOnSet(Growth', InHand(s)') + Share(req[r], s)
             = SumFunctionOnSet(Growth, InHand(s)) + Share(q, s)
        /\ SumFunctionOnSet(Growth', InHand(s)') \in Nat
        /\ SumFunctionOnSet(Growth, InHand(s)) \in Nat
    BY GrowthMoves
  <2>2. dropped[s] \in Nat /\ dropped'[s] \in Nat /\ rewound[s] \in Nat
    BY DEF TypeOK
  <2>3. SumFunctionOnSet(used, Owned(s)) + dropped[s] + SumFunctionOnSet(Growth, InHand(s))
          = SumFunctionOnSet(Stored, RowsFor(s)) + rewound[s]
    BY <1>2, OrderlyBefore DEF MiscountedOnlyByOverlap
  <2>4. SumFunctionOnSet(used, Owned(s)) \in Nat /\ SumFunctionOnSet(Stored, RowsFor(s)) \in Nat
    BY SumsTyped
  <2>5. Share(q, s) \in Nat /\ Share(req[r], s) \in Nat
    <3>1. req[r] \in Request
      BY DEF TypeOK, Request
    <3> QED BY <3>1, AccountingAssumption DEF Share, Request, AccountingAssumption
  <2> QED BY <2>1, <2>2, <2>3, <2>4, <2>5
<1> QED BY <1>1, <1>2 DEF MiscountedOnlyByOverlap

\* The reported counter replaces the stored one: the row and the request's growth gain
\* the same, or the row loses what is booked as rewound.
LEMMA CountersBooked ==
  ASSUME TypeOK, Locals, BooksInv, NEW r \in Requests, WriteCounters(r)
  PROVE  BooksInv'
<1> DEFINE q == [req[r] EXCEPT !.pc = "subscription"]
           w == req[r].row
           x == [session[w] EXCEPT !.mb = req[r].mb]
           back == Max({0, session[w].mb - req[r].mb})
<1>1. /\ req \in [Requests -> Request] /\ req[r] \in Request /\ req[r].pc = "counters"
      /\ w \in Rows /\ req[r].acct \in Accts /\ req[r].mb \in Nat /\ req[r].delta \in Nat
  <2>1. req \in [Requests -> Request] /\ req[r].pc = "counters"
    BY DEF TypeOK, Request, WriteCounters
  <2> QED BY <2>1, AccountingAssumption DEF Locals, LocalFacts, Request, AccountingAssumption
<1>2. q \in Request /\ Goto(r, q) /\ q.pc = "subscription" /\ q.acct = req[r].acct
      /\ q.delta = req[r].delta
  BY <1>1 DEF WriteCounters, Request, Steps
<1>3. session' = [session EXCEPT ![w] = x]
  BY <1>1 DEF WriteCounters
<1>4. session[w].mb \in Nat /\ x.mb = req[r].mb /\ x.acct = session[w].acct
  BY <1>1, AccountingAssumption DEF TypeOK, AccountingAssumption
<1>5. /\ session[w].acct = req[r].acct
      /\ w \notin recounted => req[r].delta = Max({0, req[r].mb - session[w].mb})
  BY <1>1 DEF BooksInv, CountInv, Counting
<1>6. rewound' = Book(rewound, SubscriberOf[req[r].acct], back)
      /\ UNCHANGED <<used, dropped, recounted, crossed>>
  BY DEF WriteCounters, subVars, races
<1>7. back \in Nat /\ (w \notin recounted => req[r].mb + back = session[w].mb + req[r].delta)
  <2> DEFINE m == req[r].mb
             n == session[w].mb
  <2>1. /\ Max({0, m - n}) = IF m >= n THEN m - n ELSE 0
        /\ Max({0, n - m}) = IF n >= m THEN n - m ELSE 0
    <3> HIDE DEF m, n
    <3> SUFFICES ASSUME m \in Nat, n \in Nat
                 PROVE  /\ Max({0, m - n}) = IF m >= n THEN m - n ELSE 0
                        /\ Max({0, n - m}) = IF n >= m THEN n - m ELSE 0
      BY <1>1, <1>4 DEF m, n
    <3>1. ASSUME NEW i \in Int PROVE Max({0, i}) = IF i >= 0 THEN i ELSE 0
      BY <3>1 DEF Max
    <3>2. m - n \in Int /\ n - m \in Int
      OBVIOUS
    <3> QED BY <3>1, <3>2
  <2> QED BY <1>1, <1>4, <1>5, <2>1
<1> HIDE DEF q, w, x, back
<1>8. CountInv'
  <2>1. req'[r] = q /\ \A p \in Requests : p # r => req'[p] = req[p]
    BY <1>1, <1>2 DEF Goto
  <2>2. session'[w] = x /\ \A v \in Rows : v # w => session'[v] = session[v]
    BY <1>1, <1>3 DEF TypeOK
  <2>3. ASSUME NEW p \in Requests, req'[p].pc = "counters"
        PROVE  session'[req'[p].row].acct = req'[p].acct
    <3>1. p # r /\ req'[p] = req[p] /\ req[p].pc = "counters"
      BY <1>2, <2>1, <2>3
    <3>2. req[p].row \in Rows /\ session[req[p].row].acct = req[p].acct
      BY <3>1 DEF BooksInv, CountInv, Locals, LocalFacts
    <3> QED BY <1>4, <2>2, <3>1, <3>2
  <2>4. \A v : \A p \in Counting(v)' : p \in Counting(v) /\ p # r /\ req'[p] = req[p]
    BY <1>2, <2>1 DEF Counting
  <2>5. r \in Counting(w)
    BY <1>1 DEF Counting, w
  <2>6. ASSUME NEW v \in Rows \ recounted'
        PROVE  /\ \A p \in Counting(v)' : req'[p].delta = Max({0, req'[p].mb - session'[v].mb})
               /\ \A p1, p2 \in Counting(v)' : p1 = p2
    <3>1. CASE v = w
      BY <1>6, <2>4, <2>5, <2>6, <3>1 DEF BooksInv, CountInv
    <3>2. CASE v # w
      BY <1>6, <2>2, <2>4, <2>6, <3>2 DEF BooksInv, CountInv
    <3> QED BY <3>1, <3>2
  <2> QED BY <2>3, <2>6 DEF CountInv
<1>9. ASSUME NEW s \in Subscribers, Orderly(s)'
      PROVE  SumFunctionOnSet(used, Owned(s)) + dropped[s] + SumFunctionOnSet(Growth', InHand(s)')
               = SumFunctionOnSet(Stored', RowsFor(s)') + rewound'[s]
  <2>1. /\ SumFunctionOnSet(Growth', InHand(s)') + Share(req[r], s)
             = SumFunctionOnSet(Growth, InHand(s)) + Share(q, s)
        /\ SumFunctionOnSet(Growth', InHand(s)') \in Nat
        /\ SumFunctionOnSet(Growth, InHand(s)) \in Nat
    BY <1>2, GrowthMoves
  <2>2. /\ SumFunctionOnSet(Stored', RowsFor(s)')
             + (IF session[w].acct \in Traffics(s) THEN session[w].mb ELSE 0)
             = SumFunctionOnSet(Stored, RowsFor(s))
                 + (IF x.acct \in Traffics(s) THEN x.mb ELSE 0)
        /\ SumFunctionOnSet(Stored', RowsFor(s)') \in Nat
        /\ SumFunctionOnSet(Stored, RowsFor(s)) \in Nat
    BY <1>1, <1>3, <1>4, StoredMoves
  <2>3. session[w].acct \in Traffics(s) <=> SubscriberOf[req[r].acct] = s
    BY <1>1, <1>5 DEF Traffics
  <2>4. Share(req[r], s) = 0
        /\ Share(q, s) = IF SubscriberOf[req[r].acct] = s THEN req[r].delta ELSE 0
    BY <1>1, <1>2 DEF Share
  <2>5. rewound'[s] = rewound[s] + (IF SubscriberOf[req[r].acct] = s THEN back ELSE 0)
    <3>1. SubscriberOf[req[r].acct] \in Subscribers /\ rewound \in [Subscribers -> Nat]
      BY <1>1, AccountingAssumption DEF AccountingAssumption, TypeOK
    <3> QED BY <1>6, <1>7, <3>1, BookAdds
  <2>6. SumFunctionOnSet(used, Owned(s)) + dropped[s] + SumFunctionOnSet(Growth, InHand(s))
          = SumFunctionOnSet(Stored, RowsFor(s)) + rewound[s]
    <3>1. \A v \in Rows : session'[v].acct = session[v].acct
      BY <1>1, <1>3, <1>4 DEF TypeOK
    <3> QED BY <1>6, <1>9, <3>1, OrderlyBefore DEF BooksInv, MiscountedOnlyByOverlap
  <2>7. SumFunctionOnSet(used, Owned(s)) \in Nat /\ dropped[s] \in Nat /\ rewound[s] \in Nat
    BY SumsTyped DEF TypeOK
  <2>8. CASE SubscriberOf[req[r].acct] = s
    <3>1. session'[w].acct = req[r].acct
      BY <1>1, <1>3, <1>4, <1>5 DEF TypeOK
    <3>2. w \in RowsFor(s)' /\ w \notin recounted
      BY <1>1, <1>6, <1>9, <2>8, <3>1 DEF RowsFor, Traffics, Orderly
    <3> QED BY <1>1, <1>4, <1>7, <3>2, <2>1, <2>2, <2>3, <2>4, <2>5, <2>6, <2>7, <2>8
  <2>9. CASE SubscriberOf[req[r].acct] # s
    BY <1>4, <1>5, <2>1, <2>2, <2>3, <2>4, <2>5, <2>6, <2>7, <2>9
  <2> QED BY <2>8, <2>9
<1>10. used' = used /\ dropped' = dropped /\ \A s : Owned(s)' = Owned(s)
  BY <1>6 DEF Owned
<1> QED BY <1>8, <1>9, <1>10 DEF BooksInv, MiscountedOnlyByOverlap

\* The growth moves from the request to the subscription.
LEMMA UsageBooked ==
  ASSUME TypeOK, Locals, UsageInv, MiscountedOnlyByOverlap, NEW r \in Requests, WriteUsage(r)
  PROVE  MiscountedOnlyByOverlap'
<1> DEFINE u == req[r].sub
           n == req[r].seen + req[r].delta
<1>1. /\ req[r] \in Request /\ req[r].pc = "usage" /\ req[r].acct \in Accts
      /\ u \in Subscriptions /\ OwnerOf[u] = SubscriberOf[req[r].acct]
      /\ req[r].delta \in Nat /\ req[r].seen \in Nat /\ used[u] \in Nat
  <2>1. req[r] \in Request /\ req[r].pc = "usage"
    BY DEF TypeOK, Request, WriteUsage
  <2>2. u \in Subscriptions
    BY <2>1 DEF Locals, LocalFacts
  <2> QED BY <2>1, <2>2, AccountingAssumption
          DEF TypeOK, Locals, LocalFacts, Request, AccountingAssumption
<1>2. used' = [used EXCEPT ![u] = n] /\ n \in Nat /\ Goto(r, Idle)
      /\ UNCHANGED <<session, dropped, rewound, recounted, crossed>>
  <2>1. n \in Nat
    BY <1>1
  <2> QED BY <2>1 DEF WriteUsage, books, races
<1>3. u \notin crossed => n = used[u] + req[r].delta
  BY <1>1 DEF UsageInv, Charging
<1> HIDE DEF u, n
<1>4. ASSUME NEW s \in Subscribers, Orderly(s)'
      PROVE  SumFunctionOnSet(used', Owned(s)) + dropped[s] + SumFunctionOnSet(Growth', InHand(s)')
               = SumFunctionOnSet(Stored, RowsFor(s)) + rewound[s]
  <2>1. /\ SumFunctionOnSet(Growth', InHand(s)') + Share(req[r], s)
             = SumFunctionOnSet(Growth, InHand(s)) + Share(Idle, s)
        /\ SumFunctionOnSet(Growth', InHand(s)') \in Nat
        /\ SumFunctionOnSet(Growth, InHand(s)) \in Nat
    BY <1>2, IdleTypes, GrowthMoves
  <2>2. /\ SumFunctionOnSet(used', Owned(s)) + (IF OwnerOf[u] = s THEN used[u] ELSE 0)
             = SumFunctionOnSet(used, Owned(s)) + (IF OwnerOf[u] = s THEN n ELSE 0)
        /\ SumFunctionOnSet(used', Owned(s)) \in Nat
        /\ SumFunctionOnSet(used, Owned(s)) \in Nat
    BY <1>1, <1>2, UsedMoves
  <2>3. Share(Idle, s) = 0
        /\ Share(req[r], s) = IF OwnerOf[u] = s THEN req[r].delta ELSE 0
    BY <1>1 DEF Share, Idle
  <2>4. SumFunctionOnSet(used, Owned(s)) + dropped[s] + SumFunctionOnSet(Growth, InHand(s))
          = SumFunctionOnSet(Stored, RowsFor(s)) + rewound[s]
    BY <1>2, <1>4, OrderlyBefore DEF MiscountedOnlyByOverlap
  <2>5. SumFunctionOnSet(Stored, RowsFor(s)) \in Nat /\ dropped[s] \in Nat /\ rewound[s] \in Nat
    BY SumsTyped DEF TypeOK
  <2>6. CASE OwnerOf[u] = s
    <3>1. n = used[u] + req[r].delta
      BY <1>1, <1>2, <1>3, <1>4, <2>6 DEF Orderly, Owned
    <3> QED BY <1>1, <3>1, <2>1, <2>2, <2>3, <2>4, <2>5, <2>6
  <2>7. CASE OwnerOf[u] # s
    BY <2>1, <2>2, <2>3, <2>4, <2>5, <2>7
  <2> QED BY <2>6, <2>7
<1>5. /\ dropped' = dropped /\ rewound' = rewound /\ Stored' = Stored
      /\ \A s : Owned(s)' = Owned(s) /\ RowsFor(s)' = RowsFor(s)
  BY <1>2 DEF Owned, Stored, RowsFor, Traffics
<1> QED BY <1>4, <1>5 DEF MiscountedOnlyByOverlap

\* A row is created without traffic, or terminated.
LEMMA RowsBooked ==
  ASSUME TypeOK, Locals, BooksInv, NEW r \in Requests, Create(r) \/ Terminate(r)
  PROVE  BooksInv'
<1>1. PICK w \in Rows, x \in [acct : Accts \union {NoAcct},
                              status : {"ACTIVE", "TERMINATED"}, mb : 0..MaxMb] :
        /\ session' = [session EXCEPT ![w] = x]
        /\ x.mb = session[w].mb
        /\ x.acct = session[w].acct \/ session[w] = NoSession
        /\ x.acct # session[w].acct => x.mb = 0
  <2>1. CASE Create(r)
    <3>1. PICK w \in Rows : /\ session[w] = NoSession
                            /\ session' = [session EXCEPT
                                 ![w] = [acct |-> req[r].acct, status |-> "ACTIVE", mb |-> 0]]
      BY <2>1 DEF Create
    <3>2. req[r].acct \in Accts
      BY <2>1 DEF Create, Locals, LocalFacts
    <3> DEFINE x == [acct |-> req[r].acct, status |-> "ACTIVE", mb |-> 0]
    <3>3. x \in [acct : Accts \union {NoAcct},
                 status : {"ACTIVE", "TERMINATED"}, mb : 0..MaxMb] /\ x.mb = 0
      BY <3>2, AccountingAssumption DEF AccountingAssumption
    <3>4. session[w].mb = 0
      BY <3>1 DEF NoSession
    <3> HIDE DEF x
    <3>5. session' = [session EXCEPT ![w] = x]
      BY <3>1 DEF x
    <3> QED BY <3>1, <3>3, <3>4, <3>5
  <2>2. CASE Terminate(r)
    <3> DEFINE w == req[r].row
               x == [session[w] EXCEPT !.status = "TERMINATED"]
    <3>1. w \in Rows
      BY <2>2 DEF Terminate, Locals, LocalFacts
    <3>2. /\ session[w] \in [acct : Accts \union {NoAcct},
                             status : {"ACTIVE", "TERMINATED"}, mb : 0..MaxMb]
          /\ session' = [session EXCEPT ![w] = x]
      BY <2>2, <3>1 DEF Terminate, TypeOK
    <3>3. x \in [acct : Accts \union {NoAcct},
                 status : {"ACTIVE", "TERMINATED"}, mb : 0..MaxMb]
          /\ x.mb = session[w].mb /\ x.acct = session[w].acct
      BY <3>2
    <3> HIDE DEF w, x
    <3> QED BY <3>1, <3>2, <3>3
  <2> QED BY <2>1, <2>2
<1>2. /\ Goto(r, Idle) /\ req[r].pc \in {"create", "terminate"}
      /\ UNCHANGED <<used, dropped, rewound, recounted, crossed>>
  BY DEF Create, Terminate, subVars, books, races
<1>3. x.mb \in Nat
  BY AccountingAssumption DEF AccountingAssumption
<1>4. CountInv'
  <2>1. \A v \in Rows : /\ session'[v].mb = session[v].mb
                        /\ session[v].acct # NoAcct => session'[v].acct = session[v].acct
    BY <1>1 DEF TypeOK, NoSession
  <2>2. Idle.pc # "counters"
    BY DEF Idle
  <2> QED BY <1>2, <2>1, <2>2, IdleTypes, CountsStand DEF BooksInv
<1>5. ASSUME NEW s \in Subscribers, Orderly(s)'
      PROVE  SumFunctionOnSet(used, Owned(s)) + dropped[s] + SumFunctionOnSet(Growth', InHand(s)')
               = SumFunctionOnSet(Stored', RowsFor(s)') + rewound[s]
  <2>1. /\ SumFunctionOnSet(Growth', InHand(s)') + Share(req[r], s)
             = SumFunctionOnSet(Growth, InHand(s)) + Share(Idle, s)
        /\ SumFunctionOnSet(Growth', InHand(s)') \in Nat
        /\ SumFunctionOnSet(Growth, InHand(s)) \in Nat
    BY <1>2, IdleTypes, GrowthMoves
  <2>2. Share(req[r], s) = 0 /\ Share(Idle, s) = 0
    BY <1>2 DEF Share, Idle
  <2>3. /\ SumFunctionOnSet(Stored', RowsFor(s)')
             + (IF session[w].acct \in Traffics(s) THEN session[w].mb ELSE 0)
             = SumFunctionOnSet(Stored, RowsFor(s))
                 + (IF x.acct \in Traffics(s) THEN x.mb ELSE 0)
        /\ SumFunctionOnSet(Stored', RowsFor(s)') \in Nat
        /\ SumFunctionOnSet(Stored, RowsFor(s)) \in Nat
    BY <1>1, <1>3, StoredMoves
  <2>4. SumFunctionOnSet(Stored', RowsFor(s)') = SumFunctionOnSet(Stored, RowsFor(s))
    <3>1. CASE x.acct = session[w].acct
      BY <1>1, <1>3, <2>3, <3>1
    <3>2. CASE x.acct # session[w].acct
      <4>1. x.mb = 0 /\ session[w].mb = 0
        BY <1>1, <3>2
      <4> QED BY <2>3, <4>1
    <3> QED BY <3>1, <3>2
  <2>5. SumFunctionOnSet(Growth', InHand(s)') = SumFunctionOnSet(Growth, InHand(s))
    BY <2>1, <2>2
  <2>6. Orderly(s)
    <3>1. \A v \in Rows : session[v].acct # NoAcct => session'[v].acct = session[v].acct
      BY <1>1 DEF TypeOK, NoSession
    <3> QED BY <1>2, <1>5, <3>1, OrderlyBefore
  <2> QED BY <2>4, <2>5, <2>6 DEF BooksInv, MiscountedOnlyByOverlap
<1>6. used' = used /\ dropped' = dropped /\ rewound' = rewound /\ \A s : Owned(s)' = Owned(s)
  BY <1>2 DEF Owned
<1> QED BY <1>4, <1>5, <1>6 DEF BooksInv, MiscountedOnlyByOverlap

\* A request that starts with nothing in hand.
LEMMA StartsBooked ==
  ASSUME TypeOK, Locals, BooksInv, NEW r \in Requests, req[r].pc = "idle",
         NEW q \in Request, Goto(r, q), q.pc \in {"create", "counters", "terminate"},
         q.pc = "counters" =>
           /\ session[q.row].acct = q.acct
           /\ q.row \notin recounted' =>
                Counting(q.row) = {} /\ q.delta = Max({0, q.mb - session[q.row].mb}),
         recounted \subseteq recounted',
         UNCHANGED <<used, session, dropped, rewound, crossed>>
  PROVE  BooksInv'
<1>1. MiscountedOnlyByOverlap'
  <2>1. \A s : Share(q, s) = 0 /\ Share(req[r], s) = 0
    BY DEF Share
  <2>2. dropped' \in [Subscribers -> Nat] /\ MiscountedOnlyByOverlap
    BY DEF TypeOK, BooksInv
  <2> QED BY <2>1, <2>2, BooksStand
<1>2. CountInv'
  <2>1. req'[r] = q /\ \A p \in Requests : p # r => req'[p] = req[p]
    BY DEF TypeOK, Goto
  <2>2. ASSUME NEW w \in Rows \ recounted'
        PROVE  /\ \A p \in Counting(w)' : req'[p].delta = Max({0, req'[p].mb - session[w].mb})
               /\ \A p1, p2 \in Counting(w)' : p1 = p2
    <3>1. w \notin recounted
      BY <2>2
    <3>2. \A p \in Counting(w)' : p # r => p \in Counting(w) /\ req'[p] = req[p]
      BY <2>1 DEF Counting
    <3>3. r \in Counting(w)' => q.pc = "counters" /\ q.row = w
      BY <2>1 DEF Counting
    <3>4. CASE r \in Counting(w)'
      BY <2>1, <2>2, <3>2, <3>3, <3>4
    <3>5. CASE r \notin Counting(w)'
      BY <3>1, <3>2, <3>5 DEF BooksInv, CountInv
    <3> QED BY <3>4, <3>5
  <2> QED BY <2>1, <2>2 DEF BooksInv, CountInv
<1> QED BY <1>1, <1>2 DEF BooksInv

\* A request that ends drops the growth it holds.
LEMMA DroppedBooked ==
  ASSUME TypeOK, TypeOK', Locals, BooksInv, NEW r \in Requests, req[r].pc # "idle",
         NEW q \in Request, Goto(r, q), q.pc # "counters",
         UNCHANGED <<used, session, rewound, recounted>>, crossed \subseteq crossed',
         \/ /\ dropped' = Book(dropped, SubscriberOf[req[r].acct], req[r].delta)
            /\ req[r].pc \in {"subscription", "usage"} /\ q = Idle
         \/ /\ dropped' = dropped
            /\ \A s \in Subscribers : Share(q, s) = Share(req[r], s)
  PROVE  BooksInv'
<1>1. MiscountedOnlyByOverlap'
  <2>1. dropped' \in [Subscribers -> Nat] /\ dropped \in [Subscribers -> Nat]
    BY DEF TypeOK
  <2>2. ASSUME NEW s \in Subscribers
        PROVE  dropped'[s] + Share(q, s) = dropped[s] + Share(req[r], s)
    <3>1. req[r].acct \in Accts /\ req[r].delta \in Nat
      BY AccountingAssumption DEF TypeOK, Locals, LocalFacts, AccountingAssumption
    <3>2. CASE q = Idle /\ req[r].pc \in {"subscription", "usage"}
               /\ dropped' = Book(dropped, SubscriberOf[req[r].acct], req[r].delta)
      <4>1. SubscriberOf[req[r].acct] \in Subscribers
        BY <3>1, AccountingAssumption DEF AccountingAssumption
      <4>2. dropped'[s] = dropped[s] + (IF SubscriberOf[req[r].acct] = s THEN req[r].delta ELSE 0)
        BY <2>1, <3>1, <3>2, <4>1, BookAdds
      <4>3. Share(q, s) = 0
            /\ Share(req[r], s) = IF SubscriberOf[req[r].acct] = s THEN req[r].delta ELSE 0
        BY <3>2 DEF Share, Idle
      <4> QED BY <2>1, <3>1, <4>2, <4>3
    <3>3. CASE dropped' = dropped /\ Share(q, s) = Share(req[r], s)
      BY <3>3
    <3> QED BY <3>2, <3>3
  <2> QED BY <2>1, <2>2, BooksStand DEF BooksInv
<1>2. CountInv'
  BY CountsStand DEF BooksInv
<1> QED BY <1>1, <1>2 DEF BooksInv

LEMMA NextBooks ==
  TypeOK /\ TypeOK' /\ Locals /\ UsageInv /\ BooksInv /\ [Next]_vars => BooksInv'
<1> SUFFICES ASSUME TypeOK, TypeOK', Locals, UsageInv, BooksInv, [Next]_vars
             PROVE  BooksInv'
  OBVIOUS
<1>1. req \in [Requests -> Request]
  BY DEF TypeOK, Request
<1>2. ASSUME UNCHANGED <<session, used, req, books, recounted, crossed>> PROVE BooksInv'
  <2>1. /\ Stored' = Stored /\ Growth' = Growth
        /\ \A s : /\ Owned(s)' = Owned(s) /\ RowsFor(s)' = RowsFor(s)
                  /\ InHand(s)' = InHand(s) /\ Orderly(s)' = Orderly(s)
        /\ \A w : Counting(w)' = Counting(w)
    BY <1>2 DEF Stored, Growth, Owned, RowsFor, InHand, Traffics, Orderly, Counting
  <2> QED BY <1>2, <2>1 DEF BooksInv, CountInv, MiscountedOnlyByOverlap, books
<1>3. ASSUME NEW r \in Requests, NEW a \in Accts, Start(r, a)
      PROVE  BooksInv'
  <2> DEFINE q == [Idle EXCEPT !.pc = "create", !.acct = a]
  <2>1. q \in Request /\ q.pc = "create"
    BY IdleTypes DEF Idle, Request, Steps
  <2>2. /\ Goto(r, q) /\ req[r].pc = "idle"
        /\ UNCHANGED <<used, session, dropped, rewound, recounted, crossed>>
    BY <1>3 DEF Start, Receive, subVars, books
  <2> HIDE DEF q
  <2> QED BY <2>1, <2>2, StartsBooked
<1>4. ASSUME NEW r \in Requests, NEW a \in Accts, NEW mb \in 0..MaxMb, Update(r, a, mb)
      PROVE  BooksInv'
  <2>1. PICK w \in ActiveRows(a) :
          /\ Goto(r, [Idle EXCEPT !.pc = "counters", !.acct = a, !.row = w, !.mb = mb,
                                  !.delta = Max({0, mb - session[w].mb})])
          /\ recounted' = recounted \union {v \in {w} : Counting(v) # {}}
    BY <1>4 DEF Update
  <2> DEFINE delta == Max({0, mb - session[w].mb})
             q == [Idle EXCEPT !.pc = "counters", !.acct = a, !.row = w, !.mb = mb,
                               !.delta = delta]
  <2>2. w \in Rows /\ session[w].acct = a
    BY DEF ActiveRows, RowsOf
  <2>3. /\ Goto(r, q) /\ req[r].pc = "idle"
        /\ UNCHANGED <<used, session, dropped, rewound, crossed>>
    BY <1>4, <2>1 DEF Update, Receive, subVars, books
  <2> HIDE DEF delta
  <2>4. q.pc = "counters" /\ q.acct = a /\ q.row = w /\ q.mb = mb /\ q.delta = delta
    BY DEF Idle
  <2> HIDE DEF q
  <2>5. q \in Request
    <3>1. req'[r] = q
      BY <1>1, <2>3 DEF Goto
    <3> QED BY <3>1 DEF TypeOK, Request
  <2>6. recounted \subseteq recounted' /\ (w \notin recounted' => Counting(w) = {})
    BY <2>1
  <2> QED BY <2>2, <2>3, <2>4, <2>5, <2>6, StartsBooked DEF delta
<1>5. ASSUME NEW r \in Requests, NEW a \in Accts, NEW w \in Rows, req[r].pc = "idle",
             Goto(r, [Idle EXCEPT !.pc = "terminate", !.acct = a, !.row = w]),
             UNCHANGED <<used, session, dropped, rewound, recounted, crossed>>
      PROVE  BooksInv'
  <2> DEFINE q == [Idle EXCEPT !.pc = "terminate", !.acct = a, !.row = w]
  <2>1. q \in Request /\ q.pc = "terminate" /\ Goto(r, q)
    BY <1>5, IdleTypes DEF Idle, Request, Steps
  <2> HIDE DEF q
  <2> QED BY <1>5, <2>1, StartsBooked
<1>6. ASSUME NEW r \in Requests, NEW a \in Accts, Stop(r, a)
      PROVE  BooksInv'
  BY <1>5, <1>6 DEF Stop, RowsOf, subVars, books, races
<1>7. ASSUME NEW r \in Requests, NEW w \in Rows, OperatorDisconnects(r, w)
      PROVE  BooksInv'
  <2>1. session[w].acct \in Accts
    BY <1>7 DEF OperatorDisconnects, TypeOK
  <2> QED BY <1>5, <1>7, <2>1 DEF OperatorDisconnects, subVars, books, races
<1>8. ASSUME NEW r \in Requests, ReadSubscription(r)
      PROVE  BooksInv'
  <2>1. req[r].pc = "subscription" /\ UNCHANGED <<used, session, rewound, recounted>>
        /\ crossed \subseteq crossed'
    BY <1>8 DEF ReadSubscription, subVars
  <2>2. CASE Goto(r, Idle) /\ dropped' = Book(dropped, SubscriberOf[req[r].acct], req[r].delta)
    <3>1. Idle.pc # "counters"
      BY DEF Idle
    <3> QED BY <2>1, <2>2, <3>1, IdleTypes, DroppedBooked
  <2>3. CASE dropped' = dropped /\ \E u \in Latest(SubscriberOf[req[r].acct]) :
               Goto(r, [req[r] EXCEPT !.pc = "usage", !.sub = u, !.seen = used[u]])
    <3>1. PICK u \in Latest(SubscriberOf[req[r].acct]) :
            Goto(r, [req[r] EXCEPT !.pc = "usage", !.sub = u, !.seen = used[u]])
      BY <2>3
    <3>2. u \in Subscriptions /\ used[u] \in Nat
      BY DEF Latest, Active, TypeOK
    <3> DEFINE q == [req[r] EXCEPT !.pc = "usage", !.sub = u, !.seen = used[u]]
    <3>3. q \in Request /\ q.pc = "usage" /\ q.acct = req[r].acct /\ q.delta = req[r].delta
      BY <1>1, <3>2 DEF Request, Steps
    <3>4. Goto(r, q)
      BY <3>1
    <3> HIDE DEF q
    <3>5. \A s \in Subscribers : Share(q, s) = Share(req[r], s)
      BY <2>1, <3>3 DEF Share
    <3> QED BY <2>1, <2>3, <3>3, <3>4, <3>5, DroppedBooked
  <2> QED BY <1>8, <2>2, <2>3 DEF ReadSubscription
<1>9. ASSUME NEW r \in Requests, RequestDies(r)
      PROVE  BooksInv'
  <2>1. /\ req[r].pc # "idle" /\ Goto(r, Idle) /\ Idle.pc # "counters"
        /\ UNCHANGED <<used, session, rewound, recounted, crossed>>
    BY <1>9 DEF RequestDies, subVars, races, Idle
  <2>2. req[r].pc \notin {"subscription", "usage"} =>
          \A s \in Subscribers : Share(Idle, s) = Share(req[r], s)
    BY DEF Share, Idle
  <2>3. IF req[r].pc \in {"subscription", "usage"}
        THEN dropped' = Book(dropped, SubscriberOf[req[r].acct], req[r].delta)
        ELSE dropped' = dropped
    BY <1>9 DEF RequestDies
  <2> QED BY <2>1, <2>2, <2>3, IdleTypes, DroppedBooked
<1>10. ASSUME NEW r \in Requests, Create(r) \/ Terminate(r) PROVE BooksInv'
  BY <1>10, RowsBooked
<1>11. ASSUME NEW r \in Requests, WriteCounters(r) PROVE BooksInv'
  BY <1>11, CountersBooked
<1>12. ASSUME NEW r \in Requests, WriteUsage(r)
       PROVE  BooksInv'
  <2>1. Goto(r, Idle) /\ Idle.pc # "counters" /\ UNCHANGED <<session, recounted>>
    BY <1>12 DEF WriteUsage, races, Idle
  <2>2. CountInv'
    BY <2>1, IdleTypes, CountsStand DEF BooksInv
  <2> QED BY <1>12, <2>2, UsageBooked DEF BooksInv
<1>13. ASSUME NEW u \in Subscriptions, Activate(u) \/ Expire(u) PROVE BooksInv'
  BY <1>2, <1>13 DEF Activate, Expire, races
<1>14. ASSUME NEW a \in Accts, Authorize(a) \/ Traffic(a) \/ HangUp(a) PROVE BooksInv'
  BY <1>2, <1>14 DEF Authorize, Traffic, HangUp, subVars, races
<1>15. CASE UNCHANGED vars
  BY <1>2, <1>15 DEF vars, subVars, races
<1> QED BY <1>3, <1>4, <1>6, <1>7, <1>8, <1>9, <1>10, <1>11, <1>12, <1>13, <1>14, <1>15
        DEF Next

-----------------------------------------------------------------------------
(* What a subscriber is charged and what the router has reported.          *)

\* No row and no request has a counter the router has not reached.
ReportedInv ==
  /\ \A w \in Rows : session[w].acct # NoAcct => session[w].mb <= sent[session[w].acct]
  /\ \A r \in Requests : req[r].pc = "counters" => req[r].mb <= sent[req[r].acct]

\* No two requests of the subscriber read what one of them then wrote: sessions, rows or
\* usage.
Undisturbed(s) == Orderly(s) /\ Traffics(s) \intersect doubled = {}

\* A subscriber is charged what the router has reported, and again what late updates
\* set back: without late updates, no more than the router has reported.
ChargedAsReported ==
  \A s \in Subscribers : Undisturbed(s) =>
    SumFunctionOnSet(used, Owned(s)) <= SumFunctionOnSet(sent, Traffics(s)) + rewound[s]

\* A sum over more members is no smaller.
LEMMA SumGrows ==
  ASSUME NEW f, NEW S, IsFiniteSet(S), \A x \in S : f[x] \in Nat
  PROVE  \A T \in SUBSET S : SumFunctionOnSet(f, T) <= SumFunctionOnSet(f, S)
<1> DEFINE Bad == {s \in SUBSET S : \E t \in SUBSET s :
                     ~(SumFunctionOnSet(f, t) <= SumFunctionOnSet(f, s))}
<1>1. SUFFICES ASSUME Bad # {} PROVE FALSE
  OBVIOUS
<1>2. PICK s \in Bad : /\ IsFiniteSet(s)
                       /\ \A t \in Bad : ~(t \subseteq s /\ t # s)
  <2>1. Bad \subseteq SUBSET S
    OBVIOUS
  <2> HIDE DEF Bad
  <2> QED BY <1>1, <2>1, SmallestSet
<1>3. PICK t \in SUBSET s : ~(SumFunctionOnSet(f, t) <= SumFunctionOnSet(f, s))
  OBVIOUS
<1>4. /\ \A y \in s : f[y] \in Nat
      /\ SumFunctionOnSet(f, s) \in Nat /\ SumFunctionOnSet(f, t) \in Nat
  <2>1. (\A y \in s : f[y] \in Nat) /\ (\A y \in t : f[y] \in Nat) /\ IsFiniteSet(t)
    BY <1>2, FS_Subset
  <2> QED BY <1>2, <2>1, SumType
<1>5. PICK x \in s : x \notin t
  BY <1>3, <1>4
<1>6. SumFunctionOnSet(f, s) = f[x] + SumFunctionOnSet(f, s \ {x})
  BY <1>2, <1>4, SumTakes
<1>7. SumFunctionOnSet(f, t) <= SumFunctionOnSet(f, s \ {x})
  <2>1. s \ {x} \in SUBSET S /\ s \ {x} \subseteq s /\ s \ {x} # s /\ t \in SUBSET (s \ {x})
    BY <1>5
  <2> QED BY <1>2, <2>1
<1>8. SumFunctionOnSet(f, s \ {x}) \in Nat /\ f[x] \in Nat
  <2>1. IsFiniteSet(s \ {x}) /\ \A y \in s \ {x} : f[y] \in Nat
    BY <1>2, <1>4, FS_RemoveElement
  <2> QED BY <1>4, <2>1, SumType
<1> QED BY <1>3, <1>4, <1>6, <1>7, <1>8

\* Members with distinct partners, none larger than its partner.
LEMMA SumPaired ==
  ASSUME NEW f, NEW g, NEW S, IsFiniteSet(S), NEW T, IsFiniteSet(T), NEW of \in [S -> T],
         \A x \in S : f[x] \in Nat /\ f[x] <= g[of[x]],
         \A y \in T : g[y] \in Nat,
         \A x, y \in S : of[x] = of[y] => x = y
  PROVE  SumFunctionOnSet(f, S) <= SumFunctionOnSet(g, T)
<1> DEFINE Partners(s) == {of[x] : x \in s}
           Bad == {s \in SUBSET S :
                     ~(SumFunctionOnSet(f, s) <= SumFunctionOnSet(g, Partners(s)))}
<1>1. Bad = {}
  <2>1. SUFFICES ASSUME Bad # {} PROVE FALSE
    OBVIOUS
  <2>2. PICK s \in Bad : /\ IsFiniteSet(s)
                         /\ \A t \in Bad : ~(t \subseteq s /\ t # s)
    <3>1. Bad \subseteq SUBSET S
      OBVIOUS
    <3> HIDE DEF Bad
    <3> QED BY <2>1, <3>1, SmallestSet
  <2>3. s # {}
    <3>1. Partners({}) = {}
      OBVIOUS
    <3> QED BY <3>1, SumEmpty
  <2>4. PICK x \in s : TRUE
    BY <2>3
  <2>5. SumFunctionOnSet(f, s) = f[x] + SumFunctionOnSet(f, s \ {x})
    <3>1. \A y \in s : f[y] \in Nat
      OBVIOUS
    <3> QED BY <2>2, <3>1, SumTakes
  <2> DEFINE P == Partners(s)
             Q == Partners(s \ {x})
  <2>6. P \subseteq T /\ of[x] \in P /\ P \ {of[x]} = Q
    OBVIOUS
  <2>7. IsFiniteSet(P) /\ IsFiniteSet(Q) /\ IsFiniteSet(s \ {x})
    BY <2>2, <2>6, FS_Subset, FS_RemoveElement
  <2>8. SumFunctionOnSet(f, s \ {x}) <= SumFunctionOnSet(g, Q)
    <3>1. s \ {x} \in SUBSET S /\ s \ {x} \subseteq s /\ s \ {x} # s
      OBVIOUS
    <3> QED BY <2>2, <3>1
  <2> HIDE DEF P, Q
  <2>9. SumFunctionOnSet(g, P) = g[of[x]] + SumFunctionOnSet(g, Q)
    <3>1. \A y \in P : g[y] \in Nat
      BY <2>6
    <3> QED BY <2>6, <2>7, <3>1, SumTakes
  <2>10. SumFunctionOnSet(g, Q) \in Nat /\ SumFunctionOnSet(f, s \ {x}) \in Nat
    <3>1. (\A y \in Q : g[y] \in Nat) /\ \A y \in s \ {x} : f[y] \in Nat
      BY <2>6
    <3> QED BY <2>7, <3>1, SumType
  <2>11. f[x] \in Nat /\ g[of[x]] \in Nat /\ f[x] <= g[of[x]]
    OBVIOUS
  <2>12. SumFunctionOnSet(f, s) <= SumFunctionOnSet(g, P)
    BY <2>5, <2>8, <2>9, <2>10, <2>11
  <2> QED BY <2>2, <2>12 DEF P
<1>2. SumFunctionOnSet(f, S) <= SumFunctionOnSet(g, Partners(S))
  BY <1>1
<1> DEFINE P == Partners(S)
<1>3. P \in SUBSET T
  OBVIOUS
<1> HIDE DEF P
<1>4. SumFunctionOnSet(g, P) <= SumFunctionOnSet(g, T)
  BY <1>3, SumGrows
<1>5. SumFunctionOnSet(f, S) \in Nat /\ SumFunctionOnSet(g, P) \in Nat /\ SumFunctionOnSet(g, T) \in Nat
  <2>1. (\A y \in P : g[y] \in Nat) /\ IsFiniteSet(P) /\ \A x \in S : f[x] \in Nat
    BY <1>3, FS_Subset
  <2> QED BY <2>1, SumType
<1> QED BY <1>2, <1>4, <1>5 DEF P

LEMMA InitReported == Init => ReportedInv
BY DEF Init, ReportedInv, NoSession, Idle

\* The counters of rows, requests and router only move so that none overtakes the router.
LEMMA ReportedKept ==
  ASSUME TypeOK, Locals, ReportedInv, NEW r \in Requests, NEW q, Goto(r, q),
         q.pc = "counters" => q.mb <= sent[q.acct],
         UNCHANGED sent,
         \A w \in Rows : \/ session'[w].acct = NoAcct
                         \/ /\ session'[w].acct = session[w].acct
                            /\ session'[w].mb = session[w].mb
                         \/ /\ session'[w].acct \in Accts
                            /\ session'[w].mb <= sent[session'[w].acct]
  PROVE  ReportedInv'
<1>1. req'[r] = q /\ \A p \in Requests : p # r => req'[p] = req[p]
  BY DEF TypeOK, Goto
<1>2. \A w \in Rows : session'[w].acct # NoAcct => session'[w].mb <= sent'[session'[w].acct]
  BY DEF ReportedInv
<1>3. \A p \in Requests : req'[p].pc = "counters" => req'[p].mb <= sent'[req'[p].acct]
  BY <1>1 DEF ReportedInv
<1> QED BY <1>2, <1>3 DEF ReportedInv

LEMMA NextReported ==
  TypeOK /\ Locals /\ CountInv /\ ReportedInv /\ [Next]_vars => ReportedInv'
<1> SUFFICES ASSUME TypeOK, Locals, CountInv, ReportedInv, [Next]_vars
             PROVE  ReportedInv'
  OBVIOUS
<1>1. sent \in [Accts -> 0..MaxMb] /\ \A a \in Accts : sent[a] \in Nat
  BY AccountingAssumption DEF TypeOK, AccountingAssumption
<1>2. ASSUME UNCHANGED <<session, sent, req>> PROVE ReportedInv'
  BY <1>2 DEF ReportedInv
\* A request that writes no row and goes on without a counter.
<1>3. ASSUME NEW r \in Requests, NEW q, Goto(r, q), q.pc # "counters", UNCHANGED <<sent, session>>
      PROVE  ReportedInv'
  BY <1>3, ReportedKept
<1>4. ASSUME NEW a \in Accts, Traffic(a)
      PROVE  ReportedInv'
  <2>1. UNCHANGED <<session, req>> /\ sent' = [sent EXCEPT ![a] = sent[a] + 1]
    BY <1>4 DEF Traffic
  <2>2. \A b \in Accts : sent[b] <= sent'[b] /\ sent'[b] \in Nat
    BY <1>1, <2>1
  <2>3. ASSUME NEW w \in Rows, session[w].acct # NoAcct
        PROVE  session[w].mb <= sent'[session[w].acct]
    <3>1. session[w].acct \in Accts /\ session[w].mb \in Nat
      BY <2>3, AccountingAssumption DEF TypeOK, AccountingAssumption
    <3> QED BY <1>1, <2>2, <2>3, <3>1 DEF ReportedInv
  <2>4. ASSUME NEW r \in Requests, req[r].pc = "counters"
        PROVE  req[r].mb <= sent'[req[r].acct]
    <3>1. req[r].acct \in Accts /\ req[r].mb \in Nat
      BY <2>4, AccountingAssumption DEF TypeOK, Locals, LocalFacts, AccountingAssumption
    <3> QED BY <1>1, <2>2, <2>4, <3>1 DEF ReportedInv
  <2> QED BY <2>1, <2>3, <2>4 DEF ReportedInv
<1>5. ASSUME NEW r \in Requests, NEW a \in Accts, NEW mb \in 0..MaxMb, Update(r, a, mb)
      PROVE  ReportedInv'
  <2>1. PICK delta, w :
          Goto(r, [Idle EXCEPT !.pc = "counters", !.acct = a, !.row = w, !.mb = mb,
                               !.delta = delta])
    BY <1>5 DEF Update
  <2> DEFINE q == [Idle EXCEPT !.pc = "counters", !.acct = a, !.row = w, !.mb = mb,
                               !.delta = delta]
  <2>2. Goto(r, q) /\ UNCHANGED <<sent, session>> /\ mb <= sent[a]
    BY <1>1, <1>5, <2>1 DEF Update
  <2>3. q.mb = mb /\ q.acct = a
    BY DEF Idle
  <2> HIDE DEF q
  <2> QED BY <2>2, <2>3, ReportedKept
<1>6. ASSUME NEW r \in Requests, WriteCounters(r)
      PROVE  ReportedInv'
  <2> DEFINE q == [req[r] EXCEPT !.pc = "subscription"]
             w == req[r].row
  <2>1. /\ req[r].pc = "counters" /\ Goto(r, q) /\ UNCHANGED sent
        /\ session' = [session EXCEPT ![w].mb = req[r].mb]
    BY <1>6 DEF WriteCounters, nasVars
  <2>2. w \in Rows /\ req[r].acct \in Accts /\ session[w].acct = req[r].acct
        /\ req[r].mb <= sent[req[r].acct]
    BY <2>1 DEF Locals, LocalFacts, CountInv, ReportedInv
  <2>3. q.pc = "subscription"
    BY DEF TypeOK
  <2> HIDE DEF q, w
  <2>4. /\ session'[w].mb = req[r].mb /\ session'[w].acct = req[r].acct
        /\ \A v \in Rows : v # w => session'[v] = session[v]
    BY <2>1, <2>2 DEF TypeOK
  <2> QED BY <2>1, <2>2, <2>3, <2>4, ReportedKept
<1>7. ASSUME NEW r \in Requests, Create(r)
      PROVE  ReportedInv'
  <2>1. PICK w \in Rows : session' = [session EXCEPT
               ![w] = [acct |-> req[r].acct, status |-> "ACTIVE", mb |-> 0]]
    BY <1>7 DEF Create
  <2>2. req[r].acct \in Accts
    BY <1>7 DEF Create, Locals, LocalFacts
  <2>3. /\ session'[w].acct = req[r].acct /\ session'[w].mb = 0
        /\ \A v \in Rows : v # w => session'[v] = session[v]
    BY <2>1 DEF TypeOK
  <2>4. session'[w].mb <= sent[session'[w].acct]
    BY <1>1, <2>2, <2>3
  <2>5. Goto(r, Idle) /\ Idle.pc # "counters" /\ UNCHANGED sent
    BY <1>7 DEF Create, Idle, nasVars
  <2> QED BY <2>2, <2>3, <2>4, <2>5, ReportedKept
<1>8. ASSUME NEW r \in Requests, Terminate(r)
      PROVE  ReportedInv'
  <2>1. \A v \in Rows : session'[v].acct = session[v].acct /\ session'[v].mb = session[v].mb
    BY <1>8 DEF Terminate, TypeOK
  <2>2. Goto(r, Idle) /\ Idle.pc # "counters" /\ UNCHANGED sent
    BY <1>8 DEF Terminate, Idle, nasVars
  <2> QED BY <2>1, <2>2, ReportedKept
<1>9. ASSUME NEW r \in Requests, NEW a \in Accts, Start(r, a)
      PROVE  ReportedInv'
  <2>1. [Idle EXCEPT !.pc = "create", !.acct = a].pc = "create"
    BY DEF Idle
  <2> QED BY <1>3, <1>9, <2>1 DEF Start, nasVars
<1>10. ASSUME NEW a, NEW w
       PROVE  [Idle EXCEPT !.pc = "terminate", !.acct = a, !.row = w].pc = "terminate"
  BY DEF Idle
<1>11. ASSUME NEW r \in Requests, NEW a \in Accts, Stop(r, a) PROVE ReportedInv'
  BY <1>3, <1>10, <1>11 DEF Stop, nasVars
<1>12. ASSUME NEW r \in Requests, NEW w \in Rows, OperatorDisconnects(r, w) PROVE ReportedInv'
  BY <1>3, <1>10, <1>12 DEF OperatorDisconnects, nasVars
<1>13. ASSUME NEW r \in Requests, ReadSubscription(r)
       PROVE  ReportedInv'
  <2>1. UNCHANGED <<sent, session>>
    BY <1>13 DEF ReadSubscription, nasVars
  <2>2. CASE Goto(r, Idle)
    BY <1>3, <2>1, <2>2 DEF Idle
  <2>3. ASSUME NEW u, Goto(r, [req[r] EXCEPT !.pc = "usage", !.sub = u, !.seen = used[u]])
        PROVE  ReportedInv'
    <3>1. [req[r] EXCEPT !.pc = "usage", !.sub = u, !.seen = used[u]].pc = "usage"
      BY DEF TypeOK
    <3> QED BY <1>3, <2>1, <2>3, <3>1
  <2> QED BY <1>13, <2>2, <2>3 DEF ReadSubscription
<1>14. ASSUME NEW r \in Requests, WriteUsage(r) \/ RequestDies(r)
       PROVE  ReportedInv'
  <2>1. Goto(r, Idle) /\ Idle.pc # "counters" /\ UNCHANGED <<sent, session>>
    BY <1>14 DEF WriteUsage, RequestDies, Idle, nasVars
  <2> QED BY <1>3, <2>1
<1>15. ASSUME NEW u \in Subscriptions, Activate(u) \/ Expire(u) PROVE ReportedInv'
  BY <1>2, <1>15 DEF Activate, Expire, nasVars
<1>16. ASSUME NEW a \in Accts, Authorize(a) \/ HangUp(a) PROVE ReportedInv'
  BY <1>2, <1>16 DEF Authorize, HangUp
<1>17. CASE UNCHANGED vars
  BY <1>2, <1>17 DEF vars, nasVars
<1> QED BY <1>4, <1>5, <1>6, <1>7, <1>8, <1>9, <1>11, <1>12, <1>13, <1>14, <1>15, <1>16, <1>17
        DEF Next

LEMMA ChargesFollow ==
  ASSUME TypeOK, SecondRowOnlyByOverlap, MiscountedOnlyByOverlap, ReportedInv
  PROVE  ChargedAsReported
<1> SUFFICES ASSUME NEW s \in Subscribers, Undisturbed(s)
             PROVE  SumFunctionOnSet(used, Owned(s))
                      <= SumFunctionOnSet(sent, Traffics(s)) + rewound[s]
  BY DEF ChargedAsReported
<1> DEFINE S == RowsFor(s)
           T == Traffics(s)
           of == [w \in S |-> session[w].acct]
<1>1. S \subseteq Rows /\ T \subseteq Accts /\ IsFiniteSet(S) /\ IsFiniteSet(T)
  BY AccountingAssumption, FS_Subset DEF RowsFor, Traffics, AccountingAssumption
<1>2. of \in [S -> T] /\ \A w \in S : of[w] = session[w].acct /\ of[w] \in Accts
  BY <1>1 DEF RowsFor, Traffics
<1>3. \A a \in T : sent[a] \in Nat
  BY <1>1, AccountingAssumption DEF TypeOK, AccountingAssumption
<1>4. \A w \in S : Stored[w] \in Nat /\ Stored[w] <= sent[of[w]]
  <2> SUFFICES ASSUME NEW w \in S PROVE Stored[w] \in Nat /\ Stored[w] <= sent[of[w]]
    OBVIOUS
  <2>1. w \in Rows /\ session[w].acct \in Accts /\ of[w] = session[w].acct
    BY <1>1, <1>2
  <2>2. Stored[w] = session[w].mb /\ session[w].mb \in Nat
    BY <2>1, AccountingAssumption DEF Stored, TypeOK, AccountingAssumption
  <2>3. session[w].acct # NoAcct
    BY <2>1, AccountingAssumption DEF AccountingAssumption
  <2> QED BY <2>1, <2>2, <2>3 DEF ReportedInv
<1>5. \A v, w \in S : of[v] = of[w] => v = w
  BY <1>1, <1>2 DEF SecondRowOnlyByOverlap, RowsOf, Undisturbed
<1> HIDE DEF S, T, of
<1>6. SumFunctionOnSet(Stored, S) <= SumFunctionOnSet(sent, T)
  BY <1>1, <1>2, <1>3, <1>4, <1>5, SumPaired
<1>7. SumFunctionOnSet(used, Owned(s)) + dropped[s] + SumFunctionOnSet(Growth, InHand(s))
        = SumFunctionOnSet(Stored, S) + rewound[s]
  BY DEF MiscountedOnlyByOverlap, Undisturbed, S
<1>8. /\ SumFunctionOnSet(used, Owned(s)) \in Nat
      /\ SumFunctionOnSet(Growth, InHand(s)) \in Nat
      /\ SumFunctionOnSet(Stored, S) \in Nat
      /\ dropped[s] \in Nat /\ rewound[s] \in Nat
  BY SumsTyped DEF S, TypeOK
<1>9. SumFunctionOnSet(sent, T) \in Nat
  BY <1>1, <1>3, SumType
<1> QED BY <1>6, <1>7, <1>8, <1>9 DEF T

-----------------------------------------------------------------------------
(* Packets in order.                                                       *)

\* While no update came late, no row was set back and none is about to be, where no two
\* requests overlapped.
OrderInv ==
  late = 0 =>
    /\ \A s \in Subscribers : Orderly(s) => rewound[s] = 0
    /\ \A r \in Requests : req[r].pc = "counters" /\ req[r].row \notin recounted =>
         session[req[r].row].mb <= req[r].mb

\* While no update came late, nothing is charged twice to a subscriber whose packets did
\* not overlap.
TwiceOnlyByLate ==
  late = 0 =>
    \A s \in Subscribers : Undisturbed(s) =>
      SumFunctionOnSet(used, Owned(s)) <= SumFunctionOnSet(sent, Traffics(s))

LEMMA InitOrder == Init => OrderInv
BY DEF Init, OrderInv, Idle

\* One request goes on; the rows the others are about to write keep their counters.
LEMMA OrderKept ==
  ASSUME TypeOK, OrderInv, NEW r \in Requests, NEW q, Goto(r, q), late' = 0 => late = 0,
         recounted \subseteq recounted',
         late' = 0 /\ q.pc = "counters" /\ q.row \notin recounted' => session'[q.row].mb <= q.mb,
         late' = 0 => \A s \in Subscribers : Orderly(s)' => rewound'[s] = 0,
         \A p \in Requests \ {r} : req[p].pc = "counters" /\ req[p].row \notin recounted =>
           session'[req[p].row].mb = session[req[p].row].mb
  PROVE  OrderInv'
<1>1. req'[r] = q /\ \A p \in Requests : p # r => req'[p] = req[p]
  BY DEF TypeOK, Goto
<1>2. ASSUME late' = 0, NEW p \in Requests, req'[p].pc = "counters",
             req'[p].row \notin recounted'
      PROVE  session'[req'[p].row].mb <= req'[p].mb
  <2>1. CASE p = r
    BY <1>1, <1>2, <2>1
  <2>2. CASE p # r
    BY <1>1, <1>2, <2>2 DEF OrderInv
  <2> QED BY <2>1, <2>2
<1> QED BY <1>2 DEF OrderInv

LEMMA NextOrder ==
  TypeOK /\ Locals /\ CountInv /\ ReportedInv /\ OrderInv /\ [Next]_vars => OrderInv'
<1> SUFFICES ASSUME TypeOK, Locals, CountInv, ReportedInv, OrderInv, [Next]_vars
             PROVE  OrderInv'
  OBVIOUS
<1>1. late \in Nat
  BY AccountingAssumption DEF TypeOK, AccountingAssumption
<1>2. ASSUME UNCHANGED <<session, req, rewound, recounted, crossed, late>> PROVE OrderInv'
  <2>1. \A s \in Subscribers : Orderly(s)' => Orderly(s)
    BY <1>2, OrderlyBefore
  <2> QED BY <1>2, <2>1 DEF OrderInv
\* A request that writes no row and goes on without a counter.
<1>3. ASSUME NEW r \in Requests, NEW q, Goto(r, q), q.pc # "counters",
             crossed \subseteq crossed', UNCHANGED <<session, rewound, recounted, late>>
      PROVE  OrderInv'
  <2>1. \A s \in Subscribers : Orderly(s)' => Orderly(s)
    BY <1>3, OrderlyBefore
  <2> QED BY <1>3, <2>1, OrderKept DEF OrderInv
<1>4. ASSUME NEW r \in Requests, NEW a \in Accts, NEW mb \in 0..MaxMb, Update(r, a, mb)
      PROVE  OrderInv'
  <2>1. PICK w \in ActiveRows(a) :
          Goto(r, [Idle EXCEPT !.pc = "counters", !.acct = a, !.row = w, !.mb = mb,
                               !.delta = Max({0, mb - session[w].mb})])
    BY <1>4 DEF Update
  <2> DEFINE q == [Idle EXCEPT !.pc = "counters", !.acct = a, !.row = w, !.mb = mb,
                               !.delta = Max({0, mb - session[w].mb})]
  <2>2. q.mb = mb /\ q.row = w
    BY DEF Idle
  <2>3. /\ Goto(r, q) /\ UNCHANGED <<session, rewound, crossed>>
        /\ recounted \subseteq recounted'
    BY <1>4, <2>1 DEF Update, books
  <2>4. late' = 0 => late = 0 /\ mb = sent[a]
    BY <1>1, <1>4 DEF Update
  <2>5. session[w].mb <= sent[a]
    BY AccountingAssumption DEF ReportedInv, ActiveRows, RowsOf, AccountingAssumption
  <2> HIDE DEF q
  <2>6. \A s \in Subscribers : Orderly(s)' => Orderly(s)
    BY <2>3, OrderlyBefore
  <2> QED BY <2>2, <2>3, <2>4, <2>5, <2>6, OrderKept DEF OrderInv
<1>5. ASSUME NEW r \in Requests, WriteCounters(r)
      PROVE  OrderInv'
  <2> DEFINE q == [req[r] EXCEPT !.pc = "subscription"]
             s == SubscriberOf[req[r].acct]
             back == Max({0, session[req[r].row].mb - req[r].mb})
  <2>1. /\ req[r].pc = "counters" /\ Goto(r, q) /\ late' = late
        /\ session' = [session EXCEPT ![req[r].row].mb = req[r].mb]
        /\ rewound' = [rewound EXCEPT ![s] = @ + back]
        /\ UNCHANGED <<recounted, crossed>>
    BY <1>5 DEF WriteCounters, nasVars, races, Book
  <2>2. q.pc = "subscription"
    BY DEF TypeOK
  <2>3. req[r].row \in Rows /\ session[req[r].row].mb \in Nat /\ req[r].mb \in Nat
    BY <2>1, AccountingAssumption DEF TypeOK, Locals, LocalFacts, AccountingAssumption
  <2>4. late = 0 /\ req[r].row \notin recounted => back = 0
    <3> SUFFICES ASSUME late = 0, req[r].row \notin recounted PROVE back = 0
      OBVIOUS
    <3>1. session[req[r].row].mb - req[r].mb \in Int
          /\ session[req[r].row].mb - req[r].mb <= 0
      BY <2>1, <2>3 DEF OrderInv
    <3> QED BY <3>1, PositivePart
  <2> HIDE DEF q, back
  <2>5. ASSUME late' = 0, NEW t \in Subscribers, Orderly(t)'
        PROVE  rewound'[t] = 0
    <3>1. \A w \in Rows : session'[w].acct = session[w].acct
      BY <2>1 DEF TypeOK
    <3>2. rewound[t] = 0
      BY <2>1, <2>5, <3>1, OrderlyBefore DEF OrderInv
    <3>3. CASE t = s
      <4>1. req[r].row \in RowsFor(t)'
        BY <2>1, <2>3, <3>1, <3>3 DEF CountInv, RowsFor, Traffics, Locals, LocalFacts
      <4> QED BY <2>1, <2>4, <2>5, <3>2, <3>3, <4>1 DEF Orderly, TypeOK
    <3>4. CASE t # s
      BY <2>1, <3>2, <3>4 DEF TypeOK
    <3> QED BY <3>3, <3>4
  <2>6. ASSUME NEW p \in Requests \ {r}, req[p].pc = "counters", req[p].row \notin recounted
        PROVE  session'[req[p].row].mb = session[req[p].row].mb
    <3>1. req[p].row \in Rows
      BY <2>6 DEF Locals, LocalFacts
    <3>2. req[p].row # req[r].row
      BY <2>1, <2>6, <3>1 DEF CountInv, Counting
    <3> QED BY <2>1, <3>1, <3>2 DEF TypeOK
  <2> QED BY <2>1, <2>2, <2>5, <2>6, OrderKept
<1>6. ASSUME NEW r \in Requests, Create(r)
      PROVE  OrderInv'
  <2>1. PICK w \in Rows :
          /\ session[w] = NoSession
          /\ session' = [session EXCEPT
               ![w] = [acct |-> req[r].acct, status |-> "ACTIVE", mb |-> 0]]
    BY <1>6 DEF Create
  <2>2. /\ Goto(r, Idle) /\ Idle.pc # "counters"
        /\ UNCHANGED <<rewound, recounted, crossed, late>>
    BY <1>6 DEF Create, Idle, nasVars, books, races
  <2>3. ASSUME NEW p \in Requests \ {r}, req[p].pc = "counters"
        PROVE  session'[req[p].row].mb = session[req[p].row].mb
    <3>1. req[p].acct \in Accts /\ session[req[p].row].acct = req[p].acct
      BY <2>3 DEF Locals, LocalFacts, CountInv
    <3>2. req[p].row # w
      BY <2>1, <3>1, AccountingAssumption DEF NoSession, AccountingAssumption
    <3> QED BY <2>1, <3>2 DEF TypeOK
  <2>4. \A s \in Subscribers : Orderly(s)' => Orderly(s)
    <3>1. \A v \in Rows : session[v].acct # NoAcct => session'[v].acct = session[v].acct
      BY <2>1 DEF TypeOK, NoSession
    <3> QED BY <2>2, <3>1, OrderlyBefore
  <2> QED BY <2>2, <2>3, <2>4, OrderKept DEF OrderInv
<1>7. ASSUME NEW r \in Requests, Terminate(r)
      PROVE  OrderInv'
  <2>1. \A v : session'[v].mb = session[v].mb /\ session'[v].acct = session[v].acct
    BY <1>7 DEF Terminate, TypeOK
  <2>2. /\ Goto(r, Idle) /\ Idle.pc # "counters"
        /\ UNCHANGED <<rewound, recounted, crossed, late>>
    BY <1>7 DEF Terminate, Idle, nasVars, books, races
  <2>3. \A s \in Subscribers : Orderly(s)' => Orderly(s)
    BY <2>1, <2>2, OrderlyBefore
  <2> QED BY <2>1, <2>2, <2>3, OrderKept DEF OrderInv
<1>8. ASSUME NEW r \in Requests, NEW a \in Accts, Start(r, a)
      PROVE  OrderInv'
  <2>1. [Idle EXCEPT !.pc = "create", !.acct = a].pc = "create"
    BY DEF Idle
  <2> QED BY <1>3, <1>8, <2>1 DEF Start, nasVars, books, races
<1>9. ASSUME NEW a, NEW w
      PROVE  [Idle EXCEPT !.pc = "terminate", !.acct = a, !.row = w].pc = "terminate"
  BY DEF Idle
<1>10. ASSUME NEW r \in Requests, NEW a \in Accts, Stop(r, a) PROVE OrderInv'
  BY <1>3, <1>9, <1>10 DEF Stop, nasVars, books, races
<1>11. ASSUME NEW r \in Requests, NEW w \in Rows, OperatorDisconnects(r, w) PROVE OrderInv'
  BY <1>3, <1>9, <1>11 DEF OperatorDisconnects, nasVars, books, races
<1>12. ASSUME NEW r \in Requests, ReadSubscription(r)
       PROVE  OrderInv'
  <2>1. UNCHANGED <<session, rewound, recounted, late>> /\ crossed \subseteq crossed'
    BY <1>12 DEF ReadSubscription, nasVars
  <2>2. CASE Goto(r, Idle)
    BY <1>3, <2>1, <2>2 DEF Idle
  <2>3. ASSUME NEW u, Goto(r, [req[r] EXCEPT !.pc = "usage", !.sub = u, !.seen = used[u]])
        PROVE  OrderInv'
    <3>1. [req[r] EXCEPT !.pc = "usage", !.sub = u, !.seen = used[u]].pc = "usage"
      BY DEF TypeOK
    <3> QED BY <1>3, <2>1, <2>3, <3>1
  <2> QED BY <1>12, <2>2, <2>3 DEF ReadSubscription
<1>13. ASSUME NEW r \in Requests, WriteUsage(r) \/ RequestDies(r)
       PROVE  OrderInv'
  <2>1. /\ Goto(r, Idle) /\ Idle.pc # "counters"
        /\ UNCHANGED <<session, rewound, recounted, crossed, late>>
    BY <1>13 DEF WriteUsage, RequestDies, Idle, nasVars, books, races
  <2> QED BY <1>3, <2>1
<1>14. ASSUME NEW u \in Subscriptions, Activate(u) \/ Expire(u) PROVE OrderInv'
  BY <1>2, <1>14 DEF Activate, Expire, nasVars, books, races
<1>15. ASSUME NEW a \in Accts, Authorize(a) \/ Traffic(a) \/ HangUp(a) PROVE OrderInv'
  BY <1>2, <1>15 DEF Authorize, Traffic, HangUp, books, races
<1>16. CASE UNCHANGED vars
  BY <1>2, <1>16 DEF vars, nasVars, books, races
<1> QED BY <1>4, <1>5, <1>6, <1>7, <1>8, <1>10, <1>11, <1>12, <1>13, <1>14, <1>15, <1>16
        DEF Next

-----------------------------------------------------------------------------

IInv ==
  TypeOK /\ Locals /\ RowInv /\ UsageInv /\ BooksInv /\ ReportedInv /\ OrderInv

LEMMA Inductive == Spec => []IInv
<1>1. Init => IInv
  BY InitTypes, InitRows, InitUsage, InitBooks, InitReported, InitOrder DEF IInv
<1>2. IInv /\ [Next]_vars => IInv'
  BY NextTypes, NextRows, NextUsage, NextBooks, NextReported, NextOrder DEF IInv, BooksInv
<1>3. QED
  BY <1>1, <1>2, PTL DEF Spec

\* Every variable keeps its type, in particular no counter of megabytes goes
\* below zero, whatever order the packets arrive in.
THEOREM TypeCorrect == Spec => []TypeOK
<1>1. IInv => TypeOK
  BY DEF IInv
<1>2. QED
  BY <1>1, Inductive, PTL

\* A session has a second row only when two of its own Starts overlapped; nothing that
\* is done to other sessions, or to this one before or after, makes one.
THEOREM SingleRow == Spec => []SecondRowOnlyByOverlap
<1>1. IInv => SecondRowOnlyByOverlap
  BY DEF IInv, RowInv
<1>2. QED
  BY <1>1, Inductive, PTL

\* A session that was stopped is active again only when two of its own Starts
\* overlapped.
THEOREM StaysClosed == Spec => []ReopenedOnlyByOverlap
<1>1. IInv => ReopenedOnlyByOverlap
  BY DEF IInv, RowInv
<1>2. QED
  BY <1>1, Inductive, PTL

\* A subscription that exhausted its allowance keeps being refused, whatever the order
\* of the updates, until two requests have read its usage before one of them wrote it.
THEOREM StaysExhausted == Spec => []RefilledOnlyByOverlap
<1>1. IInv => RefilledOnlyByOverlap
  BY DEF IInv, UsageInv
<1>2. QED
  BY <1>1, Inductive, PTL

\* Every megabyte stored on a subscriber's sessions is charged, in hand or dropped, and
\* none twice but by a late update, for any number of devices, rows, subscriptions and
\* requests at once, until two of them have read the same row or the same usage before
\* one of them wrote it.
THEOREM EveryMegabyte == Spec => []MiscountedOnlyByOverlap
<1>1. IInv => MiscountedOnlyByOverlap
  BY DEF IInv, BooksInv
<1>2. QED
  BY <1>1, Inductive, PTL

\* A subscriber is never charged more than the router has reported, but for what late
\* updates set back and what overlapping requests of the same subscriber miscounted.
THEOREM ChargedReported == Spec => []ChargedAsReported
<1>1. IInv => ChargedAsReported
  BY ChargesFollow DEF IInv, RowInv, BooksInv
<1>2. QED
  BY <1>1, Inductive, PTL

\* While the updates come in order, a subscriber whose requests did not overlap is never
\* charged more than the router has reported (handleAccountingUpdate): what is left of
\* the documented idempotence.
THEOREM InOrderChargedOnce == Spec => []TwiceOnlyByLate
<1>1. ASSUME IInv, late = 0, NEW s \in Subscribers, Undisturbed(s)
      PROVE  SumFunctionOnSet(used, Owned(s)) <= SumFunctionOnSet(sent, Traffics(s))
  <2>1. ChargedAsReported /\ rewound[s] = 0
    BY <1>1, ChargesFollow DEF IInv, RowInv, BooksInv, OrderInv, Undisturbed
  <2>2. SumFunctionOnSet(sent, Traffics(s)) \in Nat
    <3>1. IsFiniteSet(Traffics(s)) /\ Traffics(s) \subseteq Accts
      BY AccountingAssumption, FS_Subset DEF Traffics, AccountingAssumption
    <3>2. \A a \in Traffics(s) : sent[a] \in Nat
      BY <1>1, <3>1, AccountingAssumption DEF IInv, TypeOK, AccountingAssumption
    <3> QED BY <3>1, <3>2, SumType
  <2> QED BY <1>1, <2>1, <2>2 DEF ChargedAsReported
<1>2. IInv => TwiceOnlyByLate
  BY <1>1 DEF TwiceOnlyByLate
<1>3. QED
  BY <1>2, Inductive, PTL
=============================================================================
