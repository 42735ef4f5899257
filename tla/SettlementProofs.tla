-------------------------- MODULE SettlementProofs --------------------------
(***************************************************************************)
(* The safety of Settlement for any number of payments, of concurrent      *)
(* webhook and callback requests, of crashes and of failures.              *)
(***************************************************************************)
EXTENDS Settlement, TLAPS

-----------------------------------------------------------------------------
(* The inductive invariant.  What a request may rely on at each step is    *)
(* what the awaits before it established and nobody else can undo.         *)

AfterClaim == {"lookup", "activate", "commission", "notify", "sms"}
PayingOut == {"commission", "notify", "sms"}

\* The rows each stage of a checkout has written.
RowsInv ==
  \A p \in Payments :
    /\ checkout[p] # "ready" =>
         /\ payStatus[p] = "NONE" /\ charge[p] = "unpaid"
         /\ subStatus[p] \in {"NONE", "PENDING"}
    /\ checkout[p] \in {"new", "checked", "opened", "refused"} =>
         subStatus[p] = "NONE"
    /\ checkout[p] = "assigned" => subStatus[p] = "PENDING"
    /\ checkout[p] = "ready" => payStatus[p] # "NONE"
    /\ payStatus[p] \in {"PENDING", "FAILED"} => subStatus[p] = "PENDING"
    /\ payStatus[p] = "SUCCESS" => subStatus[p] \in {"PENDING"} \union Entitled

\* What a request has established when it reaches a step.
RequestFacts(r) ==
  LET q == req[r] IN
  /\ q.pc # "idle" => q.on \in Payments /\ payStatus[q.on] # "NONE"
  /\ q.pc \notin {"idle", "verify"} =>
       /\ charge[q.on] # "unpaid" /\ q.at \in Times
       /\ chargedAt[q.on] # NoTime => q.at = chargedAt[q.on]
  /\ q.pc = "claim" =>
       charge[q.on] = "paid" /\ q.seenPay = "PENDING" /\ q.seenSub = "PENDING"
  /\ q.pc \in AfterClaim =>
       /\ charge[q.on] = "paid" /\ payStatus[q.on] = "SUCCESS"
       /\ q.seenPay \in {"PENDING", "SUCCESS"}
  /\ q.pc \in PayingOut =>
       q.seenPay = "PENDING" /\ subStatus[q.on] \in Entitled

RequestInv == \A r \in Requests : RequestFacts(r)

\* The request that won the claim of a payment.
Won(r) == req[r].pc \in AfterClaim /\ req[r].seenPay = "PENDING"

\* There is one winner, and it alone pays out, each thing in its turn.
WinnerInv ==
  /\ \A r, s \in Requests :
       Won(r) /\ Won(s) /\ req[r].on = req[s].on => r = s
  /\ \A p \in Payments :
       payStatus[p] # "SUCCESS" => credits[p] = 0 /\ inApp[p] = 0 /\ sms[p] = 0
  /\ \A r \in Requests :
       Won(r) =>
         /\ sms[req[r].on] = 0
         /\ req[r].pc # "sms" => inApp[req[r].on] = 0
         /\ req[r].pc \notin {"notify", "sms"} => credits[req[r].on] = 0

\* RADIUS only decides to expire what was entitled and is over.
ExpiryInv ==
  \A p \in expiring :
    /\ subStatus[p] \in Entitled
    /\ chargedAt[p] # NoTime => expiresAt[p] <= now

Safety ==
  /\ EntitledOnlyIfPaid
  /\ PaidOutOnceAfterActivation
  /\ StrandedOnlyByFault
  /\ PaidPeriodIsKept
  /\ NoOrphanSubscription

IInv ==
  /\ TypeOK
  /\ RowsInv
  /\ RequestInv
  /\ WinnerInv
  /\ ExpiryInv
  /\ Safety

-----------------------------------------------------------------------------
(* Proof of the invariant.                                                 *)

\* Which variables each conjunct reads: a step that leaves them alone keeps it.
LEMMA Frame ==
  ASSUME IInv
  PROVE
    /\ UNCHANGED <<checkout, charge, payStatus, subStatus>> =>
         RowsInv'
    /\ UNCHANGED <<req, charge, chargedAt, payStatus, subStatus>> =>
         RequestInv'
    /\ UNCHANGED <<req, payStatus, credits, inApp, sms>> =>
         WinnerInv'
    /\ UNCHANGED <<now, expiring, subStatus, chargedAt, expiresAt>> =>
         ExpiryInv'
    /\ UNCHANGED <<subStatus, payStatus, charge>> =>
         EntitledOnlyIfPaid'
    /\ UNCHANGED <<inApp, sms, credits, subStatus>> =>
         PaidOutOnceAfterActivation'
    /\ UNCHANGED <<payStatus, subStatus, hit, req>> =>
         StrandedOnlyByFault'
    /\ UNCHANGED <<now, subStatus, chargedAt, startedAt, expiresAt>> =>
         PaidPeriodIsKept'
    /\ UNCHANGED <<subStatus, payStatus, checkout, charge>> =>
         NoOrphanSubscription'
  BY DEF IInv, Safety, RowsInv, RequestInv, RequestFacts, WinnerInv,
         ExpiryInv, EntitledOnlyIfPaid, PaidOutOnceAfterActivation,
         StrandedOnlyByFault, PaidPeriodIsKept, NoOrphanSubscription,
         Won, Entitled

\* The moves of the state machine that settlement and expiry rely on.
LEMMA StateMachineFacts ==
  /\ \A s \in SUBSCRIPTION_STATES :
       CanTransition(s, "CONFIRM_PAYMENT") <=> s = "PENDING"
  /\ Transition("PENDING", "CONFIRM_PAYMENT") = "ACTIVE"
  /\ Transition("ACTIVE", "EXPIRE") = "EXPIRED"
  BY DEF SUBSCRIPTION_STATES, CanTransition, Transition, TRANSITIONS

LEMMA InitIInv == Init => IInv
  BY ConstantsAssumption
  DEF Init, IInv, Safety, TypeOK, RowsInv, RequestInv, RequestFacts, WinnerInv, ExpiryInv, Won, AfterClaim, PayingOut, EntitledOnlyIfPaid,
      PaidOutOnceAfterActivation, StrandedOnlyByFault, PaidPeriodIsKept,
      NoOrphanSubscription, Idle, Entitled, PayStates, SubStates, Times, Steps

\* Every step preserves the invariant.
LEMMA NextIInv == IInv /\ [Next]_vars => IInv'
<1> USE ConstantsAssumption
    DEF Times, Requests, bookVars, paidOutVars, providerVars, faultVars,
        Unsettleable, AlreadySettled
<1>1. ASSUME IInv, Tick
      PROVE  IInv'
  <2>1. TypeOK'
    BY <1>1 DEF IInv, TypeOK, PayStates, Steps, Tick
  <2>2. ExpiryInv'
    BY <1>1 DEF IInv, Safety, TypeOK, ExpiryInv, PaidPeriodIsKept, Entitled,
        Tick
  <2>3. PaidPeriodIsKept'
    BY <1>1 DEF IInv, Safety, TypeOK, PaidPeriodIsKept, Entitled, Tick
  <2>4. QED
    BY <1>1, <2>1, <2>2, <2>3, Frame DEF IInv, Safety, Tick
<1>2. ASSUME IInv, ExpireSubscriptions
      PROVE  IInv'
  <2>1. TypeOK'
    BY <1>2 DEF IInv, TypeOK, PayStates, Steps, ExpireSubscriptions, Overdue,
        SubStates, SUBSCRIPTION_STATES
  <2>2. RowsInv'
    BY <1>2 DEF IInv, Safety, TypeOK, RowsInv, Entitled, EntitledOnlyIfPaid,
        ExpireSubscriptions, Overdue
  <2>3. RequestInv'
    BY <1>2 DEF IInv, Safety, TypeOK, RequestInv, RequestFacts, AfterClaim, PayingOut,
        Entitled, RowsInv, ExpiryInv, EntitledOnlyIfPaid, ExpireSubscriptions,
        Overdue
  <2>4. ExpiryInv'
    BY <1>2 DEF IInv, Safety, TypeOK, ExpiryInv, Entitled, RowsInv,
        RequestInv, RequestFacts, AfterClaim, EntitledOnlyIfPaid, ExpireSubscriptions,
        Overdue
  <2>5. EntitledOnlyIfPaid'
    BY <1>2 DEF IInv, Safety, TypeOK, EntitledOnlyIfPaid, Entitled, RowsInv,
        RequestInv, RequestFacts, AfterClaim, ExpiryInv, ExpireSubscriptions, Overdue
  <2>6. PaidOutOnceAfterActivation'
    BY <1>2 DEF IInv, Safety, TypeOK, PaidOutOnceAfterActivation, Entitled,
        RowsInv, RequestInv, RequestFacts, AfterClaim, ExpiryInv, EntitledOnlyIfPaid,
        ExpireSubscriptions, Overdue
  <2>7. StrandedOnlyByFault'
    BY <1>2 DEF IInv, Safety, TypeOK, StrandedOnlyByFault, RowsInv,
        RequestInv, RequestFacts, AfterClaim, ExpiryInv, Entitled, EntitledOnlyIfPaid,
        ExpireSubscriptions, Overdue
  <2>8. PaidPeriodIsKept'
    BY <1>2 DEF IInv, Safety, TypeOK, PaidPeriodIsKept, Entitled, RowsInv,
        RequestInv, RequestFacts, AfterClaim, ExpiryInv, EntitledOnlyIfPaid,
        ExpireSubscriptions, Overdue
  <2>9. NoOrphanSubscription'
    BY <1>2 DEF IInv, Safety, TypeOK, NoOrphanSubscription, Entitled, RowsInv,
        ExpireSubscriptions, Overdue
  <2>10. QED
    BY <1>2, <2>1, <2>2, <2>3, <2>4, <2>5, <2>6, <2>7, <2>8, <2>9, Frame DEF
        IInv, Safety, ExpireSubscriptions
<1>3. ASSUME IInv, NEW p \in Payments, CheckPlan(p)
      PROVE  IInv'
  <2>1. TypeOK'
    BY <1>3 DEF IInv, TypeOK, PayStates, Steps, CheckPlan
  <2>2. RowsInv'
    BY <1>3 DEF IInv, TypeOK, RowsInv, Entitled, CheckPlan
  <2>3. NoOrphanSubscription'
    BY <1>3 DEF IInv, Safety, TypeOK, NoOrphanSubscription, Entitled, RowsInv,
        CheckPlan
  <2>4. QED
    BY <1>3, <2>1, <2>2, <2>3, Frame DEF IInv, Safety, CheckPlan
<1>4. ASSUME IInv, NEW p \in Payments, OpenAtProvider(p)
      PROVE  IInv'
  <2>1. TypeOK'
    BY <1>4 DEF IInv, TypeOK, PayStates, Steps, OpenAtProvider
  <2>2. RowsInv'
    BY <1>4 DEF IInv, TypeOK, RowsInv, Entitled, OpenAtProvider
  <2>3. NoOrphanSubscription'
    BY <1>4 DEF IInv, Safety, TypeOK, NoOrphanSubscription, Entitled, RowsInv,
        OpenAtProvider
  <2>4. QED
    BY <1>4, <2>1, <2>2, <2>3, Frame DEF IInv, Safety, OpenAtProvider
<1>5. ASSUME IInv, NEW p \in Payments, AssignPlan(p)
      PROVE  IInv'
  <2>1. TypeOK'
    BY <1>5 DEF IInv, TypeOK, PayStates, Steps, AssignPlan, SubStates,
        SUBSCRIPTION_STATES, ComputeExpiresAt
  <2>2. RowsInv'
    BY <1>5 DEF IInv, TypeOK, RowsInv, Entitled, AssignPlan
  <2>3. RequestInv'
    BY <1>5 DEF IInv, Safety, TypeOK, RequestInv, RequestFacts, AfterClaim, PayingOut,
        Entitled, RowsInv, ExpiryInv, EntitledOnlyIfPaid, AssignPlan
  <2>4. ExpiryInv'
    BY <1>5 DEF IInv, Safety, TypeOK, ExpiryInv, Entitled, RowsInv,
        RequestInv, RequestFacts, AfterClaim, EntitledOnlyIfPaid, AssignPlan,
        ComputeExpiresAt
  <2>5. EntitledOnlyIfPaid'
    BY <1>5 DEF IInv, Safety, TypeOK, EntitledOnlyIfPaid, Entitled, RowsInv,
        RequestInv, RequestFacts, AfterClaim, ExpiryInv, AssignPlan
  <2>6. PaidOutOnceAfterActivation'
    BY <1>5 DEF IInv, Safety, TypeOK, PaidOutOnceAfterActivation, Entitled,
        RowsInv, RequestInv, RequestFacts, AfterClaim, ExpiryInv, EntitledOnlyIfPaid,
        AssignPlan
  <2>7. StrandedOnlyByFault'
    BY <1>5 DEF IInv, Safety, TypeOK, StrandedOnlyByFault, RowsInv,
        RequestInv, RequestFacts, AfterClaim, ExpiryInv, Entitled, EntitledOnlyIfPaid,
        AssignPlan
  <2>8. PaidPeriodIsKept'
    BY <1>5 DEF IInv, Safety, TypeOK, PaidPeriodIsKept, Entitled, RowsInv,
        RequestInv, RequestFacts, AfterClaim, ExpiryInv, EntitledOnlyIfPaid, AssignPlan,
        ComputeExpiresAt
  <2>9. NoOrphanSubscription'
    BY <1>5 DEF IInv, Safety, TypeOK, NoOrphanSubscription, Entitled, RowsInv,
        AssignPlan
  <2>10. QED
    BY <1>5, <2>1, <2>2, <2>3, <2>4, <2>5, <2>6, <2>7, <2>8, <2>9, Frame DEF
        IInv, Safety, AssignPlan
<1>6. ASSUME IInv, NEW p \in Payments, CreatePayment(p)
      PROVE  IInv'
  <2>1. TypeOK'
    BY <1>6 DEF IInv, TypeOK, PayStates, Steps, CreatePayment
  <2>2. RowsInv'
    BY <1>6 DEF IInv, TypeOK, RowsInv, Entitled, CreatePayment
  <2>3. RequestInv'
    BY <1>6 DEF IInv, Safety, TypeOK, RequestInv, RequestFacts, AfterClaim, PayingOut,
        Entitled, RowsInv, ExpiryInv, EntitledOnlyIfPaid, CreatePayment
  <2>4. WinnerInv'
    BY <1>6 DEF IInv, Safety, TypeOK, WinnerInv, Won, AfterClaim, RowsInv,
        RequestInv, RequestFacts, ExpiryInv, Entitled, EntitledOnlyIfPaid, PayingOut,
        CreatePayment
  <2>5. EntitledOnlyIfPaid'
    BY <1>6 DEF IInv, Safety, TypeOK, EntitledOnlyIfPaid, Entitled, RowsInv,
        RequestInv, RequestFacts, AfterClaim, ExpiryInv, CreatePayment
  <2>6. StrandedOnlyByFault'
    BY <1>6 DEF IInv, Safety, TypeOK, StrandedOnlyByFault, RowsInv,
        RequestInv, RequestFacts, AfterClaim, ExpiryInv, Entitled, EntitledOnlyIfPaid,
        CreatePayment
  <2>7. NoOrphanSubscription'
    BY <1>6 DEF IInv, Safety, TypeOK, NoOrphanSubscription, Entitled, RowsInv,
        CreatePayment
  <2>8. QED
    BY <1>6, <2>1, <2>2, <2>3, <2>4, <2>5, <2>6, <2>7, Frame DEF IInv, Safety,
        CreatePayment
<1>7. ASSUME IInv, NEW p \in Payments, CheckoutDies(p)
      PROVE  IInv'
  <2>1. TypeOK'
    BY <1>7 DEF IInv, TypeOK, PayStates, Steps, CheckoutDies
  <2>2. RowsInv'
    BY <1>7 DEF IInv, TypeOK, RowsInv, Entitled, CheckoutDies
  <2>3. NoOrphanSubscription'
    BY <1>7 DEF IInv, Safety, TypeOK, NoOrphanSubscription, Entitled, RowsInv,
        CheckoutDies
  <2>4. QED
    BY <1>7, <2>1, <2>2, <2>3, Frame DEF IInv, Safety, CheckoutDies
<1>8. ASSUME IInv, NEW p \in Payments, CustomerPays(p)
      PROVE  IInv'
  <2>1. TypeOK'
    BY <1>8 DEF IInv, TypeOK, PayStates, Steps, CustomerPays
  <2>2. RowsInv'
    BY <1>8 DEF IInv, TypeOK, RowsInv, Entitled, CustomerPays
  <2>3. RequestInv'
    BY <1>8 DEF IInv, Safety, TypeOK, RequestInv, RequestFacts, AfterClaim, PayingOut,
        Entitled, RowsInv, ExpiryInv, EntitledOnlyIfPaid, CustomerPays
  <2>4. ExpiryInv'
    BY <1>8 DEF IInv, Safety, TypeOK, ExpiryInv, Entitled, RowsInv,
        RequestInv, RequestFacts, AfterClaim, EntitledOnlyIfPaid, CustomerPays
  <2>5. EntitledOnlyIfPaid'
    BY <1>8 DEF IInv, Safety, TypeOK, EntitledOnlyIfPaid, Entitled, RowsInv,
        RequestInv, RequestFacts, AfterClaim, ExpiryInv, CustomerPays
  <2>6. PaidPeriodIsKept'
    BY <1>8 DEF IInv, Safety, TypeOK, PaidPeriodIsKept, Entitled, RowsInv,
        RequestInv, RequestFacts, AfterClaim, ExpiryInv, EntitledOnlyIfPaid, CustomerPays
  <2>7. NoOrphanSubscription'
    BY <1>8 DEF IInv, TypeOK, PayStates, RowsInv, NoOrphanSubscription,
        Entitled, CustomerPays
  <2>8. QED
    BY <1>8, <2>1, <2>2, <2>3, <2>4, <2>5, <2>6, <2>7, Frame DEF IInv, Safety,
        CustomerPays
<1>9. ASSUME IInv, NEW p \in Payments, AttemptDeclined(p)
      PROVE  IInv'
  <2>1. TypeOK'
    BY <1>9 DEF IInv, TypeOK, PayStates, Steps, AttemptDeclined
  <2>2. QED
    BY <1>9, <2>1, Frame DEF IInv, Safety, AttemptDeclined
<1>10. ASSUME IInv, NEW p \in Payments, ChargeFailedReceived(p)
      PROVE  IInv'
  <2>1. TypeOK'
    BY <1>10 DEF IInv, TypeOK, PayStates, Steps, ChargeFailedReceived
  <2>2. RowsInv'
    BY <1>10 DEF IInv, TypeOK, RowsInv, Entitled, ChargeFailedReceived
  <2>3. RequestInv'
    BY <1>10 DEF IInv, Safety, TypeOK, RequestInv, RequestFacts, AfterClaim, PayingOut,
        Entitled, RowsInv, ExpiryInv, EntitledOnlyIfPaid, ChargeFailedReceived
  <2>4. WinnerInv'
    BY <1>10 DEF IInv, Safety, TypeOK, WinnerInv, Won, AfterClaim, RowsInv,
        RequestInv, RequestFacts, ExpiryInv, Entitled, EntitledOnlyIfPaid, PayingOut,
        ChargeFailedReceived
  <2>5. EntitledOnlyIfPaid'
    BY <1>10 DEF IInv, Safety, TypeOK, EntitledOnlyIfPaid, Entitled, RowsInv,
        RequestInv, RequestFacts, AfterClaim, ExpiryInv, ChargeFailedReceived
  <2>6. StrandedOnlyByFault'
    BY <1>10 DEF IInv, Safety, TypeOK, StrandedOnlyByFault, RowsInv,
        RequestInv, RequestFacts, AfterClaim, ExpiryInv, Entitled, EntitledOnlyIfPaid,
        ChargeFailedReceived
  <2>7. NoOrphanSubscription'
    BY <1>10 DEF IInv, Safety, TypeOK, NoOrphanSubscription, Entitled,
        RowsInv, ChargeFailedReceived
  <2>8. QED
    BY <1>10, <2>1, <2>2, <2>3, <2>4, <2>5, <2>6, <2>7, Frame DEF IInv,
        Safety, ChargeFailedReceived
<1>11. ASSUME IInv, NEW p \in Payments, AuthorizeFindsOverdue(p)
      PROVE  IInv'
  <2>1. TypeOK'
    BY <1>11 DEF IInv, TypeOK, PayStates, Steps, AuthorizeFindsOverdue,
        Overdue
  <2>2. ExpiryInv'
    BY <1>11 DEF IInv, Safety, TypeOK, ExpiryInv, Entitled, PaidPeriodIsKept,
        AuthorizeFindsOverdue, Overdue
  <2>3. QED
    BY <1>11, <2>1, <2>2, Frame DEF IInv, Safety, AuthorizeFindsOverdue
<1>12. ASSUME IInv, NEW p \in Payments, AuthorizeExpires(p)
      PROVE  IInv'
  <2>1. TypeOK'
    BY <1>12, StateMachineFacts DEF IInv, TypeOK, PayStates, Steps, AuthorizeExpires, Transition,
        TRANSITIONS, SubStates, SUBSCRIPTION_STATES
  <2>2. RowsInv'
    BY <1>12, StateMachineFacts DEF IInv, Safety, TypeOK, RowsInv, Entitled, ExpiryInv,
        EntitledOnlyIfPaid, AuthorizeExpires
  <2>3. RequestInv'
    BY <1>12, StateMachineFacts DEF IInv, Safety, TypeOK, RequestInv, RequestFacts, AfterClaim, PayingOut,
        Entitled, RowsInv, ExpiryInv, EntitledOnlyIfPaid, AuthorizeExpires
  <2>4. ExpiryInv'
    BY <1>12, StateMachineFacts DEF IInv, Safety, TypeOK, ExpiryInv, Entitled, RowsInv,
        RequestInv, RequestFacts, AfterClaim, EntitledOnlyIfPaid, AuthorizeExpires
  <2>5. EntitledOnlyIfPaid'
    BY <1>12, StateMachineFacts DEF IInv, Safety, TypeOK, EntitledOnlyIfPaid, Entitled, RowsInv,
        RequestInv, RequestFacts, AfterClaim, ExpiryInv, AuthorizeExpires, Transition,
        TRANSITIONS
  <2>6. PaidOutOnceAfterActivation'
    BY <1>12, StateMachineFacts DEF IInv, Safety, TypeOK, PaidOutOnceAfterActivation, Entitled,
        RowsInv, RequestInv, RequestFacts, AfterClaim, ExpiryInv, EntitledOnlyIfPaid,
        AuthorizeExpires
  <2>7. StrandedOnlyByFault'
    BY <1>12, StateMachineFacts DEF IInv, Safety, TypeOK, StrandedOnlyByFault, RowsInv,
        RequestInv, RequestFacts, AfterClaim, ExpiryInv, Entitled, EntitledOnlyIfPaid,
        AuthorizeExpires
  <2>8. PaidPeriodIsKept'
    BY <1>12, StateMachineFacts DEF IInv, Safety, TypeOK, PaidPeriodIsKept, Entitled, RowsInv,
        RequestInv, RequestFacts, AfterClaim, ExpiryInv, EntitledOnlyIfPaid,
        AuthorizeExpires
  <2>9. NoOrphanSubscription'
    BY <1>12, StateMachineFacts DEF IInv, Safety, TypeOK, NoOrphanSubscription, Entitled,
        RowsInv, ExpiryInv, EntitledOnlyIfPaid, AuthorizeExpires, Transition,
        TRANSITIONS
  <2>10. QED
    BY <1>12, <2>1, <2>2, <2>3, <2>4, <2>5, <2>6, <2>7, <2>8, <2>9, Frame DEF
        IInv, Safety, AuthorizeExpires
<1>13. ASSUME IInv, NEW r \in Requests, NEW p \in Payments, Start(r, p)
      PROVE  IInv'
  <2>1. TypeOK'
    BY <1>13 DEF IInv, TypeOK, PayStates, Steps, Start, Idle, SubStates,
        SUBSCRIPTION_STATES
  <2>2. RequestInv'
    BY <1>13 DEF IInv, TypeOK, RequestInv, RequestFacts, AfterClaim, PayingOut, Entitled,
        RowsInv, Start, Idle
  <2>3. WinnerInv'
    BY <1>13 DEF IInv, TypeOK, WinnerInv, Won, AfterClaim, RequestInv, RequestFacts,
        PayingOut, Start, Idle
  <2>4. StrandedOnlyByFault'
    BY <1>13 DEF IInv, Safety, TypeOK, StrandedOnlyByFault, Start, Idle
  <2>5. QED
    BY <1>13, <2>1, <2>2, <2>3, <2>4, Frame DEF IInv, Safety, Start
<1>14. ASSUME IInv, NEW r \in Requests, Verify(r)
      PROVE  IInv'
  <2>1. TypeOK'
    BY <1>14 DEF IInv, TypeOK, PayStates, Steps, RequestInv, RequestFacts, Verify, Finish,
        Idle, SubStates, SUBSCRIPTION_STATES
  <2>2. RequestInv'
    BY <1>14 DEF IInv, TypeOK, RequestInv, RequestFacts, AfterClaim, PayingOut, Entitled,
        RowsInv, Verify, Finish, Idle
  <2>3. WinnerInv'
    BY <1>14 DEF IInv, TypeOK, WinnerInv, Won, AfterClaim, RequestInv, RequestFacts,
        PayingOut, Verify, Finish, Idle
  <2>4. StrandedOnlyByFault'
    <3>1. SUFFICES ASSUME NEW q \in Payments, payStatus'[q] = "SUCCESS",
                          subStatus'[q] = "PENDING", q \notin hit'
                   PROVE  \E s \in Requests :
                            /\ req'[s].on = q
                            /\ req'[s].pc \in {"lookup", "activate"}
      BY DEF StrandedOnlyByFault
    <3>2. PICK s \in Requests :
                 req[s].on = q /\ req[s].pc \in {"lookup", "activate"}
      BY <1>14, <3>1 DEF IInv, Safety, StrandedOnlyByFault, Verify
    <3>3. s # r
      BY <1>14, <3>2 DEF Verify
    <3>4. QED
      BY <1>14, <3>2, <3>3 DEF IInv, TypeOK, Verify, Finish
  <2>5. QED
    BY <1>14, <2>1, <2>2, <2>3, <2>4, Frame DEF IInv, Safety, Verify, Finish
<1>15. ASSUME IInv, NEW r \in Requests, Snapshot(r)
      PROVE  IInv'
  <2>1. TypeOK'
    <3>1. CASE req'[r] = Idle
      BY <1>15, <3>1
      DEF IInv, TypeOK, RequestInv, RequestFacts, Snapshot, Finish, Idle, Steps, PayStates,
          SubStates
    <3>2. CASE UNCHANGED acked
      BY <1>15, <3>2
      DEF IInv, TypeOK, Snapshot, Finish, Idle, Steps, PayStates, SubStates
    <3>3. QED
      BY <1>15, <3>1, <3>2 DEF IInv, TypeOK, Snapshot, Finish
  <2>2. RequestInv'
    <3> DEFINE p == req[r].on
    <3>1. p \in Payments /\ payStatus[p] # "NONE"
      BY <1>15 DEF IInv, RequestInv, RequestFacts, Snapshot
    <3>2. CASE req' = [req EXCEPT ![r] = Idle]
      BY <1>15, <3>2
      DEF IInv, TypeOK, RequestInv, RequestFacts, AfterClaim, PayingOut, Snapshot, Idle
    <3>3. CASE req' # [req EXCEPT ![r] = Idle]
      <4>data. /\ charge[p] \in {"paid", "mispaid"}
            /\ payStatus[p] \in {"PENDING", "SUCCESS", "FAILED"}
        BY <1>15, <3>1
        DEF IInv, TypeOK, RequestInv, RequestFacts, PayStates, Snapshot
      <4>0. ~Unsettleable(p) /\ ~AlreadySettled(p)
        BY <1>15, <3>3 DEF Snapshot, Finish
      <4>1. /\ charge[p] = "paid"
            /\ payStatus[p] = "PENDING" \/ subStatus[p] = "PENDING"
            /\ payStatus[p] # "FAILED"
            /\ req' = [req EXCEPT
                 ![r].pc = IF payStatus[p] = "PENDING" THEN "claim" ELSE "lookup",
                 ![r].seenPay = payStatus[p],
                 ![r].seenSub = subStatus[p]]
        BY <1>15, <3>3, <4>data, <4>0 DEF Snapshot, Finish
      <4>2. payStatus[p] \in {"PENDING", "SUCCESS"} /\ subStatus[p] = "PENDING"
        BY <1>15, <3>1, <4>1 DEF IInv, TypeOK, RowsInv, PayStates
      <4>3. UNCHANGED <<charge, chargedAt, payStatus, subStatus>>
        BY <1>15 DEF Snapshot
      <4>4. ASSUME NEW s \in Requests, s # r
            PROVE  req'[s] = req[s]
        BY <1>15, <4>1, <4>4 DEF IInv, TypeOK
      <4>5. /\ req'[r].pc \in {"claim", "lookup"}
            /\ req'[r].pc = "claim" <=> payStatus[p] = "PENDING"
            /\ req'[r].on = p /\ req'[r].at = req[r].at
            /\ req'[r].seenPay = payStatus[p] /\ req'[r].seenSub = subStatus[p]
        BY <1>15, <4>1 DEF IInv, TypeOK
      <4>6. req[r].at \in Times /\ (chargedAt[p] # NoTime => req[r].at = chargedAt[p])
        BY <1>15 DEF IInv, RequestInv, RequestFacts, Snapshot
      <4>7. SUFFICES ASSUME NEW s \in Requests
                     PROVE  RequestFacts(s)'
        BY DEF RequestInv
      <4>8. CASE s # r
        <5>1. RequestFacts(s)
          BY <1>15 DEF IInv, RequestInv
        <5>2. QED
          BY <4>3, <4>4, <4>8, <5>1 DEF RequestFacts
      <4>9. CASE s = r
        BY <3>1, <4>1, <4>2, <4>3, <4>5, <4>6, <4>9
        DEF RequestFacts, AfterClaim, PayingOut
      <4>10. QED
        BY <4>8, <4>9
    <3>4. QED
      BY <3>2, <3>3
  <2>3. WinnerInv'
    BY <1>15 DEF IInv, TypeOK, WinnerInv, Won, AfterClaim, RequestInv, RequestFacts,
        PayingOut, Snapshot, Finish, Idle
  <2>4. StrandedOnlyByFault'
    BY <1>15 DEF IInv, Safety, TypeOK, StrandedOnlyByFault, RequestInv, RequestFacts,
        RowsInv, AfterClaim, Entitled, Snapshot, Finish, Idle
  <2>5. QED
    BY <1>15, <2>1, <2>2, <2>3, <2>4, Frame DEF IInv, Safety, Snapshot, Finish
<1>16. ASSUME IInv, NEW r \in Requests, Claim(r)
      PROVE  IInv'
  <2>1. TypeOK'
    BY <1>16 DEF IInv, TypeOK, PayStates, Steps, RequestInv, RequestFacts, Claim, Finish,
        Idle, Proceed, FirstAfterSettlement, SubStates, SUBSCRIPTION_STATES
  <2>2. RowsInv'
    BY <1>16 DEF IInv, TypeOK, RowsInv, Entitled, RequestInv, RequestFacts, AfterClaim,
        Claim, Finish, Idle, Proceed, FirstAfterSettlement
  <2>3. RequestInv'
    BY <1>16 DEF IInv, TypeOK, RequestInv, RequestFacts, AfterClaim, PayingOut, Entitled,
        RowsInv, Claim, Finish, Idle, Proceed, FirstAfterSettlement
  <2>4. WinnerInv'
    BY <1>16 DEF IInv, TypeOK, WinnerInv, Won, AfterClaim, RequestInv, RequestFacts,
        PayingOut, Claim, Finish, Idle, Proceed, FirstAfterSettlement
  <2>5. EntitledOnlyIfPaid'
    BY <1>16 DEF IInv, Safety, TypeOK, EntitledOnlyIfPaid, Entitled,
        RequestInv, RequestFacts, AfterClaim, Claim, Finish, Idle, Proceed,
        FirstAfterSettlement
  <2>6. StrandedOnlyByFault'
    <3>1. SUFFICES ASSUME NEW q \in Payments, payStatus'[q] = "SUCCESS",
                          subStatus'[q] = "PENDING", q \notin hit'
                   PROVE  \E s \in Requests :
                            /\ req'[s].on = q
                            /\ req'[s].pc \in {"lookup", "activate"}
      BY DEF StrandedOnlyByFault
    <3>2. CASE q = req[r].on /\ payStatus[q] = "PENDING"
      BY <1>16, <3>2
      DEF IInv, TypeOK, RequestInv, RequestFacts, Claim, Proceed, FirstAfterSettlement
    <3>3. CASE ~(q = req[r].on /\ payStatus[q] = "PENDING")
      <4>1. PICK s \in Requests :
                   req[s].on = q /\ req[s].pc \in {"lookup", "activate"}
        BY <1>16, <3>1, <3>3
        DEF IInv, Safety, StrandedOnlyByFault, TypeOK, RequestInv, RequestFacts, Claim
      <4>2. s # r
        BY <1>16, <4>1 DEF Claim
      <4>3. QED
        BY <1>16, <4>1, <4>2 DEF IInv, TypeOK, Claim, Proceed, Finish
    <3>4. QED
      BY <3>2, <3>3
  <2>7. NoOrphanSubscription'
    BY <1>16 DEF IInv, Safety, TypeOK, NoOrphanSubscription, Entitled,
        RowsInv, RequestInv, RequestFacts, AfterClaim, Claim, Finish, Idle, Proceed,
        FirstAfterSettlement
  <2>8. QED
    BY <1>16, <2>1, <2>2, <2>3, <2>4, <2>5, <2>6, <2>7, Frame DEF IInv,
        Safety, Claim, Finish, Proceed
<1>17. ASSUME IInv, NEW r \in Requests, LookUp(r)
      PROVE  IInv'
  <2>1. TypeOK'
    BY <1>17, StateMachineFacts DEF IInv, TypeOK, PayStates, Steps, RequestInv, RequestFacts, LookUp, Finish,
        Idle, Proceed, SubStates,
        SUBSCRIPTION_STATES
  <2>2. RequestInv'
    BY <1>17, StateMachineFacts DEF IInv, TypeOK, RequestInv, RequestFacts, AfterClaim, PayingOut, Entitled,
        RowsInv, LookUp, Finish, Idle, Proceed, SubStates
  <2>3. WinnerInv'
    BY <1>17, StateMachineFacts DEF IInv, TypeOK, WinnerInv, Won, AfterClaim, RequestInv, RequestFacts,
        PayingOut, LookUp, Finish, Idle, Proceed, SubStates
  <2>4. StrandedOnlyByFault'
    <3>1. SUFFICES ASSUME NEW q \in Payments, payStatus'[q] = "SUCCESS",
                          subStatus'[q] = "PENDING", q \notin hit'
                   PROVE  \E s \in Requests :
                            /\ req'[s].on = q
                            /\ req'[s].pc \in {"lookup", "activate"}
      BY DEF StrandedOnlyByFault
    <3>2. PICK s \in Requests :
                 req[s].on = q /\ req[s].pc \in {"lookup", "activate"}
      BY <1>17, <3>1 DEF IInv, Safety, StrandedOnlyByFault, LookUp
    <3>3. CASE s = r
      BY <1>17, <3>1, <3>2, <3>3, StateMachineFacts
      DEF IInv, TypeOK, LookUp, Proceed, SUBSCRIPTION_STATES
    <3>4. CASE s # r
      BY <1>17, <3>2, <3>4 DEF IInv, TypeOK, LookUp, Proceed, Finish
    <3>5. QED
      BY <3>3, <3>4
  <2>5. QED
    BY <1>17, <2>1, <2>2, <2>3, <2>4, Frame DEF IInv, Safety, LookUp, Finish,
        Proceed
<1>18. ASSUME IInv, NEW r \in Requests, Activate(r)
      PROVE  IInv'
  <2>1. TypeOK'
    <3>1. req[r].on \in Payments /\ req[r].at \in Times
      BY <1>18 DEF IInv, RequestInv, RequestFacts, Activate
    <3>2. /\ subStatus' \in [Payments -> SubStates]
          /\ startedAt' \in [Payments -> Times \union {NoTime}]
          /\ expiresAt' \in [Payments -> Nat \union {NoTime}]
      BY <1>18, <3>1, StateMachineFacts
      DEF IInv, TypeOK, Activate, SubStates, SUBSCRIPTION_STATES,
          ComputeExpiresAt
    <3>3. /\ req' \in [Requests ->
                        [pc : Steps, on : Payments \union {NoPayment},
                         at : Times \union {NoTime},
                         seenPay : PayStates, seenSub : SubStates]]
          /\ acked' \subseteq Payments
      BY <1>18, <3>1
      DEF IInv, TypeOK, Activate, Finish, Proceed, FirstAfterSettlement, Idle,
          Steps, PayStates, SubStates
    <3>4. QED
      BY <1>18, <3>2, <3>3 DEF IInv, TypeOK, Activate
  <2>2. RowsInv'
    BY <1>18, StateMachineFacts DEF IInv, TypeOK, RowsInv, Entitled, RequestInv, RequestFacts, AfterClaim,
        Activate, Finish, Idle, Proceed, FirstAfterSettlement, Transition,
        TRANSITIONS
  <2>3. RequestInv'
    BY <1>18, StateMachineFacts DEF IInv, TypeOK, RequestInv, RequestFacts, AfterClaim, PayingOut, Entitled,
        RowsInv, Activate, Finish, Idle, Proceed, FirstAfterSettlement
  <2>4. WinnerInv'
    BY <1>18, StateMachineFacts DEF IInv, TypeOK, WinnerInv, Won, AfterClaim, RequestInv, RequestFacts,
        PayingOut, Activate, Finish, Idle, Proceed, FirstAfterSettlement
  <2>5. ExpiryInv'
    BY <1>18, StateMachineFacts DEF IInv, Safety, TypeOK, ExpiryInv, Entitled, RequestInv, RequestFacts,
        PaidPeriodIsKept, AfterClaim, Activate, Finish, Idle, Proceed,
        FirstAfterSettlement, ComputeExpiresAt
  <2>6. EntitledOnlyIfPaid'
    BY <1>18, StateMachineFacts DEF IInv, Safety, TypeOK, EntitledOnlyIfPaid, Entitled,
        RequestInv, RequestFacts, AfterClaim, Activate, Finish, Idle, Proceed,
        FirstAfterSettlement
  <2>7. PaidOutOnceAfterActivation'
    BY <1>18, StateMachineFacts DEF IInv, Safety, TypeOK, PaidOutOnceAfterActivation, Entitled,
        RequestInv, RequestFacts, WinnerInv, Won, AfterClaim, PayingOut, RowsInv, Activate,
        Finish, Idle, Proceed, FirstAfterSettlement
  <2>8. StrandedOnlyByFault'
    <3>1. SUFFICES ASSUME NEW q \in Payments, payStatus'[q] = "SUCCESS",
                          subStatus'[q] = "PENDING", q \notin hit'
                   PROVE  \E s \in Requests :
                            /\ req'[s].on = q
                            /\ req'[s].pc \in {"lookup", "activate"}
      BY DEF StrandedOnlyByFault
    <3>2. q # req[r].on
      BY <1>18, <3>1, StateMachineFacts DEF IInv, TypeOK, Activate
    <3>3. PICK s \in Requests :
                 req[s].on = q /\ req[s].pc \in {"lookup", "activate"}
      BY <1>18, <3>1, <3>2
      DEF IInv, Safety, StrandedOnlyByFault, TypeOK, Activate
    <3>4. QED
      BY <1>18, <3>2, <3>3 DEF IInv, TypeOK, Activate, Proceed, Finish
  <2>9. PaidPeriodIsKept'
    BY <1>18, StateMachineFacts DEF IInv, Safety, TypeOK, PaidPeriodIsKept, Entitled, RequestInv, RequestFacts,
        AfterClaim, Activate, Finish, Idle, Proceed, FirstAfterSettlement, ComputeExpiresAt
  <2>10. NoOrphanSubscription'
    BY <1>18, StateMachineFacts DEF IInv, Safety, TypeOK, NoOrphanSubscription, Entitled,
        RowsInv, RequestInv, RequestFacts, AfterClaim, Activate, Finish, Idle, Proceed,
        FirstAfterSettlement
  <2>11. QED
    BY <1>18, <2>1, <2>2, <2>3, <2>4, <2>5, <2>6, <2>7, <2>8, <2>9, <2>10,
        Frame DEF IInv, Safety, Activate, Finish, Proceed
<1>19. ASSUME IInv, NEW r \in Requests, Commission(r)
      PROVE  IInv'
  <2>1. TypeOK'
    BY <1>19 DEF IInv, TypeOK, PayStates, Steps, RequestInv, RequestFacts, Commission,
        Proceed, SubStates, SUBSCRIPTION_STATES
  <2>2. RequestInv'
    BY <1>19 DEF IInv, TypeOK, RequestInv, RequestFacts, AfterClaim, PayingOut, Entitled,
        RowsInv, Commission, Proceed
  <2>3. WinnerInv'
    BY <1>19 DEF IInv, TypeOK, WinnerInv, Won, AfterClaim, RequestInv, RequestFacts,
        PayingOut, Commission, Proceed
  <2>4. PaidOutOnceAfterActivation'
    BY <1>19 DEF IInv, Safety, TypeOK, PaidOutOnceAfterActivation, Entitled,
        RequestInv, RequestFacts, WinnerInv, Won, AfterClaim, PayingOut, RowsInv,
        Commission, Proceed
  <2>5. StrandedOnlyByFault'
    BY <1>19 DEF IInv, Safety, TypeOK, StrandedOnlyByFault, RequestInv, RequestFacts,
        RowsInv, AfterClaim, Entitled, Commission, Proceed
  <2>6. QED
    BY <1>19, <2>1, <2>2, <2>3, <2>4, <2>5, Frame DEF IInv, Safety,
        Commission, Proceed
<1>20. ASSUME IInv, NEW r \in Requests, Notify(r)
      PROVE  IInv'
  <2>1. TypeOK'
    BY <1>20 DEF IInv, TypeOK, PayStates, Steps, RequestInv, RequestFacts, Notify, Proceed,
        SubStates, SUBSCRIPTION_STATES
  <2>2. RequestInv'
    BY <1>20 DEF IInv, TypeOK, RequestInv, RequestFacts, AfterClaim, PayingOut, Entitled,
        RowsInv, Notify, Proceed
  <2>3. WinnerInv'
    BY <1>20 DEF IInv, TypeOK, WinnerInv, Won, AfterClaim, RequestInv, RequestFacts,
        PayingOut, Notify, Proceed
  <2>4. PaidOutOnceAfterActivation'
    BY <1>20 DEF IInv, Safety, TypeOK, PaidOutOnceAfterActivation, Entitled,
        RequestInv, RequestFacts, WinnerInv, Won, AfterClaim, PayingOut, RowsInv, Notify,
        Proceed
  <2>5. StrandedOnlyByFault'
    BY <1>20 DEF IInv, Safety, TypeOK, StrandedOnlyByFault, RequestInv, RequestFacts,
        RowsInv, AfterClaim, Entitled, Notify, Proceed
  <2>6. QED
    BY <1>20, <2>1, <2>2, <2>3, <2>4, <2>5, Frame DEF IInv, Safety, Notify,
        Proceed
<1>21. ASSUME IInv, NEW r \in Requests, SendSms(r)
      PROVE  IInv'
  <2>1. TypeOK'
    BY <1>21 DEF IInv, TypeOK, PayStates, Steps, RequestInv, RequestFacts, SendSms, Finish,
        Idle, SubStates, SUBSCRIPTION_STATES
  <2>2. RequestInv'
    BY <1>21 DEF IInv, TypeOK, RequestInv, RequestFacts, AfterClaim, PayingOut, Entitled,
        RowsInv, SendSms, Finish, Idle
  <2>3. WinnerInv'
    BY <1>21 DEF IInv, TypeOK, WinnerInv, Won, AfterClaim, RequestInv, RequestFacts,
        PayingOut, SendSms, Finish, Idle
  <2>4. PaidOutOnceAfterActivation'
    BY <1>21 DEF IInv, Safety, TypeOK, PaidOutOnceAfterActivation, Entitled,
        RequestInv, RequestFacts, WinnerInv, Won, AfterClaim, PayingOut, RowsInv, SendSms,
        Finish, Idle
  <2>5. StrandedOnlyByFault'
    BY <1>21 DEF IInv, Safety, TypeOK, StrandedOnlyByFault, RequestInv, RequestFacts,
        RowsInv, AfterClaim, Entitled, SendSms, Finish, Idle
  <2>6. QED
    BY <1>21, <2>1, <2>2, <2>3, <2>4, <2>5, Frame DEF IInv, Safety, SendSms,
        Finish
<1>22. ASSUME IInv, NEW r \in Requests, RequestThrows(r)
      PROVE  IInv'
  <2>1. TypeOK'
    BY <1>22 DEF IInv, TypeOK, PayStates, Steps, RequestInv, RequestFacts, RequestThrows,
        Finish, Idle, SubStates, SUBSCRIPTION_STATES
  <2>2. RequestInv'
    BY <1>22 DEF IInv, TypeOK, RequestInv, RequestFacts, AfterClaim, PayingOut, Entitled,
        RowsInv, RequestThrows, Finish, Idle
  <2>3. WinnerInv'
    BY <1>22 DEF IInv, TypeOK, WinnerInv, Won, AfterClaim, RequestInv, RequestFacts,
        PayingOut, RequestThrows, Finish, Idle
  <2>4. StrandedOnlyByFault'
    BY <1>22 DEF IInv, Safety, TypeOK, StrandedOnlyByFault, RequestInv, RequestFacts,
        RowsInv, AfterClaim, Entitled, RequestThrows, Finish, Idle
  <2>5. QED
    BY <1>22, <2>1, <2>2, <2>3, <2>4, Frame DEF IInv, Safety, RequestThrows,
        Finish
<1>23. ASSUME IInv, NEW r \in Requests, RequestDies(r)
      PROVE  IInv'
  <2>1. TypeOK'
    BY <1>23 DEF IInv, TypeOK, PayStates, Steps, RequestInv, RequestFacts, RequestDies,
        Idle, SubStates, SUBSCRIPTION_STATES
  <2>2. RequestInv'
    BY <1>23 DEF IInv, TypeOK, RequestInv, RequestFacts, AfterClaim, PayingOut, Entitled,
        RowsInv, RequestDies, Idle
  <2>3. WinnerInv'
    BY <1>23 DEF IInv, TypeOK, WinnerInv, Won, AfterClaim, RequestInv, RequestFacts,
        PayingOut, RequestDies, Idle
  <2>4. StrandedOnlyByFault'
    BY <1>23 DEF IInv, Safety, TypeOK, StrandedOnlyByFault, RequestInv, RequestFacts,
        RowsInv, AfterClaim, Entitled, RequestDies, Idle
  <2>5. QED
    BY <1>23, <2>1, <2>2, <2>3, <2>4, Frame DEF IInv, Safety, RequestDies
<1>24. ASSUME IInv, UNCHANGED vars PROVE IInv'
    BY <1>24, Frame DEF IInv, Safety, TypeOK, vars
<1>25. QED
  BY <1>1, <1>2, <1>3, <1>4, <1>5, <1>6, <1>7, <1>8, <1>9, <1>10, <1>11,
      <1>12, <1>13, <1>14, <1>15, <1>16, <1>17, <1>18, <1>19, <1>20, <1>21,
      <1>22, <1>23, <1>24 DEF Next, CheckoutStep, RequestStep,
      WebhookReceives, CallbackReceives

LEMMA Invariance == Spec => []IInv
<1>1. Init => IInv
  BY InitIInv
<1>2. IInv /\ [Next]_vars => IInv'
  BY NextIInv
<1>3. QED
  BY <1>1, <1>2, PTL DEF Spec

-----------------------------------------------------------------------------
(* The invariants, for every value of the constants.                       *)

\* Type correctness: the rows and the local state of every request keep the
\* shape the schema and the handlers give them.
THEOREM TypeCorrect == Spec => []TypeOK
<1>1. IInv => TypeOK
  BY DEF IInv
<1>2. QED
  BY <1>1, Invariance, PTL

\* No interleaving of any number of deliveries entitles a customer the
\* provider did not charge the billed amount.
THEOREM OnlyPaidIsEntitled == Spec => []EntitledOnlyIfPaid
<1>1. IInv => EntitledOnlyIfPaid
  BY DEF IInv, Safety
<1>2. QED
  BY <1>1, Invariance, PTL

\* Commission and receipts go out at most once per payment, after activation.
THEOREM PaysOutOnce == Spec => []PaidOutOnceAfterActivation
<1>1. IInv => PaidOutOnceAfterActivation
  BY DEF IInv, Safety
<1>2. QED
  BY <1>1, Invariance, PTL

\* Only a fault strands a settled payment: the claim's losers may return early.
THEOREM OnlyFaultsStrand == Spec => []StrandedOnlyByFault
<1>1. IInv => StrandedOnlyByFault
  BY DEF IInv, Safety
<1>2. QED
  BY <1>1, Invariance, PTL

\* A dated payment buys exactly its period, whoever activates and expires it.
THEOREM PaidPeriodKept == Spec => []PaidPeriodIsKept
<1>1. IInv => PaidPeriodIsKept
  BY DEF IInv, Safety
<1>2. QED
  BY <1>1, Invariance, PTL

\* A failed checkout leaves no pending subscription, a payable one is complete.
THEOREM NoOrphans == Spec => []NoOrphanSubscription
<1>1. IInv => NoOrphanSubscription
  BY DEF IInv, Safety
<1>2. QED
  BY <1>1, Invariance, PTL

-----------------------------------------------------------------------------
(* The moves of a subscription's status.                                   *)

\* A status moves along the state machine, but for an activation that found the
\* subscription PENDING and writes after another one and its expiry: then the
\* dates of a dated payment stay, so what is revived is over all the same.
Moves(p) ==
  \/ Reachable(subStatus[p], subStatus'[p])
  \/ /\ subStatus[p] = "EXPIRED"
     /\ \E r \in Requests : req[r].pc = "activate" /\ req[r].on = p
     /\ chargedAt[p] # NoTime =>
          startedAt'[p] = startedAt[p] /\ expiresAt'[p] = expiresAt[p] /\ expiresAt[p] <= now

RevivedOnlyByStaleActivation ==
  [][\A p \in Payments :
       subStatus[p] # "NONE" /\ subStatus'[p] # subStatus[p] => Moves(p)]_vars

LEMMA LegalMoves == Reachable("PENDING", "ACTIVE") /\ Reachable("ACTIVE", "EXPIRED")
<1>1. /\ CanTransition("PENDING", "CONFIRM_PAYMENT")
      /\ Transition("PENDING", "CONFIRM_PAYMENT") = "ACTIVE"
  BY StateMachineFacts DEF SUBSCRIPTION_STATES
<1>2. CanTransition("ACTIVE", "EXPIRE") /\ Transition("ACTIVE", "EXPIRE") = "EXPIRED"
  BY StateMachineFacts DEF CanTransition, TRANSITIONS
<1>3. "CONFIRM_PAYMENT" \in SUBSCRIPTION_EVENTS /\ "EXPIRE" \in SUBSCRIPTION_EVENTS
  BY DEF SUBSCRIPTION_EVENTS
<1>4. QED
  BY <1>1, <1>2, <1>3 DEF Reachable

\* An activation, of a subscription that is pending, active or expired.
LEMMA ActivationMoves ==
  ASSUME IInv, NEW r \in Requests, Activate(r), NEW p \in Payments,
         subStatus'[p] # subStatus[p]
  PROVE  Moves(p)
<1>1. /\ req[r].pc = "activate" /\ req[r].on \in Payments
      /\ payStatus[req[r].on] = "SUCCESS"
      /\ chargedAt[req[r].on] # NoTime => req[r].at = chargedAt[req[r].on]
  BY DEF IInv, RequestInv, RequestFacts, Activate, AfterClaim
<1>2. p = req[r].on /\ subStatus'[p] = "ACTIVE"
  BY <1>1, StateMachineFacts DEF Activate, IInv, TypeOK
<1>3. subStatus[p] \in {"PENDING", "EXPIRED"}
  BY <1>1, <1>2 DEF IInv, RowsInv, Entitled
<1>4. CASE subStatus[p] = "PENDING"
  BY <1>2, <1>4, LegalMoves DEF Moves
<1>5. CASE subStatus[p] = "EXPIRED"
  <2>1. ASSUME chargedAt[p] # NoTime
        PROVE  startedAt'[p] = startedAt[p] /\ expiresAt'[p] = expiresAt[p] /\ expiresAt[p] <= now
    <3>1. /\ startedAt'[p] = chargedAt[p]
          /\ expiresAt'[p] = chargedAt[p] + ValidityDays
      BY <1>1, <1>2, <2>1 DEF Activate, ComputeExpiresAt, IInv, TypeOK
    <3>2. /\ startedAt[p] = chargedAt[p] /\ expiresAt[p] = chargedAt[p] + ValidityDays
          /\ expiresAt[p] <= now
      BY <1>5, <2>1 DEF IInv, Safety, PaidPeriodIsKept, Entitled
    <3>3. QED
      BY <3>1, <3>2
  <2>2. QED
    BY <1>1, <1>2, <1>5, <2>1 DEF Moves
<1>6. QED
  BY <1>3, <1>4, <1>5

LEMMA StatusMoves ==
  ASSUME IInv, [Next]_vars, NEW p \in Payments,
         subStatus[p] # "NONE", subStatus'[p] # subStatus[p]
  PROVE  Moves(p)
<1>1. ASSUME ExpireSubscriptions PROVE Moves(p)
  BY <1>1, LegalMoves DEF ExpireSubscriptions, Overdue, Moves
<1>2. ASSUME NEW q \in Payments, AuthorizeExpires(q) PROVE Moves(p)
  <2>1. p = q /\ subStatus'[p] = "EXPIRED"
    BY <1>2, StateMachineFacts DEF AuthorizeExpires, IInv, TypeOK
  <2>2. subStatus[p] = "ACTIVE"
    BY <1>2, <2>1 DEF AuthorizeExpires, IInv, ExpiryInv, Entitled
  <2>3. QED
    BY <2>1, <2>2, LegalMoves DEF Moves
<1>3. ASSUME NEW q \in Payments, AssignPlan(q) PROVE FALSE
  <2>1. subStatus[q] = "NONE"
    BY <1>3 DEF AssignPlan, IInv, RowsInv
  <2>2. QED
    BY <1>3, <2>1 DEF AssignPlan, IInv, TypeOK
<1>4. ASSUME NEW r \in Requests, Activate(r) PROVE Moves(p)
  BY <1>4, ActivationMoves
<1>5. ASSUME UNCHANGED subStatus PROVE FALSE
  BY <1>5
<1>6. QED
  BY <1>1, <1>2, <1>3, <1>4, <1>5
  DEF Next, CheckoutStep, RequestStep, vars, bookVars, Tick, CheckPlan, OpenAtProvider,
      CreatePayment, CheckoutDies, CustomerPays, AttemptDeclined, ChargeFailedReceived,
      AuthorizeFindsOverdue, WebhookReceives, CallbackReceives, Start, Verify, Snapshot,
      Claim, LookUp, Commission, Notify, SendSms, RequestThrows, RequestDies, Requests

\* The state machine is left only by a stale activation, which moves no date of a dated
\* payment (activateSubscription writes by id after its check).
THEOREM MovesOfStatus == Spec => RevivedOnlyByStaleActivation
<1>1. IInv /\ [Next]_vars =>
        [\A p \in Payments :
           subStatus[p] # "NONE" /\ subStatus'[p] # subStatus[p] => Moves(p)]_vars
  BY StatusMoves
<1>2. QED
  BY <1>1, Invariance, PTL DEF Spec, RevivedOnlyByStaleActivation

-----------------------------------------------------------------------------
(* Refinement of the ledger.                                               *)

\* What Order depends on.
LEMMA OrderFrame ==
  ASSUME UNCHANGED <<subStatus, payStatus>>
  PROVE  Order' = Order
  BY DEF Order

LEMMA LedgerInit == Init => Ledger!Init
  BY DEF Init, Ledger!Init, Order, Entitled

LEMMA LedgerStep ==
  ASSUME IInv, IInv', [Next]_vars
  PROVE  [Ledger!Next]_<<Order, credits>>
<1> USE DEF Requests, bookVars, paidOutVars, providerVars, faultVars
<1>1. ASSUME UNCHANGED <<subStatus, payStatus, credits>>
      PROVE  UNCHANGED <<Order, credits>>
  BY <1>1, OrderFrame
<1>2. ASSUME NEW p \in Payments, UNCHANGED credits,
             \A q \in Payments \ {p} :
               payStatus'[q] = payStatus[q] /\ subStatus'[q] = subStatus[q]
      PROVE  Order' = [Order EXCEPT ![p] = Order'[p]]
  BY <1>2 DEF Order
<1>3. ASSUME NEW p \in Payments, CreatePayment(p)
      PROVE  Ledger!Move(p, "none", "open")
  <2>1. Order[p] = "none" /\ Order'[p] = "open"
    BY <1>3 DEF CreatePayment, Order, IInv, TypeOK, RowsInv, Entitled
  <2>2. QED
    BY <1>2, <1>3, <2>1 DEF CreatePayment, Ledger!Move, IInv, TypeOK
<1>4. ASSUME NEW p \in Payments, AssignPlan(p)
      PROVE  UNCHANGED <<Order, credits>>
  BY <1>4 DEF AssignPlan, Order, IInv, TypeOK, RowsInv, Entitled
<1>5. ASSUME NEW p \in Payments, ChargeFailedReceived(p)
      PROVE  Ledger!Move(p, "open", "refused")
  <2>1. Order[p] = "open" /\ Order'[p] = "refused"
    BY <1>5 DEF ChargeFailedReceived, Order, IInv, TypeOK, RowsInv, Entitled
  <2>2. QED
    BY <1>2, <1>5, <2>1 DEF ChargeFailedReceived, Ledger!Move, IInv, TypeOK
<1>6. ASSUME NEW r \in Requests, Claim(r), payStatus[req[r].on] = "PENDING"
      PROVE  Ledger!Move(req[r].on, "open", "settled")
  <2>1. req[r].on \in Payments
    BY <1>6 DEF IInv, RequestInv, RequestFacts, Claim
  <2>2. Order[req[r].on] = "open" /\ Order'[req[r].on] = "settled"
    BY <1>6, <2>1 DEF Claim, Order, IInv, TypeOK, RowsInv, Entitled
  <2>3. QED
    BY <1>2, <1>6, <2>1, <2>2 DEF Claim, Ledger!Move, IInv, TypeOK
<1>7. ASSUME NEW r \in Requests, Activate(r)
      PROVE  \/ Ledger!Move(req[r].on, "settled", "entitled")
             \/ UNCHANGED <<Order, credits>>
  <2>1. req[r].on \in Payments /\ payStatus[req[r].on] = "SUCCESS"
    BY <1>7 DEF IInv, RequestInv, RequestFacts, Activate, AfterClaim
  <2>2. Order[req[r].on] \in {"settled", "entitled"}
    BY <2>1 DEF Order, Entitled
  <2>3. Order'[req[r].on] = "entitled"
    BY <1>7, <2>1, StateMachineFacts DEF Activate, Order, IInv, TypeOK, Entitled
  <2>4. Order' = [Order EXCEPT ![req[r].on] = Order'[req[r].on]] /\ UNCHANGED credits
    BY <1>2, <1>7, <2>1 DEF Activate, IInv, TypeOK
  <2>5. QED
    BY <2>1, <2>2, <2>3, <2>4 DEF Ledger!Move, Order
<1>8. ASSUME NEW r \in Requests, Commission(r)
      PROVE  Ledger!Credit(req[r].on)
  <2>1. /\ req[r].on \in Payments /\ Won(r)
        /\ subStatus[req[r].on] \in Entitled
    BY <1>8 DEF IInv, RequestInv, RequestFacts, Commission, AfterClaim, PayingOut, Won
  <2>2. credits[req[r].on] = 0
    BY <1>8, <2>1 DEF IInv, WinnerInv, Commission
  <2>3. Order[req[r].on] = "entitled"
    BY <2>1 DEF Order
  <2>4. QED
    BY <1>8, <2>1, <2>2, <2>3, OrderFrame
    DEF Commission, Ledger!Credit, IInv, TypeOK
<1>9. ASSUME ExpireSubscriptions PROVE UNCHANGED <<Order, credits>>
  BY <1>9 DEF ExpireSubscriptions, Overdue, Order, IInv, TypeOK, Entitled
<1>10. ASSUME NEW p \in Payments, AuthorizeExpires(p)
       PROVE  UNCHANGED <<Order, credits>>
  BY <1>10, StateMachineFacts
  DEF AuthorizeExpires, Order, IInv, ExpiryInv, TypeOK, Entitled
<1>11. ASSUME NEW r \in Requests, Claim(r), payStatus[req[r].on] # "PENDING"
       PROVE  UNCHANGED <<subStatus, payStatus, credits>>
  BY <1>11 DEF Claim
<1>12. ASSUME UNCHANGED <<payStatus, subStatus, credits>>
              \/ Ledger!Next
              \/ UNCHANGED <<Order, credits>>
       PROVE  [Ledger!Next]_<<Order, credits>>
  BY <1>1, <1>12
<1>13. ASSUME NEW r \in Requests, RequestStep(r) \/ RequestThrows(r) \/ RequestDies(r)
       PROVE  [Ledger!Next]_<<Order, credits>>
  <2>1. req[r].on \in Payments
    BY <1>13 DEF IInv, RequestInv, RequestFacts, RequestStep, Verify, Snapshot, Claim,
       LookUp, Activate, Commission, Notify, SendSms, RequestThrows, RequestDies
  <2>2. CASE Claim(r) \/ Activate(r) \/ Commission(r)
    BY <1>6, <1>7, <1>8, <1>11, <1>12, <2>1, <2>2 DEF Ledger!Next
  <2>3. CASE ~(Claim(r) \/ Activate(r) \/ Commission(r))
    BY <1>12, <1>13, <2>3
    DEF RequestStep, Verify, Snapshot, LookUp, Notify, SendSms, RequestThrows, RequestDies
  <2>4. QED
    BY <2>2, <2>3
<1>14. ASSUME NEW p \in Payments,
              \/ CheckoutStep(p) \/ CheckoutDies(p) \/ CustomerPays(p)
              \/ AttemptDeclined(p) \/ ChargeFailedReceived(p)
              \/ AuthorizeFindsOverdue(p) \/ AuthorizeExpires(p)
              \/ \E r \in Requests : Start(r, p)
       PROVE  [Ledger!Next]_<<Order, credits>>
  <2>1. CASE CreatePayment(p) \/ AssignPlan(p) \/ ChargeFailedReceived(p)
             \/ AuthorizeExpires(p)
    BY <1>3, <1>4, <1>5, <1>10, <1>12, <2>1 DEF Ledger!Next
  <2>2. CASE ~(CreatePayment(p) \/ AssignPlan(p) \/ ChargeFailedReceived(p)
               \/ AuthorizeExpires(p))
    BY <1>12, <1>14, <2>2
    DEF CheckoutStep, CheckPlan, OpenAtProvider, CheckoutDies, CustomerPays,
        AttemptDeclined, AuthorizeFindsOverdue, Start
  <2>3. QED
    BY <2>1, <2>2
<1>15. CASE Tick \/ ExpireSubscriptions \/ UNCHANGED vars
  BY <1>9, <1>12, <1>15 DEF Tick, vars
<1>16. QED
  BY <1>13, <1>14, <1>15 DEF Next, WebhookReceives, CallbackReceives

\* Settlement implements the ledger: whatever the interleaving, each payment
\* is opened once, settled or refused but not both, entitled only once
\* settled, and credited to its reseller at most once.
THEOREM ImplementsLedger == Spec => LedgerSpec
<1>1. Init => Ledger!Init
  BY LedgerInit
<1>2. IInv /\ IInv' /\ [Next]_vars => [Ledger!Next]_<<Order, credits>>
  BY LedgerStep
<1>3. QED
  BY <1>1, <1>2, Invariance, PTL DEF Spec, LedgerSpec, Ledger!Spec
=============================================================================
