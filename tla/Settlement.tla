----------------------------- MODULE Settlement -----------------------------
(***************************************************************************)
(* Paystack checkout and settlement.  A checkout opens a provider          *)
(* transaction, then a pending subscription, then the payment row.  Signed *)
(* webhooks and browser callbacks, delivered any number of times and       *)
(* executed concurrently, verify the transaction and settle it: they claim *)
(* the payment, activate its subscription, and send commission and         *)
(* receipts.  Every await between two database calls is a point where      *)
(* another request, an expiry writer, an exception or a crash may step in. *)
(* Payments, subscriptions and checkouts are named by the payment: each    *)
(* checkout creates exactly one subscription and links it to its payment.  *)
(***************************************************************************)
EXTENDS Integers, SubscriptionStates

CONSTANTS
  Payments,        \* checkouts, each with its internal reference
  Webhooks,        \* webhook requests that may execute at the same time
  Callbacks,       \* browser callbacks that may execute at the same time
  ResellerSales,   \* payments created with a reseller_id
  ValidityDays,    \* validity of the plan sold
  MaxTime,         \* bound on the clock
  MaxCrashes,      \* bound on requests lost to a process crash
  MaxFailures,     \* bound on requests ended by an exception of a step
  NoPayment,       \* the payment of an idle request
  NoTime           \* a null timestamp

Requests == Webhooks \union Callbacks

ASSUME ConstantsAssumption ==
  /\ ResellerSales \subseteq Payments
  /\ ValidityDays \in Nat \ {0}
  /\ MaxTime \in Nat /\ MaxCrashes \in Nat /\ MaxFailures \in Nat
  /\ NoPayment \notin Payments
  /\ NoTime \notin Int

VARIABLES
  now,          \* the clock, in days
  checkout,     \* progress of each initializePaystackPayment call
  charge,       \* the provider's record of each transaction
  chargedAt,    \* its paid_at, which the provider may leave null
  declined,     \* transactions with a charge.failed event
  payStatus,    \* Payment.status ("NONE" before the row exists)
  paidAt,       \* Payment.paid_at
  subStatus,    \* Subscription.status ("NONE" before the row exists)
  startedAt,    \* Subscription.started_at
  expiresAt,    \* Subscription.expires_at
  expiring,     \* subscriptions RADIUS read as overdue and is about to expire
  req,          \* each executing request: program counter and local variables
  credits,      \* commissions credited to the reseller's wallet
  inApp,        \* in-app success notices
  sms,          \* SMS receipts
  acked,        \* charge.success events answered with HTTP 200
  hit,          \* payments one of whose requests died or threw
  crashes, failures

bookVars == <<payStatus, paidAt, subStatus, startedAt, expiresAt>>
paidOutVars == <<credits, inApp, sms>>
providerVars == <<charge, chargedAt, declined>>
faultVars == <<hit, crashes, failures>>
vars == <<now, checkout, providerVars, bookVars, expiring, req, paidOutVars,
          acked, faultVars>>

PayStates == {"NONE", "PENDING", "SUCCESS", "FAILED"}
SubStates == SUBSCRIPTION_STATES \union {"NONE"}
Times == 0..MaxTime
Steps == {"idle", "verify", "snapshot", "claim", "lookup", "activate",
          "commission", "notify", "sms"}
Entitled == {"ACTIVE", "EXPIRED"}

Idle == [pc |-> "idle", on |-> NoPayment, at |-> NoTime,
         seenPay |-> "NONE", seenSub |-> "NONE"]

Init ==
  /\ now = 0
  /\ checkout = [p \in Payments |-> "new"]
  /\ charge = [p \in Payments |-> "unpaid"]
  /\ chargedAt = [p \in Payments |-> NoTime]
  /\ declined = {}
  /\ payStatus = [p \in Payments |-> "NONE"]
  /\ paidAt = [p \in Payments |-> NoTime]
  /\ subStatus = [p \in Payments |-> "NONE"]
  /\ startedAt = [p \in Payments |-> NoTime]
  /\ expiresAt = [p \in Payments |-> NoTime]
  /\ expiring = {}
  /\ req = [r \in Requests |-> Idle]
  /\ credits = [p \in Payments |-> 0]
  /\ inApp = [p \in Payments |-> 0]
  /\ sms = [p \in Payments |-> 0]
  /\ acked = {}
  /\ hit = {} /\ crashes = 0 /\ failures = 0

-----------------------------------------------------------------------------
(* Checkout: initializePaystackPayment.                                    *)

\* The plan, customer and currency checks pass, or the call is refused.
CheckPlan(p) ==
  /\ checkout[p] = "new"
  /\ \E next \in {"checked", "refused"} :
       checkout' = [checkout EXCEPT ![p] = next]
  /\ UNCHANGED <<now, providerVars, bookVars, expiring, req, paidOutVars,
                 acked, faultVars>>

\* Mutant: the subscription is created before the provider is asked.
SubscribeThenOpen(p) ==
  /\ checkout[p] = "checked"
  /\ \E next \in {"opened", "refused"} :
       checkout' = [checkout EXCEPT ![p] = next]
  /\ subStatus' = [subStatus EXCEPT ![p] = "PENDING"]
  /\ UNCHANGED <<now, providerVars, payStatus, paidAt, startedAt, expiresAt,
                 expiring, req, paidOutVars, acked, faultVars>>

\* The provider opens the transaction, or fails and the call throws.
OpenAtProvider(p) ==
  /\ checkout[p] = "checked"
  /\ \E next \in {"opened", "refused"} :
       checkout' = [checkout EXCEPT ![p] = next]
  /\ UNCHANGED <<now, providerVars, bookVars, expiring, req, paidOutVars,
                 acked, faultVars>>

\* assignPlanToSubscriber reads the plan again: it creates the pending
\* subscription, or throws because the plan was deactivated meanwhile.
AssignPlan(p) ==
  /\ checkout[p] = "opened"
  /\ \/ /\ checkout' = [checkout EXCEPT ![p] = "assigned"]
        /\ subStatus' = [subStatus EXCEPT ![p] = "PENDING"]
        /\ startedAt' = [startedAt EXCEPT ![p] = now]
        /\ expiresAt' =
             [expiresAt EXCEPT ![p] = ComputeExpiresAt(now, ValidityDays)]
     \/ /\ checkout' = [checkout EXCEPT ![p] = "refused"]
        /\ UNCHANGED <<subStatus, startedAt, expiresAt>>
  /\ UNCHANGED <<now, providerVars, payStatus, paidAt, expiring, req,
                 paidOutVars, acked, faultVars>>

\* The payment row; only now is the customer sent to the provider.
CreatePayment(p) ==
  /\ checkout[p] = "assigned"
  /\ checkout' = [checkout EXCEPT ![p] = "ready"]
  /\ payStatus' = [payStatus EXCEPT ![p] = "PENDING"]
  /\ UNCHANGED <<now, providerVars, paidAt, subStatus, startedAt, expiresAt,
                 expiring, req, paidOutVars, acked, faultVars>>

\* The process dies, or a database write fails, between two of these steps.
CheckoutDies(p) ==
  /\ checkout[p] \in {"opened", "assigned"}
  /\ crashes < MaxCrashes
  /\ checkout' = [checkout EXCEPT ![p] = "dead"]
  /\ crashes' = crashes + 1
  /\ UNCHANGED <<now, providerVars, bookVars, expiring, req, paidOutVars,
                 acked, hit, failures>>

-----------------------------------------------------------------------------
(* The provider and the clock.                                             *)

\* The customer pays, the expected amount and currency or another; the
\* provider records when, or leaves the time null.
CustomerPays(p) ==
  /\ checkout[p] = "ready"
  /\ charge[p] = "unpaid"
  /\ \E outcome \in {"paid", "mispaid"}, t \in {now, NoTime} :
       /\ charge' = [charge EXCEPT ![p] = outcome]
       /\ chargedAt' = [chargedAt EXCEPT ![p] = t]
  /\ UNCHANGED <<now, checkout, declined, bookVars, expiring, req,
                 paidOutVars, acked, faultVars>>

\* An attempt under the same reference is declined; the customer may retry.
AttemptDeclined(p) ==
  /\ checkout[p] = "ready"
  /\ charge[p] = "unpaid"
  /\ p \notin declined
  /\ declined' = declined \union {p}
  /\ UNCHANGED <<now, checkout, charge, chargedAt, bookVars, expiring, req,
                 paidOutVars, acked, faultVars>>

Tick ==
  /\ now < MaxTime
  /\ now' = now + 1
  /\ UNCHANGED <<checkout, providerVars, bookVars, expiring, req,
                 paidOutVars, acked, faultVars>>

-----------------------------------------------------------------------------
(* Settlement: the webhook and callback handlers and settlePaystackPayment. *)

\* The request ends with an answer; a webhook always answers 200.
Finish(r) ==
  /\ req' = [req EXCEPT ![r] = Idle]
  /\ acked' = IF r \in Webhooks THEN acked \union {req[r].on} ELSE acked

Proceed(r, step) ==
  /\ req' = [req EXCEPT ![r].pc = step]
  /\ UNCHANGED acked

Start(r, p) ==
  /\ req[r].pc = "idle"
  /\ payStatus[p] # "NONE"
  /\ req' = [req EXCEPT ![r] = [Idle EXCEPT !.pc = "verify", !.on = p]]
  /\ UNCHANGED <<now, checkout, providerVars, bookVars, expiring,
                 paidOutVars, acked, faultVars>>

\* A signed charge.success, new or repeated.
WebhookReceives(w, p) == charge[p] # "unpaid" /\ Start(w, p)

\* The customer's browser returns, with or without having paid.
CallbackReceives(c, p) == Start(c, p)

\* Mutant: a transaction the provider has not dated is not trusted.
VerifyDated(r) ==
  LET p == req[r].on IN
  /\ req[r].pc = "verify"
  /\ IF chargedAt[p] = NoTime
     THEN Finish(r)
     ELSE /\ req' = [req EXCEPT ![r].pc = "snapshot", ![r].at = chargedAt[p]]
          /\ UNCHANGED acked
  /\ UNCHANGED <<now, checkout, providerVars, bookVars, expiring,
                 paidOutVars, faultVars>>

\* verifyTransaction throws unless the provider reports success.
Verify(r) ==
  LET p == req[r].on IN
  /\ req[r].pc = "verify"
  /\ \/ /\ charge[p] = "unpaid"
        /\ Finish(r)
     \/ /\ charge[p] # "unpaid"
        /\ req' = [req EXCEPT
             ![r].pc = "snapshot",
             ![r].at = IF chargedAt[p] = NoTime THEN now ELSE chargedAt[p]]
        /\ UNCHANGED acked
  /\ UNCHANGED <<now, checkout, providerVars, bookVars, expiring,
                 paidOutVars, faultVars>>

\* A wrong amount or a failed payment throws.
Unsettleable(p) == charge[p] = "mispaid" \/ payStatus[p] = "FAILED"

\* Mutant: a successful payment is taken for a finished one.
PaymentAlreadySettled(p) == payStatus[p] = "SUCCESS"

AlreadySettled(p) == payStatus[p] = "SUCCESS" /\ subStatus[p] # "PENDING"

\* The one read of the payment and of its subscription's status.
Snapshot(r) ==
  LET p == req[r].on IN
  /\ req[r].pc = "snapshot"
  /\ \/ /\ ~Unsettleable(p) /\ ~AlreadySettled(p)
        /\ req' = [req EXCEPT
             ![r].pc = IF payStatus[p] = "PENDING" THEN "claim" ELSE "lookup",
             ![r].seenPay = payStatus[p],
             ![r].seenSub = subStatus[p]]
        /\ UNCHANGED acked
     \/ /\ Unsettleable(p) \/ AlreadySettled(p)
        /\ Finish(r)
  /\ UNCHANGED <<now, checkout, providerVars, bookVars, expiring,
                 paidOutVars, faultVars>>

\* What follows a settlement that was not already settled.
FirstAfterSettlement(r) ==
  IF r \in Callbacks THEN "sms"
  ELSE IF req[r].on \in ResellerSales THEN "commission" ELSE "notify"

\* Mutant: the claim updates by id, without the status condition.
ClaimAnyStatus(r) ==
  LET p == req[r].on IN
  /\ req[r].pc = "claim"
  /\ payStatus' = [payStatus EXCEPT ![p] = "SUCCESS"]
  /\ paidAt' = [paidAt EXCEPT ![p] = req[r].at]
  /\ Proceed(r, "lookup")
  /\ UNCHANGED <<now, checkout, providerVars, subStatus, startedAt, expiresAt,
                 expiring, paidOutVars, faultVars>>

\* The conditional update that claims the payment; the loser returns.
Claim(r) ==
  LET p == req[r].on IN
  /\ req[r].pc = "claim"
  /\ \/ /\ payStatus[p] = "PENDING"
        /\ payStatus' = [payStatus EXCEPT ![p] = "SUCCESS"]
        /\ paidAt' = [paidAt EXCEPT ![p] = req[r].at]
        /\ Proceed(r, IF req[r].seenSub = "PENDING"
                      THEN "lookup" ELSE FirstAfterSettlement(r))
     \/ /\ payStatus[p] # "PENDING"
        /\ Finish(r)
        /\ UNCHANGED <<payStatus, paidAt>>
  /\ UNCHANGED <<now, checkout, providerVars, subStatus, startedAt, expiresAt,
                 expiring, paidOutVars, faultVars>>

\* Mutant: a subscription whose provisional period is over is refused.
LookUpUnexpired(r) ==
  LET live == expiresAt[req[r].on] > now IN
  /\ req[r].pc = "lookup"
  /\ IF live /\ CanTransition(subStatus[req[r].on], "CONFIRM_PAYMENT")
     THEN Proceed(r, "activate")
     ELSE Finish(r)
  /\ UNCHANGED <<now, checkout, providerVars, bookVars, expiring,
                 paidOutVars, faultVars>>

\* activateSubscription reads the status and throws unless it is PENDING.
LookUp(r) ==
  /\ req[r].pc = "lookup"
  /\ \/ /\ CanTransition(subStatus[req[r].on], "CONFIRM_PAYMENT")
        /\ Proceed(r, "activate")
     \/ /\ ~CanTransition(subStatus[req[r].on], "CONFIRM_PAYMENT")
        /\ Finish(r)
  /\ UNCHANGED <<now, checkout, providerVars, bookVars, expiring,
                 paidOutVars, faultVars>>

\* Mutant: the period starts when the activation runs.
ActivateFromNow(r) ==
  LET p == req[r].on IN
  /\ req[r].pc = "activate"
  /\ subStatus' = [subStatus EXCEPT ![p] = "ACTIVE"]
  /\ startedAt' = [startedAt EXCEPT ![p] = now]
  /\ expiresAt' = [expiresAt EXCEPT ![p] = ComputeExpiresAt(now, ValidityDays)]
  /\ IF req[r].seenPay = "SUCCESS"
     THEN Finish(r)
     ELSE Proceed(r, FirstAfterSettlement(r))
  /\ UNCHANGED <<now, checkout, providerVars, payStatus, paidAt, expiring,
                 paidOutVars, faultVars>>

\* ... and then writes by id, whatever the status has become.
Activate(r) ==
  LET p == req[r].on IN
  /\ req[r].pc = "activate"
  /\ subStatus' = [subStatus EXCEPT
                     ![p] = Transition("PENDING", "CONFIRM_PAYMENT")]
  /\ startedAt' = [startedAt EXCEPT ![p] = req[r].at]
  /\ expiresAt' = [expiresAt EXCEPT
                     ![p] = ComputeExpiresAt(req[r].at, ValidityDays)]
  /\ IF req[r].seenPay = "SUCCESS"
     THEN Finish(r)
     ELSE Proceed(r, FirstAfterSettlement(r))
  /\ UNCHANGED <<now, checkout, providerVars, payStatus, paidAt, expiring,
                 paidOutVars, faultVars>>

\* processResellerCommission: an atomic increment of the wallet.
Commission(r) ==
  /\ req[r].pc = "commission"
  /\ credits' = [credits EXCEPT ![req[r].on] = @ + 1]
  /\ Proceed(r, "notify")
  /\ UNCHANGED <<now, checkout, providerVars, bookVars, expiring, inApp, sms,
                 faultVars>>

Notify(r) ==
  /\ req[r].pc = "notify"
  /\ inApp' = [inApp EXCEPT ![req[r].on] = @ + 1]
  /\ Proceed(r, "sms")
  /\ UNCHANGED <<now, checkout, providerVars, bookVars, expiring, credits, sms,
                 faultVars>>

SendSms(r) ==
  /\ req[r].pc = "sms"
  /\ sms' = [sms EXCEPT ![req[r].on] = @ + 1]
  /\ Finish(r)
  /\ UNCHANGED <<now, checkout, providerVars, bookVars, expiring, credits,
                 inApp, faultVars>>

\* Mutant: the failure is written whatever the status.
FailAnyStatus(p) ==
  /\ p \in declined
  /\ payStatus' = [payStatus EXCEPT ![p] = "FAILED"]
  /\ UNCHANGED <<now, checkout, providerVars, paidAt, subStatus, startedAt,
                 expiresAt, expiring, req, paidOutVars, acked, faultVars>>

\* charge.failed: fails a payment that is still pending.
ChargeFailedReceived(p) ==
  /\ p \in declined
  /\ payStatus[p] = "PENDING"
  /\ payStatus' = [payStatus EXCEPT ![p] = "FAILED"]
  /\ UNCHANGED <<now, checkout, providerVars, paidAt, subStatus, startedAt,
                 expiresAt, expiring, req, paidOutVars, acked, faultVars>>

\* A step throws: the webhook logs it and still answers 200, the callback
\* redirects to the error page.
RequestThrows(r) ==
  /\ req[r].pc # "idle"
  /\ failures < MaxFailures
  /\ failures' = failures + 1
  /\ hit' = hit \union {req[r].on}
  /\ Finish(r)
  /\ UNCHANGED <<now, checkout, providerVars, bookVars, expiring,
                 paidOutVars, crashes>>

\* The process executing the request dies: no answer, so the provider repeats.
RequestDies(r) ==
  /\ req[r].pc # "idle"
  /\ crashes < MaxCrashes
  /\ crashes' = crashes + 1
  /\ hit' = hit \union {req[r].on}
  /\ req' = [req EXCEPT ![r] = Idle]
  /\ UNCHANGED <<now, checkout, providerVars, bookVars, expiring,
                 paidOutVars, acked, failures>>

-----------------------------------------------------------------------------
(* Expiry, by the conditional update of the customer page and the reminder *)
(* job, and by RADIUS authorization, which reads and then writes by id.    *)

Overdue(p) == subStatus[p] = "ACTIVE" /\ expiresAt[p] <= now

ExpireSubscriptions ==
  /\ \E p \in Payments : Overdue(p)
  /\ subStatus' = [p \in Payments |->
                     IF Overdue(p) THEN "EXPIRED" ELSE subStatus[p]]
  /\ UNCHANGED <<now, checkout, providerVars, payStatus, paidAt, startedAt,
                 expiresAt, expiring, req, paidOutVars, acked, faultVars>>

AuthorizeFindsOverdue(p) ==
  /\ Overdue(p)
  /\ expiring' = expiring \union {p}
  /\ UNCHANGED <<now, checkout, providerVars, bookVars, req, paidOutVars,
                 acked, faultVars>>

AuthorizeExpires(p) ==
  /\ p \in expiring
  /\ expiring' = expiring \ {p}
  /\ subStatus' = [subStatus EXCEPT ![p] = Transition("ACTIVE", "EXPIRE")]
  /\ UNCHANGED <<now, checkout, providerVars, payStatus, paidAt, startedAt,
                 expiresAt, req, paidOutVars, acked, faultVars>>

-----------------------------------------------------------------------------

CheckoutStep(p) ==
  \/ CheckPlan(p)
  \/ OpenAtProvider(p)
  \/ AssignPlan(p)
  \/ CreatePayment(p)

RequestStep(r) ==
  \/ Verify(r)
  \/ Snapshot(r)
  \/ Claim(r)
  \/ LookUp(r)
  \/ Activate(r)
  \/ Commission(r)
  \/ Notify(r)
  \/ SendSms(r)

Next ==
  \/ Tick
  \/ ExpireSubscriptions
  \/ \E p \in Payments :
       \/ CheckoutStep(p)
       \/ CheckoutDies(p)
       \/ CustomerPays(p)
       \/ AttemptDeclined(p)
       \/ ChargeFailedReceived(p)
       \/ AuthorizeFindsOverdue(p)
       \/ AuthorizeExpires(p)
       \/ \E w \in Webhooks : WebhookReceives(w, p)
       \/ \E c \in Callbacks : CallbackReceives(c, p)
  \/ \E r \in Requests :
       \/ RequestStep(r)
       \/ RequestThrows(r)
       \/ RequestDies(r)

Spec == Init /\ [][Next]_vars

\* The provider repeats a charge.success until it is answered, and a running
\* server executes the requests it has accepted.
Redeliver(p) == p \notin acked /\ \E w \in Webhooks : WebhookReceives(w, p)

FairSpec ==
  /\ Spec
  /\ \A r \in Requests : WF_vars(RequestStep(r))
  /\ \A p \in Payments : SF_vars(Redeliver(p))

-----------------------------------------------------------------------------

TypeOK ==
  /\ now \in Times
  /\ checkout \in [Payments -> {"new", "checked", "opened", "assigned",
                                "ready", "refused", "dead"}]
  /\ charge \in [Payments -> {"unpaid", "paid", "mispaid"}]
  /\ chargedAt \in [Payments -> Times \union {NoTime}]
  /\ declined \subseteq Payments
  /\ payStatus \in [Payments -> PayStates]
  /\ paidAt \in [Payments -> Times \union {NoTime}]
  /\ subStatus \in [Payments -> SubStates]
  /\ startedAt \in [Payments -> Times \union {NoTime}]
  /\ expiresAt \in [Payments -> Nat \union {NoTime}]
  /\ expiring \subseteq Payments
  /\ req \in [Requests -> [pc : Steps, on : Payments \union {NoPayment},
                           at : Times \union {NoTime},
                           seenPay : PayStates, seenSub : SubStates]]
  /\ credits \in [Payments -> Nat]
  /\ inApp \in [Payments -> Nat]
  /\ sms \in [Payments -> Nat]
  /\ acked \subseteq Payments
  /\ hit \subseteq Payments
  /\ crashes \in 0..MaxCrashes /\ failures \in 0..MaxFailures

\* A customer is entitled only by a charge the provider confirmed for the
\* billed amount, recorded as a successful payment, however webhooks,
\* callbacks and charge.failed events interleave.
EntitledOnlyIfPaid ==
  \A p \in Payments :
    subStatus[p] \in Entitled => payStatus[p] = "SUCCESS" /\ charge[p] = "paid"

\* However often a transaction is delivered, its customer gets one in-app
\* notice and one SMS at most, its reseller one commission at most, and none
\* of them before the package they announce is really activated.
PaidOutOnceAfterActivation ==
  \A p \in Payments :
    /\ inApp[p] <= 1 /\ sms[p] <= 1 /\ credits[p] <= 1
    /\ inApp[p] + sms[p] + credits[p] > 0 => subStatus[p] \in Entitled

\* A payment recorded as successful whose subscription is still pending has
\* a request that is activating it, unless one of its requests died or threw:
\* the loser of the claim may leave because the winner will finish.
StrandedOnlyByFault ==
  \A p \in Payments :
    payStatus[p] = "SUCCESS" /\ subStatus[p] = "PENDING" =>
      \/ p \in hit
      \/ \E r \in Requests :
           req[r].on = p /\ req[r].pc \in {"lookup", "activate"}

\* When the provider dates the payment, the customer gets exactly the period
\* that starts then, even if two requests activate the same subscription, and
\* no expiry writer ends it early.
PaidPeriodIsKept ==
  \A p \in Payments :
    subStatus[p] \in Entitled /\ chargedAt[p] # NoTime =>
      /\ startedAt[p] = chargedAt[p]
      /\ expiresAt[p] = chargedAt[p] + ValidityDays
      /\ subStatus[p] = "EXPIRED" => expiresAt[p] <= now

\* A provider failure or a refused plan leaves no pending subscription
\* without its payment (only a crash of the checkout itself can), and a
\* customer who could pay always has the payment row to settle.
NoOrphanSubscription ==
  \A p \in Payments :
    /\ subStatus[p] # "NONE" /\ payStatus[p] = "NONE" =>
         checkout[p] \in {"assigned", "dead"}
    /\ charge[p] # "unpaid" => payStatus[p] # "NONE" /\ subStatus[p] # "NONE"

\* The code implements the ledger: opened, refused and settled exclusively,
\* entitled for good, at most one commission.
Order ==
  [p \in Payments |->
     CASE subStatus[p] \in Entitled -> "entitled"
       [] payStatus[p] = "SUCCESS" /\ subStatus[p] \notin Entitled -> "settled"
       [] payStatus[p] = "FAILED" /\ subStatus[p] \notin Entitled -> "refused"
       [] payStatus[p] = "PENDING" /\ subStatus[p] \notin Entitled -> "open"
       [] OTHER -> "none"]

Ledger == INSTANCE PaymentLedger WITH order <- Order

LedgerSpec == Ledger!Spec

\* Every charge for the billed amount entitles its customer, unless a
\* charge.failed event had already failed the payment.
PaidIsEntitled ==
  \A p \in Payments :
    charge[p] = "paid" ~> subStatus[p] \in Entitled \/ payStatus[p] = "FAILED"

\* Every payment recorded as successful ends up with its subscription
\* activated: a retry finishes what an earlier delivery left.
SettledIsEntitled ==
  \A p \in Payments : payStatus[p] = "SUCCESS" ~> subStatus[p] \in Entitled

\* Every status change of a subscription is a move of the state machine.
MovesFollowStateMachine ==
  [][\A p \in Payments :
       subStatus[p] # "NONE" /\ subStatus'[p] # subStatus[p] =>
         Reachable(subStatus[p], subStatus'[p])]_vars
=============================================================================
