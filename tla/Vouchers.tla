------------------------------ MODULE Vouchers ------------------------------
(***************************************************************************)
(* Prepaid voucher codes: batches that generate them, concurrent portal    *)
(* redemptions, revocation by operators and resellers, and the package     *)
(* they sell, which an operator may pause or archive meanwhile.  A         *)
(* redemption is a series of separate database calls: it claims the code,  *)
(* creates the guest, assigns and activates the package, and records the   *)
(* use.  Every redemption creates its own subscription, so subscriptions   *)
(* are counted per code.  Subscription expiry is in Settlement.            *)
(***************************************************************************)
EXTENDS Integers

CONSTANTS
  Codes,            \* voucher codes
  Batches,          \* batches, each created once
  BatchOf,          \* the batch of each code
  ResellerBatches,  \* batches generated for a reseller
  Requests,         \* redemptions that may execute at the same time
  Validity,         \* days until a code expires
  MaxTime,          \* bound on the clock
  MaxCrashes,       \* bound on processes that die
  MaxCloses,        \* bound on pausing or archiving the package
  NoCode

ASSUME VoucherAssumption ==
  /\ BatchOf \in [Codes -> Batches]
  /\ ResellerBatches \subseteq Batches
  /\ Validity \in Nat \ {0}
  /\ MaxTime \in Nat /\ MaxCrashes \in Nat /\ MaxCloses \in Nat
  /\ NoCode \notin Codes

VARIABLES
  now,
  plan,        \* ServicePlan: "active", "paused" or "archived"
  archiver,    \* archiveServicePlan: "idle", or "counted" no active subscription
  batch,       \* progress of createVoucherBatch
  status,      \* Voucher.status ("NONE" before the row exists)
  deadline,    \* Voucher.expires_at
  pending, active,   \* subscriptions created by redemptions of a code
  uses,        \* VoucherUse rows
  credits,     \* reseller commissions credited for a batch
  req,         \* each redemption: its program counter and code
  revoked,     \* codes an operator was told were revoked
  hit,         \* codes whose redemption died or was refused the package
  crashes, closes

planVars == <<plan, archiver, closes>>
batchVars == <<batch, deadline, credits>>
grantVars == <<pending, active, uses>>
vars == <<now, planVars, batchVars, status, grantVars, req, revoked, hit, crashes>>

Redeemable == {"GENERATED", "SOLD"}
Statuses == Redeemable \union {"NONE", "REDEEMED", "EXPIRED", "REVOKED"}
AfterClaim == {"upsert", "assign", "activate", "confirm", "use"}
Steps == AfterClaim \union {"idle", "expire", "claim"}
Idle == [pc |-> "idle", on |-> NoCode]

CodesOf(b) == {v \in Codes : BatchOf[v] = b}

Init ==
  /\ now = 0
  /\ plan = "active" /\ archiver = "idle" /\ closes = 0
  /\ batch = [b \in Batches |-> "new"]
  /\ status = [v \in Codes |-> "NONE"]
  /\ deadline = [v \in Codes |-> 0]
  /\ pending = [v \in Codes |-> 0]
  /\ active = [v \in Codes |-> 0]
  /\ uses = [v \in Codes |-> 0]
  /\ credits = [b \in Batches |-> 0]
  /\ req = [r \in Requests |-> Idle]
  /\ revoked = {} /\ hit = {} /\ crashes = 0

Tick ==
  /\ now < MaxTime
  /\ now' = now + 1
  /\ UNCHANGED <<planVars, batchVars, status, grantVars, req, revoked, hit, crashes>>

-----------------------------------------------------------------------------
(* createVoucherBatch *)

BatchStep(b, from, to) ==
  /\ batch[b] = from
  /\ batch' = [batch EXCEPT ![b] = to]
  /\ UNCHANGED <<now, planVars, grantVars, req, revoked, hit, crashes>>

ReadPlan(b) ==
  /\ BatchStep(b, "new", IF plan = "active" THEN "planned" ELSE "failed")
  /\ UNCHANGED <<deadline, credits, status>>

CreateBatch(b) ==
  /\ BatchStep(b, "planned", "row")
  /\ UNCHANGED <<deadline, credits, status>>

\* Mutant: the commission is credited before the codes exist.
CreditEarly(b) ==
  /\ BatchStep(b, "row", "coded")
  /\ credits' = [credits EXCEPT ![b] = @ + 1]
  /\ UNCHANGED <<deadline, status>>

\* All the codes in one statement, or none when one of them is taken.
CreateCodes(b) ==
  \/ /\ BatchStep(b, "row", IF b \in ResellerBatches THEN "coded" ELSE "done")
     /\ status' = [v \in Codes |->
                     IF BatchOf[v] = b THEN "GENERATED" ELSE status[v]]
     /\ deadline' = [v \in Codes |->
                       IF BatchOf[v] = b THEN now + Validity ELSE deadline[v]]
     /\ UNCHANGED credits
  \/ /\ BatchStep(b, "row", "failed")
     /\ UNCHANGED <<deadline, credits, status>>

CreditReseller(b) ==
  /\ BatchStep(b, "coded", "done")
  /\ credits' = [credits EXCEPT ![b] = @ + 1]
  /\ UNCHANGED <<deadline, status>>

BatchDies(b) ==
  /\ batch[b] \in {"row", "coded"}
  /\ crashes < MaxCrashes
  /\ crashes' = crashes + 1
  /\ batch' = [batch EXCEPT ![b] = "failed"]
  /\ UNCHANGED <<now, planVars, deadline, credits, status, grantVars, req,
                 revoked, hit>>

-----------------------------------------------------------------------------
(* redeemVoucher *)

Overdue(v) == deadline[v] <= now

\* The one read of the code; a code in any other state is refused.
Read(r, v) ==
  /\ req[r].pc = "idle"
  /\ \/ /\ Overdue(v) /\ status[v] \notin {"NONE", "REDEEMED"}
        /\ req' = [req EXCEPT ![r] = [pc |-> "expire", on |-> v]]
     \/ /\ ~Overdue(v) /\ status[v] \in Redeemable
        /\ req' = [req EXCEPT ![r] = [pc |-> "claim", on |-> v]]
  /\ UNCHANGED <<now, planVars, batchVars, status, grantVars, revoked, hit, crashes>>

End(r) == req' = [req EXCEPT ![r] = Idle]

Go(r, from, to) ==
  /\ req[r].pc = from
  /\ req' = [req EXCEPT ![r].pc = to]

\* An overdue code is written EXPIRED by id, whatever it has become.
Expire(r) ==
  /\ req[r].pc = "expire"
  /\ status' = [status EXCEPT ![req[r].on] = "EXPIRED"]
  /\ End(r)
  /\ UNCHANGED <<now, planVars, batchVars, grantVars, revoked, hit, crashes>>

\* Mutant: the claim is an update by id.
ClaimAnyStatus(r) ==
  /\ Go(r, "claim", "upsert")
  /\ status' = [status EXCEPT ![req[r].on] = "REDEEMED"]
  /\ UNCHANGED <<now, planVars, batchVars, grantVars, revoked, hit, crashes>>

\* The conditional claim; the loser is told the code has been redeemed.
Claim(r) ==
  LET v == req[r].on IN
  /\ req[r].pc = "claim"
  /\ \/ /\ status[v] \in Redeemable
        /\ Go(r, "claim", "upsert")
        /\ status' = [status EXCEPT ![v] = "REDEEMED"]
     \/ /\ status[v] \notin Redeemable
        /\ End(r)
        /\ UNCHANGED status
  /\ UNCHANGED <<now, planVars, batchVars, grantVars, revoked, hit, crashes>>

\* Mutant: the deadline is checked again after the claim.
UpsertUnexpired(r) ==
  /\ req[r].pc = "upsert"
  /\ IF Overdue(req[r].on) THEN End(r) ELSE Go(r, "upsert", "assign")
  /\ UNCHANGED <<now, planVars, batchVars, status, grantVars, revoked, hit, crashes>>

\* The guest subscriber named after the code is created or found again.
UpsertGuest(r) ==
  /\ Go(r, "upsert", "assign")
  /\ UNCHANGED <<now, planVars, batchVars, status, grantVars, revoked, hit, crashes>>

\* Mutant: no subscription is created for a guest who came before.
AssignNothing(r) ==
  /\ plan = "active"
  /\ Go(r, "assign", "activate")
  /\ UNCHANGED <<now, planVars, batchVars, status, grantVars, revoked, hit, crashes>>

\* assignPlanToSubscriber: a pending subscription, or refused when the
\* package is no longer active, with the code already claimed.
Assign(r) ==
  LET v == req[r].on IN
  /\ req[r].pc = "assign"
  /\ \/ /\ plan = "active"
        /\ Go(r, "assign", "activate")
        /\ pending' = [pending EXCEPT ![v] = @ + 1]
        /\ UNCHANGED hit
     \/ /\ plan # "active"
        /\ End(r)
        /\ hit' = hit \union {v}
        /\ UNCHANGED pending
  /\ UNCHANGED <<now, planVars, batchVars, status, active, uses, revoked, crashes>>

Activate(r) ==
  LET v == req[r].on IN
  /\ Go(r, "activate", "confirm")
  /\ pending' = [pending EXCEPT ![v] = @ - 1]
  /\ active' = [active EXCEPT ![v] = @ + 1]
  /\ UNCHANGED <<now, planVars, batchVars, status, uses, revoked, hit, crashes>>

\* Mutant: the redemption is over once the code is confirmed.
ConfirmAndStop(r) ==
  /\ req[r].pc = "confirm"
  /\ status' = [status EXCEPT ![req[r].on] = "REDEEMED"]
  /\ End(r)
  /\ UNCHANGED <<now, planVars, batchVars, grantVars, revoked, hit, crashes>>

\* The status is written once more, by id.
Confirm(r) ==
  /\ Go(r, "confirm", "use")
  /\ status' = [status EXCEPT ![req[r].on] = "REDEEMED"]
  /\ UNCHANGED <<now, planVars, batchVars, grantVars, revoked, hit, crashes>>

RecordUse(r) ==
  /\ req[r].pc = "use"
  /\ uses' = [uses EXCEPT ![req[r].on] = @ + 1]
  /\ End(r)
  /\ UNCHANGED <<now, planVars, batchVars, status, pending, active, revoked, hit, crashes>>

RequestDies(r) ==
  /\ req[r].pc # "idle"
  /\ crashes < MaxCrashes
  /\ crashes' = crashes + 1
  /\ hit' = hit \union {req[r].on}
  /\ End(r)
  /\ UNCHANGED <<now, planVars, batchVars, status, grantVars, revoked>>

-----------------------------------------------------------------------------
(* Revocation, of one code, of a batch, and by the reseller who owns it.   *)

\* Mutant: a used code is revoked too.
RevokeAnyStatus(some) ==
  /\ some # {}
  /\ status' = [v \in Codes |-> IF v \in some THEN "REVOKED" ELSE status[v]]
  /\ revoked' = revoked \union some
  /\ UNCHANGED <<now, planVars, batchVars, grantVars, req, hit, crashes>>

RevokeCodes(some) ==
  LET unused == {v \in some : status[v] \in Redeemable} IN
  /\ unused # {}
  /\ status' = [v \in Codes |-> IF v \in unused THEN "REVOKED" ELSE status[v]]
  /\ revoked' = revoked \union unused
  /\ UNCHANGED <<now, planVars, batchVars, grantVars, req, hit, crashes>>

Revoke(v) == RevokeCodes({v})
RevokeOwn(v) == BatchOf[v] \in ResellerBatches /\ RevokeCodes({v})
RevokeBatch(b) == RevokeCodes(CodesOf(b))

-----------------------------------------------------------------------------
(* The package: setServicePlanActive and archiveServicePlan.               *)

SetActive ==
  /\ plan \in {"active", "paused"}
  /\ IF plan = "active"
     THEN closes < MaxCloses /\ closes' = closes + 1 /\ plan' = "paused"
     ELSE plan' = "active" /\ UNCHANGED closes
  /\ UNCHANGED <<now, archiver, batchVars, status, grantVars, req, revoked, hit,
                 crashes>>

CountActive ==
  /\ archiver = "idle" /\ plan # "archived"
  /\ closes < MaxCloses /\ closes' = closes + 1
  /\ \A v \in Codes : active[v] = 0
  /\ archiver' = "counted"
  /\ UNCHANGED <<now, plan, batchVars, status, grantVars, req, revoked, hit, crashes>>

Archive ==
  /\ archiver = "counted"
  /\ archiver' = "idle"
  /\ plan' = "archived"
  /\ UNCHANGED <<now, closes, batchVars, status, grantVars, req, revoked, hit, crashes>>

-----------------------------------------------------------------------------

RedemptionStep(r) ==
  \/ Expire(r)
  \/ Claim(r)
  \/ UpsertGuest(r)
  \/ Assign(r)
  \/ Activate(r)
  \/ Confirm(r)
  \/ RecordUse(r)

Next ==
  \/ Tick
  \/ SetActive \/ CountActive \/ Archive
  \/ \E b \in Batches :
       \/ ReadPlan(b)
       \/ CreateBatch(b)
       \/ CreateCodes(b)
       \/ CreditReseller(b)
       \/ BatchDies(b)
       \/ RevokeBatch(b)
  \/ \E v \in Codes : Revoke(v) \/ RevokeOwn(v)
  \/ \E r \in Requests :
       \/ \E v \in Codes : Read(r, v)
       \/ RedemptionStep(r)
       \/ RequestDies(r)

Spec == Init /\ [][Next]_vars

\* A server that does not die executes the redemptions it has begun.
FairSpec == Spec /\ \A r \in Requests : WF_vars(RedemptionStep(r))

-----------------------------------------------------------------------------

TypeOK ==
  /\ now \in 0..MaxTime
  /\ plan \in {"active", "paused", "archived"}
  /\ archiver \in {"idle", "counted"}
  /\ batch \in [Batches -> {"new", "planned", "row", "coded", "done", "failed"}]
  /\ status \in [Codes -> Statuses]
  /\ deadline \in [Codes -> Nat]
  /\ pending \in [Codes -> Nat]
  /\ active \in [Codes -> Nat]
  /\ uses \in [Codes -> Nat]
  /\ credits \in [Batches -> Nat]
  /\ req \in [Requests -> [pc : Steps, on : Codes \union {NoCode}]]
  /\ revoked \subseteq Codes /\ hit \subseteq Codes
  /\ crashes \in 0..MaxCrashes /\ closes \in 0..MaxCloses

\* However many requests redeem a code, it creates one subscription at most,
\* and a recorded use has its activated subscription.
OneGrantPerCode ==
  \A v \in Codes :
    /\ pending[v] + active[v] <= 1
    /\ uses[v] <= active[v]

\* Once an operator has been told that a code is revoked, no redemption that
\* had already read it grants anything, and the code is never redeemed.
RevokedGrantsNothing ==
  \A v \in revoked :
    /\ pending[v] = 0 /\ active[v] = 0 /\ uses[v] = 0
    /\ status[v] \in {"REVOKED", "EXPIRED"}

\* A redeemed code without its subscription has a redemption at work, or one
\* that died or found the package withdrawn after claiming it.
BurntOnlyByFault ==
  \A v \in Codes :
    status[v] = "REDEEMED" /\ active[v] = 0 =>
      v \in hit \/ \E r \in Requests : req[r].on = v /\ req[r].pc \in AfterClaim

\* A reseller is credited once for a batch, whose codes then all exist.
CreditedBatchHasCodes ==
  \A b \in Batches :
    /\ credits[b] <= 1
    /\ credits[b] = 1 => \A v \in CodesOf(b) : status[v] # "NONE"

\* A claimed code ends up with an activated subscription and a recorded use,
\* unless its redemption died or found the package withdrawn.
ClaimedIsGranted ==
  \A v \in Codes :
    status[v] = "REDEEMED" ~> (active[v] = 1 /\ uses[v] = 1) \/ v \in hit

\* A package with an active subscription is not archived.
ArchiveRefusesActive ==
  [][plan # "archived" /\ plan' = "archived" =>
       \A v \in Codes : active[v] = 0]_vars
=============================================================================
