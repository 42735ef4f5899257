--------------------------- MODULE VouchersProofs ---------------------------
(***************************************************************************)
(* The safety of Vouchers for any number of codes, batches and concurrent  *)
(* redemptions, of crashes and of withdrawals of the package.              *)
(***************************************************************************)
EXTENDS Vouchers, TLAPS

\* A request past its claim owns the code: what it has created so far.
Holds(r, v) == req[r].pc \in AfterClaim /\ req[r].on = v

HolderFacts(r) ==
  LET v == req[r].on IN
  /\ req[r].pc # "idle" => v \in Codes /\ status[v] # "NONE"
  /\ req[r].pc \in AfterClaim =>
       /\ status[v] \in {"REDEEMED", "EXPIRED"}
       /\ v \notin revoked
       /\ uses[v] = 0
  /\ req[r].pc \in {"upsert", "assign"} => pending[v] = 0 /\ active[v] = 0
  /\ req[r].pc = "activate" => pending[v] = 1 /\ active[v] = 0
  /\ req[r].pc \in {"confirm", "use"} => pending[v] = 0 /\ active[v] = 1

HolderInv ==
  /\ \A r \in Requests : HolderFacts(r)
  /\ \A r, s \in Requests, v \in Codes : Holds(r, v) /\ Holds(s, v) => r = s

\* A code nobody has claimed has created nothing.
FreshInv ==
  \A v \in Codes :
    status[v] \in Redeemable \union {"NONE"} =>
      /\ pending[v] = 0 /\ active[v] = 0 /\ uses[v] = 0
      /\ v \notin revoked

\* What each stage of a batch has written.
BatchInv ==
  /\ \A v \in Codes :
       /\ batch[BatchOf[v]] \in {"new", "planned", "row"} => status[v] = "NONE"
       /\ batch[BatchOf[v]] \in {"coded", "done"} => status[v] # "NONE"
  /\ \A b \in Batches :
       /\ batch[b] # "done" => credits[b] = 0
       /\ credits[b] <= 1

IInv ==
  /\ TypeOK
  /\ HolderInv
  /\ FreshInv
  /\ BatchInv
  /\ OneGrantPerCode
  /\ RevokedGrantsNothing
  /\ BurntOnlyByFault

-----------------------------------------------------------------------------

LEMMA InitIInv == Init => IInv
  BY VoucherAssumption
  DEF Init, IInv, TypeOK, HolderInv, HolderFacts, Holds, FreshInv, BatchInv, Idle,
      OneGrantPerCode, RevokedGrantsNothing, BurntOnlyByFault, AfterClaim, Steps,
      Statuses, Redeemable

LEMMA NextIInv == IInv /\ [Next]_vars => IInv'
<1> USE VoucherAssumption
    DEF planVars, batchVars, grantVars, AfterClaim, Redeemable, Idle
<1> SUFFICES ASSUME IInv, [Next]_vars PROVE IInv'
  OBVIOUS
<1> USE DEF IInv
<1>1. CASE Tick
  BY <1>1 DEF Tick, TypeOK, HolderInv, HolderFacts, Holds, FreshInv, BatchInv,
     OneGrantPerCode, RevokedGrantsNothing, BurntOnlyByFault
<1>2. CASE SetActive \/ CountActive \/ Archive
  BY <1>2 DEF SetActive, CountActive, Archive, TypeOK, HolderInv, HolderFacts, Holds,
     FreshInv, BatchInv, OneGrantPerCode, RevokedGrantsNothing, BurntOnlyByFault
<1>3. ASSUME NEW b \in Batches, ReadPlan(b) \/ CreateBatch(b) \/ CreditReseller(b) \/ BatchDies(b)
      PROVE  IInv'
  <2>1. TypeOK' /\ BatchInv'
    BY <1>3 DEF ReadPlan, CreateBatch, CreditReseller, BatchDies, BatchStep, TypeOK, BatchInv
  <2>2. UNCHANGED <<status, grantVars, req, revoked, hit>>
    BY <1>3 DEF ReadPlan, CreateBatch, CreditReseller, BatchDies, BatchStep
  <2>3. QED
    BY <2>1, <2>2 DEF HolderInv, HolderFacts, Holds, FreshInv, OneGrantPerCode,
       RevokedGrantsNothing, BurntOnlyByFault
<1>4. ASSUME NEW b \in Batches, CreateCodes(b)
      PROVE  IInv'
  <2>1. CASE batch' = [batch EXCEPT ![b] = "failed"]
    BY <1>4, <2>1 DEF CreateCodes, BatchStep, TypeOK, HolderInv, HolderFacts, Holds,
       FreshInv, BatchInv, OneGrantPerCode, RevokedGrantsNothing, BurntOnlyByFault
  <2>2. CASE batch' # [batch EXCEPT ![b] = "failed"]
    <3>1. /\ batch[b] = "row"
          /\ batch' = [batch EXCEPT ![b] = IF b \in ResellerBatches THEN "coded" ELSE "done"]
          /\ status' = [v \in Codes |-> IF BatchOf[v] = b THEN "GENERATED" ELSE status[v]]
          /\ deadline' = [v \in Codes |->
                            IF BatchOf[v] = b THEN now + Validity ELSE deadline[v]]
          /\ UNCHANGED <<now, planVars, credits, grantVars, req, revoked, hit, crashes>>
      BY <1>4, <2>2 DEF CreateCodes, BatchStep
    <3>2. \A v \in Codes : BatchOf[v] = b => status[v] = "NONE"
      BY <3>1 DEF BatchInv
    <3>3. TypeOK'
      BY <3>1 DEF TypeOK, Statuses
    <3>4. HolderInv'
      BY <3>1, <3>2 DEF HolderInv, HolderFacts, Holds
    <3>5. FreshInv' /\ BatchInv'
      BY <3>1, <3>2 DEF FreshInv, BatchInv, TypeOK
    <3>6. OneGrantPerCode' /\ RevokedGrantsNothing' /\ BurntOnlyByFault'
      BY <3>1, <3>2 DEF OneGrantPerCode, RevokedGrantsNothing, BurntOnlyByFault, TypeOK
    <3>7. QED
      BY <3>3, <3>4, <3>5, <3>6
  <2>3. QED
    BY <2>1, <2>2
<1>5. ASSUME NEW some \in SUBSET Codes, RevokeCodes(some)
      PROVE  IInv'
  <2>1. TypeOK'
    BY <1>5 DEF RevokeCodes, TypeOK, Statuses
  <2>2. HolderInv'
    BY <1>5 DEF RevokeCodes, HolderInv, HolderFacts, Holds
  <2>3. FreshInv' /\ BatchInv'
    BY <1>5 DEF RevokeCodes, FreshInv, BatchInv
  <2>4. OneGrantPerCode' /\ RevokedGrantsNothing' /\ BurntOnlyByFault'
    BY <1>5 DEF RevokeCodes, FreshInv, OneGrantPerCode, RevokedGrantsNothing,
       BurntOnlyByFault, TypeOK
  <2>5. QED
    BY <2>1, <2>2, <2>3, <2>4
<1>6. ASSUME NEW r \in Requests, NEW v \in Codes, Read(r, v)
      PROVE  IInv'
  <2>1. TypeOK'
    BY <1>6 DEF Read, TypeOK, Steps
  <2>2. HolderInv'
    BY <1>6 DEF Read, HolderInv, HolderFacts, Holds, TypeOK
  <2>3. BurntOnlyByFault'
    BY <1>6 DEF Read, BurntOnlyByFault, TypeOK
  <2>4. QED
    BY <1>6, <2>1, <2>2, <2>3 DEF Read, FreshInv, BatchInv, OneGrantPerCode,
       RevokedGrantsNothing
<1>7. ASSUME NEW r \in Requests, RedemptionStep(r) \/ RequestDies(r)
      PROVE  IInv'
  <2> DEFINE v == req[r].on
  <2>1. v \in Codes /\ status[v] # "NONE"
    BY <1>7 DEF RedemptionStep, RequestDies, Expire, Claim, UpsertGuest, Assign, Activate,
       Confirm, RecordUse, Go, HolderInv, HolderFacts
  <2>2. CASE Expire(r)
    <3>1. TypeOK'
      BY <2>1, <2>2 DEF Expire, End, TypeOK, Statuses, Steps
    <3>2. HolderInv'
      BY <2>1, <2>2 DEF Expire, End, HolderInv, HolderFacts, Holds, TypeOK
    <3>3. FreshInv' /\ BatchInv'
      BY <2>1, <2>2 DEF Expire, FreshInv, BatchInv, TypeOK
    <3>4. OneGrantPerCode' /\ RevokedGrantsNothing' /\ BurntOnlyByFault'
      BY <2>1, <2>2 DEF Expire, End, OneGrantPerCode, RevokedGrantsNothing,
         BurntOnlyByFault, TypeOK
    <3>5. QED
      BY <3>1, <3>2, <3>3, <3>4
  <2>3. CASE Claim(r)
    <3>1. TypeOK'
      BY <2>1, <2>3 DEF Claim, End, Go, TypeOK, Statuses, Steps
    <3>2. CASE status[v] \in Redeemable
      <4>1. /\ req' = [req EXCEPT ![r].pc = "upsert"]
            /\ status' = [status EXCEPT ![v] = "REDEEMED"]
            /\ UNCHANGED <<batchVars, grantVars, revoked, hit>>
        BY <2>3, <3>2 DEF Claim, Go
      <4>2. \A s \in Requests : ~Holds(s, v)
        BY <3>2 DEF HolderInv, HolderFacts, Holds
      <4>3. HolderInv'
        BY <2>1, <3>2, <4>1, <4>2 DEF HolderInv, HolderFacts, Holds, FreshInv, TypeOK
      <4>4. FreshInv' /\ BatchInv'
        BY <2>1, <4>1 DEF FreshInv, BatchInv, TypeOK
      <4>5. OneGrantPerCode' /\ RevokedGrantsNothing' /\ BurntOnlyByFault'
        BY <2>1, <3>2, <4>1 DEF OneGrantPerCode, RevokedGrantsNothing, BurntOnlyByFault, TypeOK
      <4>6. QED
        BY <3>1, <4>3, <4>4, <4>5
    <3>3. CASE status[v] \notin Redeemable
      <4>1. /\ req[r].pc = "claim"
            /\ req' = [req EXCEPT ![r] = Idle]
            /\ UNCHANGED <<status, batchVars, grantVars, revoked, hit>>
        BY <2>3, <3>3 DEF Claim, End
      <4>2. QED
        BY <3>1, <4>1 DEF HolderInv, HolderFacts, Holds, FreshInv, BatchInv,
           OneGrantPerCode, RevokedGrantsNothing, BurntOnlyByFault, TypeOK
    <3>4. QED
      BY <3>2, <3>3
  <2>4. CASE UpsertGuest(r)
    <3>1. TypeOK'
      BY <2>4 DEF UpsertGuest, Go, TypeOK, Steps
    <3>2. HolderInv'
      BY <2>4 DEF UpsertGuest, Go, HolderInv, HolderFacts, Holds, TypeOK
    <3>3. QED
      BY <2>4, <3>1, <3>2 DEF UpsertGuest, Go, FreshInv, BatchInv, OneGrantPerCode,
         RevokedGrantsNothing, BurntOnlyByFault, TypeOK
  <2>5. CASE Assign(r)
    <3>1. TypeOK'
      BY <2>1, <2>5 DEF Assign, End, Go, TypeOK, Steps
    <3>2. CASE plan = "active"
      <4>1. /\ req[r].pc = "assign"
            /\ req' = [req EXCEPT ![r].pc = "activate"]
            /\ pending' = [pending EXCEPT ![v] = @ + 1]
            /\ UNCHANGED <<status, active, uses, batchVars, revoked, hit>>
        BY <2>5, <3>2 DEF Assign, Go
      <4>2. /\ status[v] \in {"REDEEMED", "EXPIRED"} /\ v \notin revoked
            /\ pending[v] = 0 /\ active[v] = 0 /\ uses[v] = 0
            /\ \A s \in Requests : Holds(s, v) => s = r
        BY <2>1, <4>1 DEF HolderInv, HolderFacts, Holds
      <4>3. HolderInv'
        BY <2>1, <4>1, <4>2 DEF HolderInv, HolderFacts, Holds, TypeOK
      <4>4. FreshInv' /\ BatchInv' /\ OneGrantPerCode' /\ RevokedGrantsNothing'
        BY <2>1, <4>1, <4>2 DEF FreshInv, BatchInv, OneGrantPerCode, RevokedGrantsNothing,
           TypeOK
      <4>5. BurntOnlyByFault'
        BY <4>1 DEF BurntOnlyByFault, TypeOK
      <4>6. QED
        BY <3>1, <4>3, <4>4, <4>5
    <3>3. CASE plan # "active"
      <4>1. /\ req' = [req EXCEPT ![r] = Idle]
            /\ hit' = hit \union {v}
            /\ UNCHANGED <<status, batchVars, grantVars, revoked>>
        BY <2>5, <3>3 DEF Assign, End
      <4>2. QED
        BY <3>1, <4>1 DEF HolderInv, HolderFacts, Holds, FreshInv, BatchInv,
           OneGrantPerCode, RevokedGrantsNothing, BurntOnlyByFault, TypeOK
    <3>4. QED
      BY <3>2, <3>3
  <2>6. CASE Activate(r)
    <3>1. /\ req[r].pc = "activate"
          /\ req' = [req EXCEPT ![r].pc = "confirm"]
          /\ pending' = [pending EXCEPT ![v] = @ - 1]
          /\ active' = [active EXCEPT ![v] = @ + 1]
          /\ UNCHANGED <<now, planVars, status, uses, batchVars, revoked, hit, crashes>>
      BY <2>6 DEF Activate, Go
    <3>2. /\ status[v] \in {"REDEEMED", "EXPIRED"} /\ v \notin revoked
          /\ pending[v] = 1 /\ active[v] = 0 /\ uses[v] = 0
          /\ \A s \in Requests : Holds(s, v) => s = r
      BY <2>1, <3>1 DEF HolderInv, HolderFacts, Holds
    <3>3. TypeOK'
      BY <2>1, <3>1, <3>2 DEF TypeOK, Steps
    <3>4. HolderInv'
      BY <2>1, <3>1, <3>2 DEF HolderInv, HolderFacts, Holds, TypeOK
    <3>5. FreshInv' /\ BatchInv' /\ OneGrantPerCode' /\ RevokedGrantsNothing'
      BY <2>1, <3>1, <3>2 DEF FreshInv, BatchInv, OneGrantPerCode, RevokedGrantsNothing,
         TypeOK
    <3>6. BurntOnlyByFault'
      BY <3>1, <3>2 DEF BurntOnlyByFault, TypeOK
    <3>7. QED
      BY <3>3, <3>4, <3>5, <3>6
  <2>7. CASE Confirm(r)
    <3>1. TypeOK'
      BY <2>1, <2>7 DEF Confirm, Go, TypeOK, Steps, Statuses
    <3>2. HolderInv'
      BY <2>1, <2>7 DEF Confirm, Go, HolderInv, HolderFacts, Holds, TypeOK
    <3>3. FreshInv' /\ BatchInv'
      BY <2>1, <2>7 DEF Confirm, FreshInv, BatchInv, TypeOK
    <3>4. OneGrantPerCode' /\ RevokedGrantsNothing' /\ BurntOnlyByFault'
      BY <2>1, <2>7 DEF Confirm, Go, HolderInv, HolderFacts, OneGrantPerCode,
         RevokedGrantsNothing, BurntOnlyByFault, TypeOK
    <3>5. QED
      BY <3>1, <3>2, <3>3, <3>4
  <2>8. CASE RecordUse(r)
    <3>1. /\ req[r].pc = "use"
          /\ req' = [req EXCEPT ![r] = Idle]
          /\ uses' = [uses EXCEPT ![v] = @ + 1]
          /\ UNCHANGED <<now, planVars, status, pending, active, batchVars, revoked, hit,
                         crashes>>
      BY <2>8 DEF RecordUse, End
    <3>2. /\ status[v] \in {"REDEEMED", "EXPIRED"} /\ v \notin revoked
          /\ pending[v] = 0 /\ active[v] = 1 /\ uses[v] = 0
          /\ \A s \in Requests : Holds(s, v) => s = r
      BY <2>1, <3>1 DEF HolderInv, HolderFacts, Holds
    <3>3. TypeOK'
      BY <2>1, <3>1, <3>2 DEF TypeOK, Steps
    <3>4. HolderInv'
      BY <2>1, <3>1, <3>2 DEF HolderInv, HolderFacts, Holds, TypeOK
    <3>5. FreshInv' /\ BatchInv' /\ OneGrantPerCode' /\ RevokedGrantsNothing'
      BY <2>1, <3>1, <3>2 DEF FreshInv, BatchInv, OneGrantPerCode, RevokedGrantsNothing,
         TypeOK
    <3>6. BurntOnlyByFault'
      BY <2>1, <3>1, <3>2 DEF BurntOnlyByFault, TypeOK
    <3>7. QED
      BY <3>3, <3>4, <3>5, <3>6
  <2>9. CASE RequestDies(r)
    <3>1. TypeOK'
      BY <2>1, <2>9 DEF RequestDies, End, TypeOK, Steps
    <3>2. QED
      BY <2>1, <2>9, <3>1 DEF RequestDies, End, HolderInv, HolderFacts, Holds, FreshInv,
         BatchInv, OneGrantPerCode, RevokedGrantsNothing, BurntOnlyByFault, TypeOK
  <2>10. QED
    BY <1>7, <2>2, <2>3, <2>4, <2>5, <2>6, <2>7, <2>8, <2>9 DEF RedemptionStep
<1>8. CASE UNCHANGED vars
  BY <1>8 DEF vars, TypeOK, HolderInv, HolderFacts, Holds, FreshInv, BatchInv,
     OneGrantPerCode, RevokedGrantsNothing, BurntOnlyByFault
<1>9. QED
  BY <1>1, <1>2, <1>3, <1>4, <1>5, <1>6, <1>7, <1>8
  DEF Next, Revoke, RevokeOwn, RevokeBatch, CodesOf

LEMMA Invariance == Spec => []IInv
  BY InitIInv, NextIInv, PTL DEF Spec

\* Every variable keeps its type.
THEOREM TypeCorrect == Spec => []TypeOK
  BY Invariance, PTL DEF IInv

\* A code grants one subscription and one use at most, for any number of
\* concurrent redemptions.
THEOREM GrantsOnce == Spec => []OneGrantPerCode
  BY Invariance, PTL DEF IInv

\* A successful revocation wins over every redemption that read the code before.
THEOREM RevocationHolds == Spec => []RevokedGrantsNothing
  BY Invariance, PTL DEF IInv

\* Only a crash or a withdrawn package burns a code.
THEOREM OnlyFaultsBurn == Spec => []BurntOnlyByFault
  BY Invariance, PTL DEF IInv

\* A credited batch has its codes, and is credited once.
THEOREM CreditsOncePerBatch == Spec => []CreditedBatchHasCodes
<1>1. IInv => CreditedBatchHasCodes
  BY VoucherAssumption DEF IInv, BatchInv, CreditedBatchHasCodes, CodesOf, TypeOK
<1>2. QED
  BY <1>1, Invariance, PTL
=============================================================================
